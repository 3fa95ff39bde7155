------------------------------ MODULE CpFence --------------------------------
(***************************************************************************)
(* Fence accounting of radeon_cp.c.  Submissions carry a fence sequence    *)
(* number or none; the command processor takes them in order and writes    *)
(* the number to CP_SCRATCH_REG0 when the engines are idle again.  The     *)
(* driver keeps the last number it submitted (PendingFence), a count of    *)
(* fence-less submissions (PendingUnfenced), and the next number.          *)
(*                                                                         *)
(* Callers hold the board lock, so a submission is one step here; CpRing   *)
(* shows what happens inside it.  A polling loop is the step that ends it. *)
(***************************************************************************)
EXTENDS Integers, Sequences

CONSTANTS
  Modulus,      \* 2^32, the range of a sequence number
  TestBefore,   \* CP_TEST_BEFORE and CP_TEST_AFTER, which CpRingTest leaves in
  TestAfter,    \* the scratch register when it fails and when it succeeds
  UnfencedMax,  \* ~0UL, where PendingUnfenced saturates
  MaxFencesInFlight,  \* bound: submissions in flight (the ring holds finitely many)
  MaxAhead      \* bound: numbers taken ahead of the scratch register

Half == Modulus \div 2

ASSUME FenceAssumption ==
  /\ Modulus \in Nat /\ Modulus = 2 * Half
  /\ {TestBefore, TestAfter} \subseteq Half .. Modulus - 1
  /\ UnfencedMax \in Nat \ {0}
  /\ MaxFencesInFlight \in Nat
  /\ MaxAhead \in Nat
  /\ Modulus - TestAfter + 1 <= MaxAhead /\ MaxAhead + 1 < Half

VARIABLES
  ready,           \* state->Ready
  nextFence,       \* state->NextFence
  pendingFence,    \* state->PendingFence
  pendingUnfenced, \* state->PendingUnfenced
  scratch,         \* CP_SCRATCH_REG0
  flight           \* the submissions not yet completed, oldest first

fencevars == <<ready, nextFence, pendingFence, pendingUnfenced, scratch, flight>>

Number == 0 .. Modulus - 1

(* A submission: the first number that covers it (its own when it is       *)
(* fenced), and whether it waits in the ring or is in the engines.         *)
Submission == [cover : Number, fenced : BOOLEAN, at : {"ring", "engine"}]
------------------------------------------------------------------------------
(* a - b and n + 1 in 32 bits, for operands that are 32-bit numbers.         *)
Ahead(a, b) == IF a >= b THEN a - b ELSE a - b + Modulus

Following(n) == IF n + 1 = Modulus THEN 0 ELSE n + 1

(* fence && (LONG)(current - fence) >= 0 *)
CpFenceReached(current, fence) == fence # 0 /\ Ahead(current, fence) < Half

\* Mutant: zero is a sequence number like any other.
SequenceZero(n) == n

(* NextFence++, once more if that gave zero. *)
Sequence(n) == IF n = 0 THEN 1 ELSE n

(* No code tests this bound: 2^31 numbers ahead of the scratch register do  *)
(* not fit the ring, only failing commits could take so many.               *)
NumberToTake == Ahead(nextFence, scratch) <= MaxAhead

Append1(cover, fenced) ==
  Append(flight, [cover |-> cover, fenced |-> fenced, at |-> "ring"])

FenceInit ==
  /\ ready = TRUE
  /\ nextFence = 1
  /\ pendingFence = 0 /\ pendingUnfenced = 0
  /\ scratch = TestAfter
  /\ flight = <<>>

(* A 2D submission: always fenced. *)
RadeonCpSubmit ==
  /\ ready /\ Len(flight) < MaxFencesInFlight /\ NumberToTake
  /\ nextFence' = Following(Sequence(nextFence))
  /\ flight' = Append1(Sequence(nextFence), TRUE)
  /\ pendingFence' = Sequence(nextFence)
  /\ UNCHANGED <<ready, pendingUnfenced, scratch>>

(* A 3D submission with a fence: it covers the fence-less ones before it. *)
SubmitStreamFenced ==
  /\ ready /\ Len(flight) < MaxFencesInFlight /\ NumberToTake
  /\ nextFence' = Following(Sequence(nextFence))
  /\ flight' = Append1(Sequence(nextFence), TRUE)
  /\ pendingFence' = Sequence(nextFence)
  /\ pendingUnfenced' = 0
  /\ UNCHANGED <<ready, scratch>>

(* And without one: the count saturates. *)
SubmitStreamUnfenced ==
  /\ ready /\ Len(flight) < MaxFencesInFlight /\ NumberToTake
  /\ flight' = Append1(Sequence(nextFence), FALSE)
  /\ pendingUnfenced' = IF pendingUnfenced = UnfencedMax THEN UnfencedMax
                        ELSE pendingUnfenced + 1
  /\ UNCHANGED <<ready, nextFence, pendingFence, scratch>>

(* A fenced submission whose commit fails: its number is gone, nothing is   *)
(* pending for it.                                                          *)
SubmitRefused ==
  /\ ready /\ NumberToTake
  /\ nextFence' = Following(Sequence(nextFence))
  /\ UNCHANGED <<ready, pendingFence, pendingUnfenced, scratch, flight>>

(* RadeonCpTestFence that returns TRUE, the last poll of RadeonCpWaitFence  *)
(* included; one that returns FALSE changes nothing.                        *)
RadeonCpTestFence(fence) ==
  /\ ready /\ CpFenceReached(scratch, fence)
  /\ pendingFence' =
       IF CpFenceReached(scratch, pendingFence) THEN 0 ELSE pendingFence
  /\ UNCHANGED <<ready, nextFence, pendingUnfenced, scratch, flight>>

(* RadeonCpWait that saw the pending fence in the scratch register: it      *)
(* compares for equality.                                                   *)
RadeonCpWait ==
  /\ ready /\ pendingFence # 0 /\ scratch = pendingFence
  /\ pendingFence' = 0
  /\ pendingUnfenced' = 0
  /\ UNCHANGED <<ready, nextFence, scratch, flight>>

(* RadeonCpWaitDrained that found the engines idle. *)
RadeonCpWaitDrained ==
  /\ ready /\ pendingUnfenced # 0 /\ flight = <<>>
  /\ pendingUnfenced' = 0
  /\ UNCHANGED <<ready, nextFence, pendingFence, scratch, flight>>

(* RadeonCpAbort, CpDisable(FALSE) in it: what was not fetched never will   *)
(* be, and that is all behind the first n, for the ring is read in order;   *)
(* work in the engines goes on, but the scratch write behind it is cut off. *)
(* PendingUnfenced is left as it is.                                        *)
RadeonCpAbort ==
  /\ ready
  /\ ready' = FALSE
  /\ pendingFence' = 0
  /\ \E n \in 0 .. Len(flight) :
       /\ \A i \in DOMAIN flight : flight[i].at = "engine" <=> i <= n
       /\ flight' = [i \in 1 .. n |-> [flight[i] EXCEPT !.fenced = FALSE]]
  /\ UNCHANGED <<nextFence, pendingUnfenced, scratch>>

\* Mutant: the ring test restores what the scratch register held.
RadeonCpRecoverKeepsScratch ==
  /\ ~ready /\ flight = <<>>
  /\ ready' = TRUE
  /\ pendingFence' = 0 /\ pendingUnfenced' = 0
  /\ nextFence' = 1
  /\ UNCHANGED <<scratch, flight>>

(* RadeonCpRecover: CpReset and CpLoadMicrocode leave idle engines,         *)
(* CpRingTest its marker in the scratch register, and numbering starts anew.*)
RadeonCpRecover ==
  /\ ~ready /\ flight = <<>>
  /\ ready' = TRUE
  /\ pendingFence' = 0 /\ pendingUnfenced' = 0
  /\ nextFence' = 1
  /\ scratch' = TestAfter
  /\ UNCHANGED flight

(* It may fail at each of its steps, and turns everything off again. *)
RecoverFails ==
  /\ ~ready
  /\ pendingFence' = 0
  /\ scratch' \in {scratch, TestBefore, TestAfter}
  /\ UNCHANGED <<ready, nextFence, pendingUnfenced, flight>>
------------------------------------------------------------------------------
(* The command processor (external).  It reads the ring in order and stops  *)
(* at the WAIT_UNTIL of a fence tail until the engines are idle.            *)

CpFetch(i) ==
  /\ ready
  /\ flight[i].at = "ring"
  /\ \A j \in 1 .. i - 1 : flight[j].at = "engine" /\ ~flight[j].fenced
  /\ flight' = [flight EXCEPT ![i].at = "engine"]
  /\ UNCHANGED <<ready, nextFence, pendingFence, pendingUnfenced, scratch>>

Without(i) == SubSeq(flight, 1, i - 1) \o SubSeq(flight, i + 1, Len(flight))

(* Fence-less work completes. *)
EngineDone(i) ==
  /\ flight[i].at = "engine" /\ ~flight[i].fenced
  /\ flight' = Without(i)
  /\ UNCHANGED <<ready, nextFence, pendingFence, pendingUnfenced, scratch>>

(* The fence tail: flush, WAIT_UNTIL idle, then the number to the scratch   *)
(* register.  The tail of RadeonCpSubmit does not name the 3D engine, but   *)
(* CpConfigureRing set ISYNC_CPSCRATCH_IDLEGUI, which holds every scratch   *)
(* write until all engines are idle.                                        *)
FenceTail(i) ==
  /\ ready
  /\ i = 1 /\ flight[i].at = "engine" /\ flight[i].fenced
  /\ scratch' = flight[i].cover
  /\ flight' = Without(i)
  /\ UNCHANGED <<ready, nextFence, pendingFence, pendingUnfenced>>

FenceNext ==
  \/ RadeonCpSubmit
  \/ SubmitStreamFenced
  \/ SubmitStreamUnfenced
  \/ SubmitRefused
  \/ \E fence \in Number : RadeonCpTestFence(fence)
  \/ RadeonCpWait
  \/ RadeonCpWaitDrained
  \/ RadeonCpAbort
  \/ RadeonCpRecover
  \/ RecoverFails
  \/ \E i \in DOMAIN flight : CpFetch(i) \/ EngineDone(i) \/ FenceTail(i)

FenceSpec == FenceInit /\ [][FenceNext]_fencevars
------------------------------------------------------------------------------
FenceTypeOK ==
  /\ ready \in BOOLEAN
  /\ nextFence \in Number /\ pendingFence \in Number /\ scratch \in Number
  /\ pendingUnfenced \in 0 .. UnfencedMax
  /\ flight \in Seq(Submission) /\ Len(flight) <= MaxFencesInFlight

(* A fence is never seen early: while a submission is in the ring or in the *)
(* engines, no number that covers it counts as reached, across the skipped  *)
(* zero, the wrap of the signed difference, numbers lost to failed commits  *)
(* and the restart of the numbering by a recovery.                          *)
FenceNeverEarly ==
  ready => \A i \in DOMAIN flight : ~CpFenceReached(scratch, flight[i].cover)

Fenced == {i \in DOMAIN flight : flight[i].fenced}

(* PendingFence names the last fenced submission for as long as any fenced  *)
(* submission is in flight, and is then not the 0 that means none: waiting  *)
(* for it waits for all of them.                                            *)
PendingFenceIsLast ==
  ready /\ Fenced # {} =>
    /\ pendingFence # 0
    /\ pendingFence = flight[CHOOSE i \in Fenced : \A j \in Fenced : j <= i].cover

(* The equality test of RadeonCpWait is as good as CpFenceReached: the      *)
(* scratch register cannot have gone past the pending fence, which would    *)
(* leave the wait to run into its deadline and the engine to be recovered.  *)
WaitSeesFence ==
  pendingFence # 0 =>
    (CpFenceReached(scratch, pendingFence) <=> scratch = pendingFence)

(* The claim of RadeonCpWaitDrained, "covering fence-less submissions that  *)
(* PendingFence cannot name": when neither RadeonCpWait nor                 *)
(* RadeonCpWaitDrained finds anything to wait for, nothing is in flight.    *)
DrainedMeansIdle ==
  ready /\ pendingFence = 0 /\ pendingUnfenced = 0 => flight = <<>>
==============================================================================
