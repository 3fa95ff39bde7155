-------------------------------- MODULE Samples --------------------------------
(***************************************************************************)
(* The ring of execution samples: RecordExecSample writes an entry in      *)
(* several stores, and a client that has the ring's address from           *)
(* Radeon3DGetInfo reads it with no lock (tools/radeon3dinfo.c).  A sample *)
(* is its sequence number and a few words, each of which says which        *)
(* submission it is of.  Submissions hold BoardLock, so one writes at a    *)
(* time; numbers do not come round to 0 again within MaxSample.            *)
(***************************************************************************)
EXTENDS Integers, FiniteSets

CONSTANTS
  SAMPLE_RING_SIZE,  \* RADEON3D_SAMPLE_RING_SIZE
  Field,             \* the words of a sample besides Seq
  MaxSample          \* bound on the samples recorded

ASSUME SamplesAssumption ==
  SAMPLE_RING_SIZE \in Nat \ {0} /\ MaxSample \in Nat /\ "Seq" \notin Field

VARIABLES
  timer,     \* ExecTimerIO: none, open or failed
  ring,      \* ExecSampleRing: unallocated, or its entries
  sampleSeq, \* ExecSampleSeq
  writer,    \* RecordExecSample: where it is and the fields still to store
  reader,    \* DumpSamples
  accepted   \* history: the copies that the reader printed

samplevars == <<timer, ring, sampleSeq, writer, reader, accepted>>
------------------------------------------------------------------------------
SlotIndex(seq) == (seq - 1) % SAMPLE_RING_SIZE
NoRing == [i \in {} |-> 0]
Words == {"Seq"} \cup Field
Fresh == [i \in 0 .. SAMPLE_RING_SIZE - 1 |-> [w \in Words |-> 0]]
Idling == [pc |-> "idle", left |-> {}]
NotReading == [pc |-> "idle", seq |-> 0, next |-> 0, left |-> {}, copy |-> [w \in Words |-> 0]]

SamplesInit ==
  /\ timer = "none" /\ ring = NoRing /\ sampleSeq = 0
  /\ writer = Idling /\ reader = NotReading /\ accepted = {}

(* EnsureExecTimer, by the first session: once it failed it is not tried    *)
(* again, and with no memory for the ring nothing is sampled.               *)
EnsureExecTimer ==
  /\ timer = "none"
  /\ \/ timer' = "failed" /\ UNCHANGED ring
     \/ timer' = "open" /\ ring' \in {Fresh, NoRing}
  /\ UNCHANGED <<sampleSeq, writer, reader, accepted>>

\* Mutant: the slot keeps its number while the words change.
WithdrawnNot(r, seq) == r

Withdrawn(r, seq) == [r EXCEPT ![SlotIndex(seq)]["Seq"] = 0]

(* RecordExecSample: the slot is withdrawn first, the words are stored in   *)
(* the order of the compiler, and the number is published last.             *)
RecordBegin ==
  /\ timer = "open" /\ ring # NoRing /\ writer.pc = "idle" /\ sampleSeq < MaxSample
  /\ ring' = Withdrawn(ring, sampleSeq + 1)
  /\ writer' = [pc |-> "fill", left |-> Field]
  /\ UNCHANGED <<timer, sampleSeq, reader, accepted>>

RecordField ==
  /\ writer.pc = "fill"
  /\ \E w \in writer.left :
       /\ ring' = [ring EXCEPT ![SlotIndex(sampleSeq + 1)][w] = sampleSeq + 1]
       /\ writer' = [writer EXCEPT !.left = @ \ {w}]
  /\ UNCHANGED <<timer, sampleSeq, reader, accepted>>

RecordPublish ==
  /\ writer.pc = "fill" /\ writer.left = {}
  /\ ring' = [ring EXCEPT ![SlotIndex(sampleSeq + 1)]["Seq"] = sampleSeq + 1]
  /\ writer' = [writer EXCEPT !.pc = "count"]
  /\ UNCHANGED <<timer, sampleSeq, reader, accepted>>

RecordCount ==
  /\ writer.pc = "count" /\ sampleSeq' = sampleSeq + 1 /\ writer' = Idling
  /\ UNCHANGED <<timer, ring, reader, accepted>>
------------------------------------------------------------------------------

FirstSeq(seq) == IF seq > SAMPLE_RING_SIZE THEN seq - SAMPLE_RING_SIZE + 1 ELSE 1

(* DumpSamples: from the ring and number that Radeon3DGetInfo gave, the     *)
(* samples that should be in it, oldest first.                              *)
DumpBegin ==
  /\ reader.pc = "idle" /\ ring # NoRing /\ sampleSeq # 0
  /\ reader' = [NotReading EXCEPT !.pc = "check", !.seq = sampleSeq, !.next = FirstSeq(sampleSeq)]
  /\ accepted' = {}
  /\ UNCHANGED <<timer, ring, sampleSeq, writer>>

DumpSkip == [reader EXCEPT !.pc = "check", !.next = @ + 1, !.copy = NotReading.copy]

DumpCheck ==
  /\ reader.pc = "check" /\ reader.next <= reader.seq
  /\ reader' = IF ring[SlotIndex(reader.next)]["Seq"] # reader.next THEN DumpSkip
               ELSE [reader EXCEPT !.pc = "copy", !.left = Words]
  /\ UNCHANGED <<timer, ring, sampleSeq, writer, accepted>>

DumpCopy ==
  /\ reader.pc = "copy"
  /\ \E w \in reader.left :
       reader' = [reader EXCEPT !.left = @ \ {w},
                                !.copy[w] = ring[SlotIndex(reader.next)][w]]
  /\ UNCHANGED <<timer, ring, sampleSeq, writer, accepted>>

StillThere ==
  ring[SlotIndex(reader.next)]["Seq"] = reader.next /\ reader.copy["Seq"] = reader.next

(* The number is looked at again after the copy.                            *)
DumpAccept ==
  /\ reader.pc = "copy" /\ reader.left = {}
  /\ reader' = DumpSkip
  /\ accepted' = IF StillThere THEN accepted \cup {reader.copy} ELSE accepted
  /\ UNCHANGED <<timer, ring, sampleSeq, writer>>

DumpEnd ==
  /\ reader.pc = "check" /\ reader.next > reader.seq
  /\ reader' = NotReading
  /\ UNCHANGED <<timer, ring, sampleSeq, writer, accepted>>

(* Radeon3DFreeExecTimer, when the library is expunged: nobody has it open, *)
(* so no call runs and no client reads.  The base goes with it, and the     *)
(* next one starts anew.                                                    *)
FreeExecTimer ==
  /\ timer # "none" /\ writer = Idling /\ reader = NotReading
  /\ timer' = "none" /\ ring' = NoRing /\ sampleSeq' = 0 /\ accepted' = {}
  /\ UNCHANGED <<writer, reader>>

SamplesNext ==
  \/ EnsureExecTimer \/ RecordBegin \/ RecordField \/ RecordPublish \/ RecordCount
  \/ DumpBegin \/ DumpCheck \/ DumpCopy \/ DumpAccept \/ DumpEnd \/ FreeExecTimer

SamplesSpec == SamplesInit /\ [][SamplesNext]_samplevars
------------------------------------------------------------------------------
(* Properties.                                                              *)

(* Types; the published number is never behind the count.                   *)
SamplesTypeOK ==
  /\ timer \in {"none", "open", "failed"} /\ sampleSeq \in 0 .. MaxSample
  /\ ring # NoRing => timer = "open" /\ DOMAIN ring = 0 .. SAMPLE_RING_SIZE - 1
  /\ writer.pc \in {"idle", "fill", "count"} /\ writer.left \subseteq Field
  /\ reader.pc \in {"idle", "check", "copy"} /\ reader.left \subseteq Words

(* A sample that a reader takes is of one submission, the one whose number  *)
(* it has: it never mixes the words of two.                                 *)
NoTornSample == \A copy \in accepted : \A w \in Field : copy[w] = copy["Seq"]

(* A reader that no submission overtakes gets every sample the ring should  *)
(* hold, and none of them twice: the numbers it looks for are the ones in   *)
(* the slots.                                                               *)
QuietReaderGetsAll ==
  reader.pc = "check" /\ reader.next > reader.seq /\ sampleSeq = reader.seq /\ writer = Idling =>
    Cardinality(accepted) = IF sampleSeq > SAMPLE_RING_SIZE THEN SAMPLE_RING_SIZE ELSE sampleSeq
==============================================================================
