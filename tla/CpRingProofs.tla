---------------------------- MODULE CpRingProofs -----------------------------
(* Theorems about CpRing for every ring size, alignment and command set.    *)
EXTENDS CpRing, TLAPS, SequenceTheorems

(* The strengthening: the driver's write pointer is the register's, a store *)
(* is in flight only while the copy runs, and once CpReserve returned TRUE  *)
(* the stream fits into the free dwords from then on.                       *)
PointersAgree == writePointer = rbWptr
NothingPosted == pc # "copy" => posted = {}
RoomReserved == Writing => Len(stream) <= FreeDwords(rbRptr, writePointer)

IInv == TypeOK /\ PointersAgree /\ NothingPosted /\ RoomReserved

(* Rounding up to the alignment is a natural number.                        *)
LEMMA PaddedCountNat ==
  ASSUME NEW n \in Nat
  PROVE  PaddedCount(n) \in Nat
<1> USE RingAssumption
<1>1. n + RingAlignment - 1 \in Nat
  OBVIOUS
<1>2. (n + RingAlignment - 1) \div RingAlignment \in Nat
  BY <1>1
<1>3. QED
  BY <1>2 DEF PaddedCount

(* A padded stream is a sequence of ring dwords, whatever is committed.     *)
LEMMA PaddedStreamType ==
  ASSUME NEW commands \in Seq(Dword), NEW addFence \in BOOLEAN,
         NEW sequence \in Dword
  PROVE  PaddedStream(commands, addFence, sequence) \in Seq(Dword)
<1> DEFINE n == StreamCount(commands, addFence)
<1>1. n \in Nat
  BY DwordAssumption DEF StreamCount
<1>2. PaddedCount(n) \in Nat
  BY <1>1, PaddedCountNat
<1>3. ASSUME NEW i \in 1 .. PaddedCount(n)
      PROVE  CpStreamDword(commands, addFence, sequence, i - 1) \in Dword
  BY <1>2, DwordAssumption DEF CpStreamDword
<1>4. QED
  BY <1>2, <1>3 DEF PaddedStream

(* A stream that fits the free dwords ends before the first unread slot.    *)
LEMMA StoresMissUnread ==
  ASSUME TypeOK, PointersAgree,
         Len(stream) <= FreeDwords(rbRptr, writePointer),
         NEW i \in 1 .. Len(stream)
  PROVE  SlotOf(i) \in Slot /\ SlotOf(i) \notin Unread
<1>1. SlotOf(i) \in Slot
  BY RingAssumption DEF TypeOK, Slot, SlotOf, FirstCount, FreeDwords
<1>2. ASSUME NEW k \in 0 .. Used(rbRptr, rbWptr) - 1
      PROVE  SlotOf(i) # Wrap(rbRptr + k)
  BY <1>2, RingAssumption
     DEF TypeOK, PointersAgree, Slot, SlotOf, FirstCount, FreeDwords, Used,
         Wrap
<1>3. QED
  BY <1>1, <1>2 DEF Unread

LEMMA InitInv == Init => IInv
<1> SUFFICES ASSUME Init PROVE IInv
  OBVIOUS
<1>1. 0 \in Slot
  BY RingAssumption DEF Slot
<1>2. vram \in [Slot -> Dword]
  BY DwordAssumption DEF Init
<1>3. /\ stream \in Seq(Dword) /\ Len(stream) = 0
      /\ copied = 0 /\ posted = {}
  BY DEF Init
<1>4. TypeOK
  BY <1>1, <1>2, <1>3 DEF Init, TypeOK
<1>5. QED
  BY <1>4 DEF Init, IInv, PointersAgree, NothingPosted, RoomReserved, Writing

(* Fetching only makes room.                                                *)
LEMMA FetchMakesRoom ==
  ASSUME NEW r \in Slot, NEW w \in Slot, r # w
  PROVE  /\ Wrap(r + 1) \in Slot
         /\ FreeDwords(Wrap(r + 1), w) >= FreeDwords(r, w)
BY RingAssumption DEF Slot, Wrap, FreeDwords

(* The stores of a landing leave VRAM a full array of dwords.               *)
LEMMA LandedType ==
  ASSUME TypeOK, NEW S \in SUBSET (1 .. Len(stream))
  PROVE  Landed(S) \in [Slot -> Dword]
<1>1. ASSUME NEW s \in Slot, \E i \in S : SlotOf(i) = s
      PROVE  stream[CHOOSE i \in S : SlotOf(i) = s] \in Dword
  <2> DEFINE c == CHOOSE i \in S : SlotOf(i) = s
  <2>1. c \in S
    BY <1>1
  <2> HIDE DEF c
  <2>2. stream[c] \in Dword
    BY <2>1 DEF TypeOK
  <2>3. QED
    BY <2>2 DEF c
<1>2. ASSUME NEW s \in Slot
      PROVE  vram[s] \in Dword
  BY DEF TypeOK
<1>3. QED
  BY <1>1, <1>2 DEF Landed

(* A commit that returns leaves its local variables in range.              *)
LEMMA ReturnType ==
  ASSUME CommitReturn, posted' = {}
  PROVE  /\ stream' \in Seq(Dword) /\ copied' \in 0 .. Len(stream')
         /\ posted' \subseteq 1 .. Len(stream')
         /\ pc' \in {"idle", "reserve", "copy", "kick"}
         /\ lastRead' \in Slot /\ stall' \in Nat /\ quiet' \in Nat
<1>1. <<>> \in Seq(Dword) /\ Len(<<>>) = 0
  OBVIOUS
<1>2. stream' \in Seq(Dword) /\ copied' \in 0 .. Len(stream')
  BY <1>1 DEF CommitReturn
<1>3. lastRead' \in Slot
  BY RingAssumption DEF CommitReturn, Slot
<1>4. QED
  BY <1>2, <1>3 DEF CommitReturn

LEMMA StepInv == IInv /\ [Next]_vars => IInv'
<1> SUFFICES ASSUME IInv, [Next]_vars PROVE IInv'
  OBVIOUS
<1> USE RingAssumption, DwordAssumption
<1>1. CASE Submit
  <2>1. PICK commands \in Batches, addFence \in BOOLEAN, sequence \in Fences :
          CpCommitStream(commands, addFence, sequence)
    BY <1>1 DEF Submit
  <2>2. stream' \in Seq(Dword)
    BY <2>1, PaddedStreamType DEF CpCommitStream
  <2>3. TypeOK'
    BY <2>1, <2>2
       DEF CpCommitStream, EnterReserve, IInv, TypeOK, NothingPosted, Slot,
           busVars, pointerVars, cpVars
  <2>4. QED
    BY <2>1, <2>3
       DEF CpCommitStream, EnterReserve, IInv, PointersAgree, NothingPosted,
           RoomReserved, Writing, busVars, pointerVars
<1>2. CASE ReserveDone
  <2>1. TypeOK'
    BY <1>2 DEF ReserveDone, IInv, TypeOK, Slot, busVars, pointerVars,
                pollVars, cpVars
  <2>2. FreeDwords(rbRptr, writePointer) >= Len(stream)
    BY <1>2 DEF ReserveDone, HasRoom
  <2>3. RoomReserved'
    BY <1>2, <2>2 DEF ReserveDone, RoomReserved, FreeDwords, pointerVars,
                      IInv, TypeOK, Slot
  <2>4. QED
    BY <1>2, <2>1, <2>3 DEF ReserveDone, IInv, PointersAgree, NothingPosted,
                            busVars, pointerVars
<1>3. CASE ReservePoll
  <2>1. TypeOK'
    BY <1>3 DEF ReservePoll, IInv, TypeOK, Slot, busVars, pointerVars, cpVars
  <2>2. QED
    BY <1>3, <2>1 DEF ReservePoll, IInv, PointersAgree, NothingPosted,
                      RoomReserved, Writing, busVars, pointerVars
<1>4. CASE ReserveStalled \/ ReserveDeadline
  <2>1. CommitReturn /\ posted' = {}
    BY <1>4 DEF ReserveStalled, ReserveDeadline, CommitFails, IInv,
                NothingPosted, busVars
  <2>2. TypeOK'
    BY <1>4, <2>1, ReturnType
       DEF ReserveStalled, ReserveDeadline, CommitFails, IInv, TypeOK, Slot,
           busVars, pointerVars, cpVars
  <2>3. QED
    BY <1>4, <2>2 DEF ReserveStalled, ReserveDeadline, CommitFails,
                      CommitReturn, IInv, PointersAgree, NothingPosted,
                      RoomReserved, Writing, busVars, pointerVars
<1>5. CASE StoreDword
  <2>1. TypeOK'
    BY <1>5 DEF StoreDword, IInv, TypeOK, Slot, pointerVars, pollVars, cpVars
  <2>2. QED
    BY <1>5, <2>1 DEF StoreDword, IInv, PointersAgree, NothingPosted,
                      RoomReserved, Writing, pointerVars, FreeDwords
<1>6. CASE LandStep
  <2>1. PICK i \in posted : Land(i)
    BY <1>6 DEF LandStep
  <2>2. vram' \in [Slot -> Dword]
    BY <2>1, LandedType DEF Land, IInv, TypeOK
  <2>3. TypeOK'
    BY <2>1, <2>2 DEF Land, IInv, TypeOK, Slot, pointerVars, pollVars, cpVars
  <2>4. QED
    BY <2>1, <2>3 DEF Land, IInv, PointersAgree, NothingPosted, RoomReserved,
                      Writing, pointerVars, FreeDwords
<1>7. CASE Readback
  <2>1. vram' \in [Slot -> Dword]
    BY <1>7, LandedType DEF Readback, IInv, TypeOK
  <2>2. ASSUME pc' = "kick",
               UNCHANGED <<pointerVars, pollVars, cpVars, stream, copied>>
        PROVE  TypeOK'
    BY <1>7, <2>1, <2>2 DEF Readback, IInv, TypeOK, Slot, pointerVars,
                            pollVars, cpVars
  <2>3. ASSUME CommitFails
        PROVE  TypeOK'
    BY <1>7, <2>1, <2>3, ReturnType
       DEF Readback, CommitFails, IInv, TypeOK, Slot, pointerVars, cpVars
  <2>4. TypeOK'
    BY <1>7, <2>2, <2>3 DEF Readback
  <2>5. QED
    BY <1>7, <2>4 DEF Readback, CommitFails, CommitReturn, IInv, PointersAgree,
                      NothingPosted, RoomReserved, Writing, pointerVars,
                      FreeDwords
<1>8. CASE KickWptr
  <2>1. Wrap(writePointer + Len(stream)) \in Slot
    BY <1>8, SMTT(60) DEF KickWptr, IInv, TypeOK, RoomReserved, Writing, FreeDwords,
                Slot, Wrap
  <2>2. CommitReturn /\ posted' = {}
    BY <1>8 DEF KickWptr, IInv, NothingPosted, busVars
  <2>3. TypeOK'
    BY <1>8, <2>1, <2>2, ReturnType DEF KickWptr, IInv, TypeOK, Slot, busVars,
                                        cpVars
  <2>4. QED
    BY <1>8, <2>3 DEF KickWptr, CommitReturn, IInv, PointersAgree,
                      NothingPosted, RoomReserved, Writing, busVars
<1>9. CASE CpFetch
  <2>1. /\ rbRptr' \in Slot
        /\ FreeDwords(rbRptr', writePointer) >= FreeDwords(rbRptr, writePointer)
    BY <1>9, FetchMakesRoom DEF CpFetch, IInv, TypeOK, PointersAgree
  <2>2. TypeOK'
    BY <1>9, <2>1 DEF CpFetch, IInv, TypeOK, Slot, busVars, pollVars, cpVars
  <2>3. RoomReserved'
    <3>1. ASSUME Writing
          PROVE  Len(stream) <= FreeDwords(rbRptr', writePointer)
      <4>1. FreeDwords(rbRptr, writePointer) \in Int
        BY DEF IInv, TypeOK, Slot, FreeDwords
      <4>2. FreeDwords(rbRptr', writePointer) \in Int
        BY <2>1 DEF IInv, TypeOK, Slot, FreeDwords
      <4>3. Len(stream) <= FreeDwords(rbRptr, writePointer)
        BY <3>1 DEF IInv, RoomReserved
      <4>4. Len(stream) \in Nat
        BY DEF IInv, TypeOK
      <4>5. QED
        BY <2>1, <4>1, <4>2, <4>3, <4>4
    <3>2. QED
      BY <1>9, <3>1 DEF CpFetch, RoomReserved, Writing
  <2>4. QED
    BY <1>9, <2>2, <2>3 DEF CpFetch, IInv, PointersAgree, NothingPosted,
                            busVars
<1>10. CASE CpDisable
  <2>1. TypeOK'
    BY <1>10 DEF CpDisable, IInv, TypeOK, Slot, busVars, pointerVars, pollVars
  <2>2. QED
    BY <1>10, <2>1 DEF CpDisable, IInv, PointersAgree, NothingPosted,
                       RoomReserved, Writing, busVars, pointerVars
<1>11. CASE CpConfigureRing
  <2>1. stream' \in Seq(Dword)
    BY <1>11, PaddedStreamType DEF CpConfigureRing
  <2>2. posted' = {} /\ vram' \in [Slot -> Dword]
    BY <1>11 DEF CpConfigureRing, IInv, TypeOK, NothingPosted, busVars
  <2>3. 0 \in 0 .. Len(stream') /\ 0 \in Slot
    BY <2>1 DEF Slot
  <2>4. TypeOK'
    BY <1>11, <2>1, <2>2, <2>3 DEF CpConfigureRing, EnterReserve, TypeOK
  <2>5. QED
    BY <1>11, <2>4 DEF CpConfigureRing, EnterReserve, IInv, PointersAgree,
                       NothingPosted, RoomReserved, Writing, busVars
<1>12. CASE UNCHANGED vars
  <2>1. TypeOK'
    BY <1>12 DEF vars, busVars, pointerVars, pollVars, cpVars, IInv, TypeOK,
                 Slot
  <2>2. QED
    BY <1>12, <2>1 DEF vars, busVars, pointerVars, pollVars, cpVars, IInv,
                       PointersAgree, NothingPosted, RoomReserved, Writing,
                       FreeDwords
<1>13. QED
  BY <1>1, <1>2, <1>3, <1>4, <1>5, <1>6, <1>7, <1>8, <1>9, <1>10, <1>11,
     <1>12 DEF Next, CommitStep

(* The strengthened invariant holds throughout.                             *)
THEOREM RingInvariant == Spec => []IInv
BY InitInv, StepInv, PTL DEF Spec

(* The ring's pointers stay in the ring and every variable in its range,    *)
(* for every ring size, alignment and set of submissions.                   *)
THEOREM RingTypeCorrect == Spec => []TypeOK
<1>1. IInv => TypeOK
  BY DEF IInv
<1>2. QED
  BY <1>1, RingInvariant, PTL

(* No commit of any length ever stores over a dword the command processor   *)
(* has not fetched yet.                                                     *)
THEOREM RingNoOverwrite == Spec => []NoOverwrite
<1>1. IInv => NoOverwrite
  <2> SUFFICES ASSUME IInv, Writing, NEW i \in 1 .. copied
               PROVE  SlotOf(i) \notin Unread
    BY DEF NoOverwrite
  <2>1. i \in 1 .. Len(stream)
    BY DEF IInv, TypeOK
  <2>2. Len(stream) <= FreeDwords(rbRptr, writePointer)
    BY DEF IInv, RoomReserved
  <2>3. QED
    BY <2>1, <2>2, StoresMissUnread DEF IInv
<1>2. QED
  BY <1>1, RingInvariant, PTL
-------------------------------------------------------------------------------
(* The ring is a queue.  What that takes besides: a store that is no longer *)
(* in flight is in VRAM, and what is committed is one of the streams.       *)
StoresLanded ==
  /\ posted \subseteq 1 .. copied
  /\ ~Writing => copied = 0
  /\ Writing => \A i \in (1 .. copied) \ posted : vram[SlotOf(i)] = stream[i]
  /\ pc = "kick" => copied = Len(stream)
StreamCommitted == pc # "idle" => stream \in RingStreams

QInv == IInv /\ StoresLanded /\ StreamCommitted

(* The slots of one stream are different slots.                             *)
LEMMA SlotsDiffer ==
  ASSUME TypeOK, Len(stream) <= FreeDwords(rbRptr, writePointer),
         NEW i \in 1 .. Len(stream), NEW j \in 1 .. Len(stream), SlotOf(i) = SlotOf(j)
  PROVE  i = j
BY RingAssumption DEF TypeOK, Slot, SlotOf, FirstCount, FreeDwords

(* A landing changes the slots of its stores, to what was stored, and no    *)
(* other.                                                                   *)
LEMMA LandedAt ==
  ASSUME TypeOK, PointersAgree, Len(stream) <= FreeDwords(rbRptr, writePointer),
         NEW S \in SUBSET (1 .. Len(stream))
  PROVE  /\ \A i \in S : Landed(S)[SlotOf(i)] = stream[i]
         /\ \A s \in Slot : (\A i \in S : SlotOf(i) # s) => Landed(S)[s] = vram[s]
<1>1. ASSUME NEW i \in S
      PROVE  Landed(S)[SlotOf(i)] = stream[i]
  <2>1. SlotOf(i) \in Slot
    BY StoresMissUnread
  <2> DEFINE c == CHOOSE j \in S : SlotOf(j) = SlotOf(i)
  <2>2. c \in S /\ SlotOf(c) = SlotOf(i)
    OBVIOUS
  <2>3. Landed(S)[SlotOf(i)] = stream[c]
    BY <2>1 DEF Landed
  <2> HIDE DEF c
  <2>4. c = i
    BY <2>2, SlotsDiffer
  <2>5. QED
    BY <2>3, <2>4
<1>2. QED
  BY <1>1 DEF Landed

LEMMA UnreadType ==
  ASSUME TypeOK
  PROVE  /\ Used(rbRptr, rbWptr) \in 0 .. RingDwords - 1
         /\ UnreadDwords \in Seq(Dword) /\ Len(UnreadDwords) = Used(rbRptr, rbWptr)
         /\ \A k \in 1 .. Used(rbRptr, rbWptr) :
              /\ Wrap(rbRptr + k - 1) \in Slot /\ Wrap(rbRptr + k - 1) \in Unread
              /\ UnreadDwords[k] = vram[Wrap(rbRptr + k - 1)]
<1>1. Used(rbRptr, rbWptr) \in 0 .. RingDwords - 1
  BY RingAssumption DEF TypeOK, Slot, Used
<1>2. ASSUME NEW k \in 1 .. Used(rbRptr, rbWptr)
      PROVE  Wrap(rbRptr + k - 1) \in Slot /\ Wrap(rbRptr + k - 1) \in Unread
  <2>1. Wrap(rbRptr + k - 1) \in Slot
    BY <1>1, RingAssumption DEF TypeOK, Slot, Wrap
  <2>2. k - 1 \in 0 .. Used(rbRptr, rbWptr) - 1 /\ rbRptr + (k - 1) = rbRptr + k - 1
    BY <1>1 DEF TypeOK, Slot
  <2>3. QED
    BY <2>1, <2>2 DEF Unread
<1>3. \A k \in 1 .. Used(rbRptr, rbWptr) : vram[Wrap(rbRptr + k - 1)] \in Dword
  BY <1>2 DEF TypeOK
<1>4. UnreadDwords \in Seq(Dword) /\ Len(UnreadDwords) = Used(rbRptr, rbWptr)
  BY <1>1, <1>3 DEF UnreadDwords
<1>5. QED
  BY <1>1, <1>2, <1>4 DEF UnreadDwords

(* Nothing is seen of a step that moves no pointer and changes no slot      *)
(* still to be fetched.                                                     *)
LEMMA UnreadKept ==
  ASSUME TypeOK, rbRptr' = rbRptr, rbWptr' = rbWptr, \A s \in Unread : vram'[s] = vram[s]
  PROVE  UnreadDwords' = UnreadDwords
<1>1. \A k \in 1 .. Used(rbRptr, rbWptr) :
        vram'[Wrap(rbRptr + k - 1)] = vram[Wrap(rbRptr + k - 1)]
  BY UnreadType
<1>2. Used(rbRptr, rbWptr)' = Used(rbRptr, rbWptr)
  BY DEF Used
<1>3. \A k \in 1 .. Used(rbRptr, rbWptr) : Wrap(rbRptr + k - 1)' = Wrap(rbRptr + k - 1)
  BY DEF Wrap
<1>4. QED
  BY <1>1, <1>2, <1>3 DEF UnreadDwords

LEMMA LandingUnseen ==
  ASSUME IInv, NEW S \in SUBSET (1 .. Len(stream)), Writing,
         vram' = Landed(S), rbRptr' = rbRptr, rbWptr' = rbWptr
  PROVE  UnreadDwords' = UnreadDwords
<1>1. Len(stream) <= FreeDwords(rbRptr, writePointer)
  BY DEF IInv, RoomReserved
<1>2. \A s \in Unread : s \in Slot /\ \A i \in S : SlotOf(i) # s
  <2>1. ASSUME NEW s \in Unread PROVE s \in Slot
    BY RingAssumption DEF Unread, Wrap, Used, IInv, TypeOK, Slot
  <2>2. QED
    BY <1>1, <2>1, StoresMissUnread DEF IInv
<1>3. \A s \in Unread : vram'[s] = vram[s]
  BY <1>1, <1>2, LandedAt DEF IInv
<1>4. QED
  BY <1>3, UnreadKept DEF IInv

(* The command processor takes the oldest dword.                            *)
LEMMA FetchTakesHead ==
  ASSUME IInv, IInv', CpFetch
  PROVE  UnreadDwords # <<>> /\ UnreadDwords' = Tail(UnreadDwords)
<1>1. /\ TypeOK /\ vram' = vram /\ rbWptr' = rbWptr /\ rbRptr # rbWptr
      /\ rbRptr' = Wrap(rbRptr + 1) /\ vram \in [Slot -> Dword]
      /\ rbRptr \in 0 .. RingDwords - 1 /\ rbWptr \in 0 .. RingDwords - 1
      /\ rbRptr' \in 0 .. RingDwords - 1
  BY DEF CpFetch, IInv, TypeOK, busVars, Slot
<1> DEFINE n == Used(rbRptr, rbWptr)
<1>2. n \in 1 .. RingDwords - 1 /\ Used(rbRptr', rbWptr') = n - 1
  BY <1>1, RingAssumption DEF Used, Wrap
<1>3. UnreadDwords \in Seq(Dword) /\ Len(UnreadDwords) = n
  BY <1>1, UnreadType
<1>4. UnreadDwords' = [k \in 1 .. n - 1 |-> vram[Wrap(rbRptr' + k - 1)]]
  BY <1>1, <1>2 DEF UnreadDwords, Wrap, Used
<1>5. \A k \in 1 .. n : UnreadDwords[k] = vram[Wrap(rbRptr + k - 1)]
  BY <1>1, UnreadType
<1> HIDE DEF n
<1>6. ASSUME NEW k \in 1 .. n - 1
      PROVE  /\ Wrap(rbRptr' + k - 1) = Wrap(rbRptr + (k + 1) - 1)
             /\ Wrap(rbRptr' + k - 1) \in Slot
  BY <1>1, <1>2, RingAssumption DEF Slot, Wrap
<1>7. UnreadDwords # <<>>
  BY <1>2, <1>3, EmptySeq
<1>8. /\ Tail(UnreadDwords) \in Seq(Dword) /\ Len(Tail(UnreadDwords)) = n - 1
      /\ \A i \in 1 .. n - 1 : Tail(UnreadDwords)[i] = UnreadDwords[i + 1]
  BY <1>3, <1>7, HeadTailProperties
<1>9. /\ UnreadDwords' \in Seq(Dword) /\ Len(UnreadDwords') = n - 1
      /\ \A k \in 1 .. n - 1 : UnreadDwords'[k] = vram[Wrap(rbRptr' + k - 1)]
  BY <1>1, <1>2, <1>4, <1>6
<1>10. ASSUME NEW i \in 1 .. n - 1
       PROVE  UnreadDwords'[i] = Tail(UnreadDwords)[i]
  <2>1. i + 1 \in 1 .. n
    BY <1>2
  <2>2. QED
    BY <1>5, <1>6, <1>8, <1>9, <2>1
<1>11. QED
  BY <1>7, <1>8, <1>9, <1>10, SeqEqual

(* When RB_WPTR moves the whole stream is there, behind what was there.     *)
LEMMA KickAppends ==
  ASSUME QInv, IInv', KickWptr
  PROVE  /\ Len(UnreadDwords) + Len(stream) <= RingDwords - 1
         /\ UnreadDwords' = UnreadDwords \o stream
<1> DEFINE n == Used(rbRptr, rbWptr)
           l == Len(stream)
           w == writePointer
<1>1. /\ TypeOK /\ PointersAgree /\ vram' = vram /\ rbRptr' = rbRptr
      /\ rbWptr' = Wrap(w + l) /\ w = rbWptr /\ l <= FreeDwords(rbRptr, w)
      /\ l \in Nat /\ w \in Slot /\ rbRptr \in Slot /\ stream \in Seq(Dword)
  BY DEF KickWptr, QInv, IInv, busVars, PointersAgree, RoomReserved, Writing, TypeOK
<1>2. \A i \in 1 .. l : SlotOf(i) \in Slot /\ vram[SlotOf(i)] = stream[i]
  <2>1. posted = {} /\ copied = l
    BY DEF KickWptr, QInv, IInv, NothingPosted, StoresLanded
  <2>2. \A i \in 1 .. l : vram[SlotOf(i)] = stream[i]
    BY <2>1 DEF QInv, StoresLanded, KickWptr, Writing
  <2>3. QED
    BY <1>1, <2>2, StoresMissUnread
<1>3. n + l <= RingDwords - 1 /\ n \in Nat /\ Used(rbRptr', rbWptr') = n + l
  <2>1. /\ rbRptr \in 0 .. RingDwords - 1 /\ w \in 0 .. RingDwords - 1
        /\ n = Used(rbRptr, w) /\ Used(rbRptr', rbWptr') = Used(rbRptr, Wrap(w + l))
    BY <1>1 DEF Slot, Used
  <2> HIDE DEF w, n, l
  <2>2. /\ n \in 0 .. RingDwords - 1 /\ FreeDwords(rbRptr, w) = RingDwords - 1 - n
    BY <2>1, RingAssumption DEF Used, FreeDwords
  <2>3. l \in Nat /\ l <= FreeDwords(rbRptr, w)
    BY <1>1 DEF l, w
  <2>4. n + l <= RingDwords - 1
    BY <2>2, <2>3, RingAssumption
  <2>5. Used(rbRptr, Wrap(w + l)) = n + l
    BY <2>1, <2>3, <2>4, RingAssumption DEF Used, Wrap
  <2>6. QED
    BY <2>1, <2>2, <2>4, <2>5
<1>4. UnreadDwords \in Seq(Dword) /\ Len(UnreadDwords) = n
  BY <1>1, UnreadType
<1>5. UnreadDwords' = [k \in 1 .. n + l |-> vram[Wrap(rbRptr + k - 1)]]
  BY <1>1, <1>3 DEF UnreadDwords, Wrap, Used
<1>6. ASSUME NEW k \in 1 .. n + l
      PROVE  /\ vram[Wrap(rbRptr + k - 1)] \in Dword
             /\ vram[Wrap(rbRptr + k - 1)] =
                  (IF k <= n THEN UnreadDwords[k] ELSE stream[k - n])
  <2>1. Wrap(rbRptr + k - 1) \in Slot
    BY <1>1, <1>3, RingAssumption DEF Slot, Wrap
  <2>2. CASE k <= n
    BY <1>1, <1>3, <2>1, <2>2, UnreadType DEF TypeOK
  <2>3. CASE k > n
    <3>1. k - n \in 1 .. l
      BY <1>1, <1>3, <2>3
    <3>2. Wrap(rbRptr + k - 1) = SlotOf(k - n)
      BY <1>1, <1>3, <3>1, RingAssumption DEF Slot, Wrap, SlotOf, FirstCount, Used, FreeDwords
    <3>3. QED
      BY <1>1, <1>2, <1>3, <2>1, <2>3, <3>1, <3>2 DEF TypeOK
  <2>4. QED
    BY <1>3, <2>2, <2>3
<1> HIDE DEF n, l, w
<1>7. /\ UnreadDwords' \in Seq(Dword) /\ Len(UnreadDwords') = n + l
      /\ \A k \in 1 .. n + l :
           UnreadDwords'[k] = IF k <= n THEN UnreadDwords[k] ELSE stream[k - n]
  <2>1. n + l \in Nat
    BY <1>3, <1>1 DEF l
  <2>2. UnreadDwords' \in Seq(Dword) /\ Len(UnreadDwords') = n + l
    BY <1>5, <1>6, <2>1
  <2>3. QED
    BY <1>5, <1>6, <2>2
<1>8. /\ UnreadDwords \o stream \in Seq(Dword) /\ Len(UnreadDwords \o stream) = n + l
      /\ \A k \in 1 .. n + l :
           (UnreadDwords \o stream)[k] = IF k <= n THEN UnreadDwords[k] ELSE stream[k - n]
  BY <1>1, <1>4, ConcatProperties DEF l
<1>9. QED
  BY <1>1, <1>3, <1>4, <1>7, <1>8, SeqEqual DEF l

LEMMA InitQueue == Init => QInv /\ Queue!Init
<1> SUFFICES ASSUME Init PROVE QInv /\ Queue!Init
  OBVIOUS
<1>1. IInv
  BY InitInv
<1>2. StoresLanded /\ StreamCommitted
  BY DEF Init, StoresLanded, StreamCommitted, Writing
<1>3. Len(UnreadDwords) = 0 /\ UnreadDwords \in Seq(Dword)
  BY <1>1, UnreadType DEF IInv, Init, Used
<1>4. QED
  BY <1>1, <1>2, <1>3, EmptySeq DEF QInv, Queue!Init

(* What is committed is one of the streams the queue is asked to take.      *)
LEMMA StreamKept ==
  ASSUME QInv, Next
  PROVE  StreamCommitted'
<1> USE DEF QInv, StreamCommitted
<1>1. CASE Submit
  BY <1>1 DEF Submit, CpCommitStream, RingStreams
<1>2. CASE CpConfigureRing
  <2>1. PICK sequence \in Fences : TRUE
    BY DwordAssumption
  <2>2. PaddedStream(Startup, FALSE, sequence) = PaddedStream(Startup, FALSE, Packet2)
    BY DEF PaddedStream, CpStreamDword
  <2>3. PaddedStream(Startup, FALSE, sequence) \in RingStreams
    <3>1. PICK off \in BOOLEAN : off = FALSE
      OBVIOUS
    <3>2. PaddedStream(Startup, off, sequence) \in RingStreams
      BY <2>1, <3>1 DEF RingStreams
    <3>3. PaddedStream(Startup, off, sequence) = PaddedStream(Startup, FALSE, sequence)
      BY <3>1 DEF PaddedStream, CpStreamDword, StreamCount
    <3>4. QED
      BY <3>2, <3>3
  <2>4. QED
    BY <1>2, <2>2, <2>3 DEF CpConfigureRing
<1>3. CASE CommitStep
  <2>1. stream' = stream \/ pc' = "idle"
    BY <1>3 DEF CommitStep, ReserveDone, ReservePoll, ReserveStalled, ReserveDeadline,
                StoreDword, Readback, KickWptr, CommitFails, CommitReturn
  <2>2. pc # "idle"
    BY <1>3 DEF CommitStep, ReserveDone, ReservePoll, ReserveStalled, ReserveDeadline,
                StoreDword, Readback, KickWptr
  <2>3. QED
    BY <2>1, <2>2
<1>4. CASE LandStep \/ CpFetch \/ CpDisable
  BY <1>4 DEF LandStep, Land, CpFetch, CpDisable
<1>5. QED
  BY <1>1, <1>2, <1>3, <1>4 DEF Next

LEMMA StoresKept ==
  ASSUME QInv, Next
  PROVE  StoresLanded'
<1> USE DEF QInv
<1>1. CASE Submit \/ CpConfigureRing
  BY <1>1 DEF Submit, CpCommitStream, CpConfigureRing, EnterReserve, StoresLanded, Writing,
              IInv, NothingPosted, busVars
<1>2. CASE ReserveDone \/ ReservePoll
  <2>1. copied = 0 /\ posted = {} /\ pc = "reserve"
    BY <1>2 DEF ReserveDone, ReservePoll, StoresLanded, Writing, IInv, NothingPosted
  <2>2. copied' = 0 /\ posted' = {} /\ pc' \in {"reserve", "copy"}
    BY <1>2, <2>1 DEF ReserveDone, ReservePoll, busVars
  <2>3. QED
    BY <2>2 DEF StoresLanded, Writing
<1>3. CASE ReserveStalled \/ ReserveDeadline \/ KickWptr
  BY <1>3 DEF ReserveStalled, ReserveDeadline, KickWptr, CommitFails, CommitReturn,
              StoresLanded, Writing, IInv, NothingPosted, busVars
<1>4. CASE StoreDword
  BY <1>4 DEF StoreDword, StoresLanded, Writing, SlotOf, FirstCount, pointerVars, IInv, TypeOK
<1>5. CASE LandStep
  <2>1. PICK i \in posted : Land(i)
    BY <1>5 DEF LandStep
  <2>2. /\ Writing /\ {i} \in SUBSET (1 .. Len(stream)) /\ TypeOK /\ PointersAgree
        /\ Len(stream) <= FreeDwords(rbRptr, writePointer)
    BY <2>1 DEF IInv, NothingPosted, RoomReserved, Writing, TypeOK
  <2>3. /\ vram' = Landed({i}) /\ posted' = posted \ {i} /\ copied' = copied
        /\ pc' = pc /\ stream' = stream /\ writePointer' = writePointer
    BY <2>1 DEF Land, pointerVars
  <2>4. copied \in 0 .. Len(stream)
    BY <2>2 DEF TypeOK
  <2>5. ASSUME NEW j \in (1 .. copied) \ posted'
        PROVE  vram'[SlotOf(j)] = stream[j]
    <3>1. j \in 1 .. Len(stream) /\ SlotOf(j) \in Slot
      BY <2>2, <2>4, StoresMissUnread
    <3>2. CASE j = i
      BY <2>2, <2>3, <3>2, LandedAt
    <3>3. CASE j # i
      <4>1. \A k \in {i} : SlotOf(k) # SlotOf(j)
        BY <2>2, <3>1, <3>3, SlotsDiffer
      <4>2. vram'[SlotOf(j)] = vram[SlotOf(j)]
        BY <2>2, <2>3, <3>1, <4>1, LandedAt
      <4>3. QED
        BY <2>2, <2>3, <2>5, <3>3, <4>2 DEF StoresLanded
    <3>4. QED
      BY <3>2, <3>3
  <2>6. QED
    BY <2>2, <2>3, <2>5 DEF StoresLanded, Writing, SlotOf, FirstCount
<1>6. CASE Readback
  <2>1. /\ Writing /\ posted \in SUBSET (1 .. Len(stream)) /\ TypeOK /\ PointersAgree
        /\ Len(stream) <= FreeDwords(rbRptr, writePointer)
    BY <1>6 DEF Readback, IInv, RoomReserved, Writing, TypeOK
  <2>2. vram' = Landed(posted) /\ posted' = {} /\ copied = Len(stream)
    BY <1>6 DEF Readback
  <2>3. CASE CommitFails
    BY <2>2, <2>3 DEF CommitFails, CommitReturn, StoresLanded, Writing
  <2>4. CASE pc' = "kick" /\ UNCHANGED <<pointerVars, pollVars, cpVars, stream, copied>>
    <3>1. ASSUME NEW j \in 1 .. copied
          PROVE  vram'[SlotOf(j)] = stream[j]
      <4>1. j \in 1 .. Len(stream) /\ SlotOf(j) \in Slot
        BY <2>1, <2>2, StoresMissUnread
      <4>2. CASE j \in posted
        BY <2>1, <2>2, <4>2, LandedAt
      <4>3. CASE j \notin posted
        <5>1. \A k \in posted : SlotOf(k) # SlotOf(j)
          BY <2>1, <4>1, <4>3, SlotsDiffer
        <5>2. vram'[SlotOf(j)] = vram[SlotOf(j)]
          BY <2>1, <2>2, <4>1, <5>1, LandedAt
        <5>3. QED
          BY <2>1, <4>3, <5>2 DEF StoresLanded
      <4>4. QED
        BY <4>2, <4>3
    <3>2. QED
      BY <2>2, <2>4, <3>1 DEF StoresLanded, Writing, SlotOf, FirstCount, pointerVars
  <2>5. QED
    BY <1>6, <2>3, <2>4 DEF Readback
<1>7. CASE CpFetch \/ CpDisable
  BY <1>7 DEF CpFetch, CpDisable, StoresLanded, Writing, SlotOf, FirstCount, busVars, pointerVars
<1>8. QED
  BY <1>1, <1>2, <1>3, <1>4, <1>5, <1>6, <1>7 DEF Next, CommitStep

(* Every step of the ring is one of the queue, or none.                     *)
LEMMA StepQueue ==
  ASSUME QInv, [Next]_vars
  PROVE  [Queue!Next]_UnreadDwords
<1>0. IInv'
  BY StepInv DEF QInv
<1>1. CASE KickWptr
  <2>1. stream \in RingStreams
    BY <1>1 DEF KickWptr, QInv, StreamCommitted
  <2>2. QED
    BY <1>0, <1>1, <2>1, KickAppends DEF Queue!Next, Queue!Submit
<1>2. CASE CpFetch
  BY <1>0, <1>2, FetchTakesHead DEF QInv, Queue!Next, Queue!Fetch
<1>3. CASE CpConfigureRing
  <2>1. UnreadDwords' = <<>>
    <3>1. Used(rbRptr, rbWptr)' = 0
      BY <1>3 DEF CpConfigureRing, Used
    <3>2. UnreadDwords' = [k \in 1 .. 0 |-> vram'[Wrap(rbRptr + k - 1)']]
      BY <3>1 DEF UnreadDwords
    <3>3. \A k \in 1 .. 0 : vram'[Wrap(rbRptr + k - 1)'] \in Dword
      OBVIOUS
    <3>4. UnreadDwords' \in Seq(Dword) /\ Len(UnreadDwords') = 0
      BY <3>2, <3>3
    <3>5. QED
      BY <3>4, EmptySeq
  <2>2. QED
    BY <2>1 DEF Queue!Next, Queue!Reset
<1>4. CASE LandStep
  <2>1. PICK i \in posted : Land(i)
    BY <1>4 DEF LandStep
  <2>2. Writing /\ {i} \in SUBSET (1 .. Len(stream))
    BY <2>1 DEF QInv, IInv, NothingPosted, Writing, TypeOK
  <2>3. UnreadDwords' = UnreadDwords
    BY <2>1, <2>2, LandingUnseen DEF QInv, Land, pointerVars
  <2>4. QED
    BY <2>3
<1>5. CASE Readback
  <2>1. Writing /\ posted \in SUBSET (1 .. Len(stream))
    BY <1>5 DEF Readback, QInv, IInv, Writing, TypeOK
  <2>2. UnreadDwords' = UnreadDwords
    BY <1>5, <2>1, LandingUnseen DEF QInv, Readback, CommitFails, pointerVars
  <2>3. QED
    BY <2>2
<1>6. CASE \/ Submit \/ ReserveDone \/ ReservePoll \/ ReserveStalled \/ ReserveDeadline
           \/ StoreDword \/ CpDisable \/ UNCHANGED vars
  <2>1. vram' = vram /\ rbRptr' = rbRptr /\ rbWptr' = rbWptr
    BY <1>6 DEF Submit, CpCommitStream, ReserveDone, ReservePoll, ReserveStalled,
                ReserveDeadline, CommitFails, StoreDword, CpDisable, vars, busVars, pointerVars
  <2>2. UnreadDwords' = UnreadDwords
    BY <2>1, UnreadKept DEF QInv, IInv
  <2>3. QED
    BY <2>2
<1>7. QED
  BY <1>1, <1>2, <1>3, <1>4, <1>5, <1>6 DEF Next, CommitStep

(* The ring in video memory implements the queue of CpQueue: submissions    *)
(* appear whole and in order, each dword is taken once, and full and empty  *)
(* stay apart, for every ring size and every posting of stores              *)
(* (CpCommitStream, CpReserve, CpConfigureRing).                            *)
THEOREM RingImplementsQueue == Spec => RefinesQueue
<1>1. Init => QInv /\ Queue!Init
  BY InitQueue
<1>2. QInv /\ [Next]_vars => QInv'
  <2> SUFFICES ASSUME QInv, [Next]_vars PROVE QInv'
    OBVIOUS
  <2>1. IInv'
    BY StepInv DEF QInv
  <2>2. CASE Next
    BY <2>1, <2>2, StoresKept, StreamKept DEF QInv
  <2>3. CASE UNCHANGED vars
    BY <2>1, <2>3 DEF QInv, StoresLanded, StreamCommitted, Writing, SlotOf, FirstCount,
                      vars, busVars, pointerVars
  <2>4. QED
    BY <2>2, <2>3
<1>3. QInv /\ [Next]_vars => [Queue!Next]_UnreadDwords
  BY StepQueue
<1>4. QED
  BY <1>1, <1>2, <1>3, PTL DEF Spec, RefinesQueue, Queue!Spec
==============================================================================
