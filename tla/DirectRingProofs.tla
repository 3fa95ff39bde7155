---------------------------- MODULE DirectRingProofs ---------------------------
(***************************************************************************)
(* The ring that the PowerPC writes, for every size of it, every range of  *)
(* the fence numbers and any number of runs: the driver, the command       *)
(* processor, the host and the child agree where the ring goes on and what *)
(* it holds, in both forms of the exchange.                                *)
(*                                                                         *)
(* CommonInv is what the two forms have alike: the types, the ring between *)
(* its pointers (RingInv) and who holds the lease (Granting).  To it       *)
(* DirectPart adds phase3host's generations, descriptors and heartbeat,    *)
(* and OnePart phase2host's marker and what the child's cache may hold.    *)
(***************************************************************************)
EXTENDS OneShot, TLAPS
------------------------------------------------------------------------------
(* Fence numbers: the one k after next, as both children count, the batches *)
(* that a count of the block stands for, and what SCRATCH_REG0 may show     *)
(* when next is the number to be handed out: the one before, or what a      *)
(* fresh ring begins with.                                                  *)
NthSeq(next, k) == LET n == SeqSum(next, k) IN IF n = 0 THEN 1 ELSE n
WantedBatches(n) == IF n = 0 THEN BatchDefault ELSE n
PriorSeqs(next) == IF next = 1 THEN {0, SeqRange - 1, SeqRange - 3} ELSE {next - 1}

(* Types. *)
Places == 0 .. RingUnits - 1
Seqs == 0 .. SeqRange - 1
NextSeqs == Seqs \ {0}
Units == Seqs \X (0 .. 4)
Ages == 0 .. ExpiryTicks + 1
HostPcs == {"start", "opened", "announcing", "arrival", "leasing", "acquired", "filling", "flagging", "waiting",
            "checked", "closing"}
FillingPcs == {"reserve", "write", "rest", "back"}
WorkingPcs == FillingPcs \cup {"fence"}
ReadingPcs == {"validate", "clear", "echo", "mark", "present", "poll", "range"}
ChildPcs == ReadingPcs \cup WorkingPcs \cup {"idle", "result", "done"}
Stages == {"ok", "host_wait", "ring_range", "reserve", "readback", "wptr", "fence"}
BlockStages == Stages \cup {Marker}
BatchNumbers == BatchCounts \cup {BatchDefault} \cup {0}
HostRecord ==
  [pc : HostPcs, run : Nat, batches : BatchNumbers, next : Seqs, last : Seqs, renew : Nat,
   due : BOOLEAN, ok : BOOLEAN]
ChildRecord ==
  [pc : ChildPcs, gen : Nat, grant : Nat, next : Seqs, batches : Nat, batch : Nat, wptr : Places,
   stage : Stages, submits : Nat, last : Seqs, retired : BOOLEAN, runs : Nat]
BlockRecord ==
  [magic : BOOLEAN, ready : BOOLEAN, gen : Nat, ring : Nat, bar : BOOLEAN, fence : Seqs, batches : Nat,
   present : BOOLEAN, done : BOOLEAN, echo : Nat, stage : BlockStages, submits : Nat, last : Seqs,
   retired : BOOLEAN]
FirstLines == [magic : BOOLEAN, ready : BOOLEAN, gen : Nat, ring : Nat]
SecondLines == [bar : BOOLEAN, fence : Seqs, batches : Nat]
RingRecord == [words : [Places -> Units], rptr : Places, wptr : Places, scratch : Seqs]
DriverRecord ==
  [lease : BOOLEAN, age : Ages, next : NextSeqs, write : Places, ready : BOOLEAN, own : Nat]

(* A line that the child has a copy of. *)
HeldLine(c, l) == CHOOSE x \in c[l] : TRUE
CachedTyped(c) ==
  /\ DOMAIN c = Lines
  /\ c["first"] = {} \/ HeldLine(c, "first") \in FirstLines
  /\ c["second"] = {} \/ HeldLine(c, "second") \in SecondLines
DirectTyped ==
  /\ block \in BlockRecord /\ hosting \in HostRecord /\ child \in ChildRecord
  /\ cpring \in RingRecord /\ granted \in DriverRecord /\ orphan \in BOOLEAN /\ CachedTyped(cached)

(* What holds of the child's own variables. *)
ChildShape(c) ==
  /\ c.pc \in ReadingPcs => c.grant = 0 /\ c.submits = 0 /\ c.batch = 0 /\ c.stage = "ok" /\ ~c.retired
  /\ c.pc \in WorkingPcs => c.grant # 0 /\ c.stage = "ok" /\ ~c.retired /\ c.batch = c.submits
  /\ c.pc = "fence" => c.submits > 0 /\ c.last = NthSeq(c.next, c.submits - 1)
  /\ c.retired => c.stage = "ok" /\ c.grant # 0 /\ c.submits > 0 /\ c.last = NthSeq(c.next, c.submits - 1)
------------------------------------------------------------------------------
(* The ring q, for the driver g, the host h and the child c.                *)

(* The units to be fetched, the i-th of them, and the fence number that is  *)
(* in SCRATCH_REG0 when all are fetched.                                    *)
PendingUnits(q) == (q.wptr - q.rptr) % RingUnits
UnitAt(q, i) == q.words[(q.rptr + i) % RingUnits]
Newest(q) == IF PendingUnits(q) = 0 THEN q.scratch ELSE UnitAt(q, PendingUnits(q) - 1)[1]

(* A batch or a submission begun is pending to its end. *)
WholeUnits(q) ==
  \A i \in 0 .. PendingUnits(q) - 1 :
    /\ UnitAt(q, i)[2] \in 1 .. BatchUnits
    /\ UnitAt(q, i)[2] < BatchUnits =>
         i + 1 < PendingUnits(q) /\ UnitAt(q, i + 1) = <<UnitAt(q, i)[1], UnitAt(q, i)[2] + 1>>

(* For as long as no child has moved CP_RB_WPTR under the lease, the driver *)
(* knows where the ring ends and which number it comes to.                  *)
Untouched(q, g, h, c) == ~g.lease \/ c.grant # h.run \/ (c.submits = 0 /\ q.wptr = g.write)
Settled(q, g) == g.write = q.wptr /\ Newest(q) \in PriorSeqs(g.next)

(* A child under way writes where the command processor will go on, and the *)
(* batch it writes has room.                                                *)
Laid(q, c, n) == \A i \in 0 .. n - 1 : q.words[(c.wptr + i) % RingUnits] = <<NthSeq(c.next, c.batch), i + 1>>
Laying(q, g, c) ==
  /\ c.pc \in FillingPcs => c.wptr = q.wptr /\ (c.submits = 0 => q.wptr = g.write)
  /\ c.pc \in {"write", "rest", "back"} => PendingUnits(q) + BatchUnits < RingUnits
  /\ c.pc = "rest" => RingUnits - c.wptr < BatchUnits /\ Laid(q, c, RingUnits - c.wptr)
  /\ c.pc = "back" => Laid(q, c, BatchUnits)

(* The child's batches are numbered from the grant's first fence on, t of   *)
(* their units are fetched, and SCRATCH_REG0 tells how many are executed.   *)
NumberedAs(q, h, c) ==
  LET t == BatchUnits * c.submits - PendingUnits(q) IN
  /\ t >= 0
  /\ \A i \in 0 .. PendingUnits(q) - 1 :
       UnitAt(q, i) = <<NthSeq(h.next, (t + i) \div BatchUnits), 1 + ((t + i) % BatchUnits)>>
  /\ t < BatchUnits => q.scratch \in PriorSeqs(h.next)
  /\ t >= BatchUnits => q.scratch = NthSeq(h.next, (t \div BatchUnits) - 1)
AllExecuted(q, h) == PendingUnits(q) = 0 /\ q.scratch = NthSeq(h.next, h.batches - 1)

RingAgrees(q, g, h, c) ==
  /\ WholeUnits(q)
  /\ Untouched(q, g, h, c) => Settled(q, g)
  /\ g.lease =>
       /\ h.next = g.next
       /\ c.grant # h.run => PendingUnits(q) = 0
       /\ Laying(q, g, c)
       /\ c.grant = h.run /\ c.stage = "ok" => NumberedAs(q, h, c)
       /\ c.grant = h.run /\ c.retired /\ c.submits = h.batches => AllExecuted(q, h)
RingInv == ~orphan /\ granted.ready => RingAgrees(cpring, granted, hosting, child)

(* The lease is a host's under way, the grant of a child at work is that    *)
(* host's, and a result is accepted only of such a child.                   *)
Granting ==
  /\ granted.lease => /\ hosting.pc \in {"acquired", "filling", "flagging", "waiting", "checked", "closing"}
                      /\ granted.ready
                      /\ hosting.next # 0 /\ hosting.next + hosting.batches - 1 <= SeqRange
  /\ hosting.pc # "start" => hosting.run > 0
  /\ hosting.run = 0 => child = NoChild
  /\ hosting.pc \in {"acquired", "filling", "flagging"} => hosting.next # 0
  /\ hosting.pc \in {"leasing", "acquired", "filling", "flagging"} => child.pc \notin WorkingPcs
  /\ granted.lease /\ child.pc \in WorkingPcs =>
       child.grant = hosting.run /\ child.next = hosting.next /\ child.batches = WantedBatches(hosting.batches)
  /\ child.grant <= hosting.run /\ block.ring <= hosting.run
  /\ child.grant = hosting.run /\ hosting.run > 0 => hosting.pc \in {"waiting", "checked", "closing", "start"}
  /\ hosting.pc \in {"waiting", "checked"} => hosting.last = NthSeq(hosting.next, hosting.batches - 1)
  /\ hosting.pc = "checked" /\ granted.lease =>
       /\ child.grant = hosting.run /\ child.retired /\ child.submits = hosting.batches
       /\ child.pc \in {"done", "idle"}

CommonInv == DirectTyped /\ ChildShape(child) /\ RingInv /\ Granting
------------------------------------------------------------------------------
(* What the block says.  Posted: this host's grant; Reported: the child's   *)
(* results; Open: a child may find the grant.                               *)
Posted ==
  /\ hosting.next # 0 /\ block.ring = hosting.run
  /\ block.bar /\ block.fence = hosting.next /\ block.batches = hosting.batches
Reported == block.submits = child.submits /\ block.retired = child.retired /\ block.stage = child.stage
Open == hosting.pc \in {"waiting", "checked"} \/ (hosting.pc \in {"closing", "start"} /\ block.ready /\ hosting.run > 0)

(* phase3host and ppcphase3.  Generations: an echo of this host's is of a   *)
(* child that came to it, and it is the one that answers.                   *)
Echoed == {"present", "poll", "range"} \cup WorkingPcs \cup {"result", "done"}
Engaged == hosting.pc \in {"leasing", "acquired", "filling", "flagging", "waiting", "checked"}
           \/ (hosting.pc = "closing" /\ granted.lease)
Echoes ==
  /\ child.pc # "mark"
  /\ child.pc \in {"idle", "validate", "clear"} /\ block.echo # 0 => block.done
  /\ child.pc \in Echoed => block.echo = child.gen
  /\ child.pc \in Echoed \cup {"echo"} => ~block.done
  /\ block.gen = (IF hosting.pc \in {"opened", "announcing"} THEN hosting.run - 1 ELSE hosting.run)
  /\ child.gen <= block.gen
  /\ Engaged => block.echo = hosting.run /\ child.pc \in {"idle", "echo"} \cup Echoed
                /\ (child.pc = "idle" => child.gen = hosting.run)

(* Descriptors: HOST_READY stands for a whole grant, and a child of this    *)
(* generation has no other.                                                 *)
Posts ==
  /\ block.ready => hosting.pc \in {"waiting", "checked", "closing", "start", "opened"}
  /\ hosting.pc \in {"opened", "announcing", "arrival", "leasing", "acquired", "filling"} => block.ring < hosting.run
  /\ hosting.pc = "flagging" \/ Open => Posted
  /\ hosting.pc \in {"waiting", "checked"} => block.ready
  /\ child.gen = hosting.run /\ child.pc \in {"range"} \cup WorkingPcs => Open
  /\ child.gen = hosting.run /\ child.grant # 0 =>
       /\ Open
       /\ child.grant = hosting.run /\ child.next = hosting.next /\ child.batches = WantedBatches(hosting.batches)
  /\ child.pc = "done" \/ (child.pc = "idle" /\ Engaged) => Reported

(* Heartbeat: half seconds since the lease was renewed, at each of the      *)
(* host's steps; the sum stays below the driver's expiry.                   *)
Ticks(h) == IF h.due THEN 1 ELSE 0
Renewed ==
  /\ hosting.pc = "leasing" => ~hosting.due
  /\ hosting.pc \in {"acquired", "filling", "flagging", "waiting", "checked"} => granted.lease
  /\ hosting.pc = "acquired" => granted.age <= Ticks(hosting)
  /\ hosting.pc = "filling" => granted.age <= 1 + Ticks(hosting)
  /\ hosting.pc = "flagging" => granted.age <= 2 + Ticks(hosting)
  /\ hosting.pc = "waiting" => granted.age <= 3 + Ticks(hosting) /\ hosting.renew = Ticks(hosting)
  /\ hosting.pc = "checked" => granted.age <= 4 + Ticks(hosting)
DirectPart == Echoes /\ Posts /\ Renewed

(* phase2host and ppcphase2: the ring's word is clear from the first        *)
(* publication to the grant, a host leases only on the marker, and a child  *)
(* that saw HOST_DONE has this host's first line and no copy of the second. *)
Idlers == {"poll", "result", "done", "idle"}
HostSide ==
  /\ hosting.pc \notin {"opened", "announcing"}
  /\ hosting.pc # "start" \/ hosting.run > 0 => hosting.batches = BatchDefault
  /\ block.ready => hosting.pc \in {"waiting", "checked", "closing", "start"}
  /\ hosting.pc \in {"waiting", "checked"} => block.ready
  /\ hosting.pc = "closing" /\ granted.lease => block.ready
  /\ hosting.pc \in {"arrival", "leasing", "acquired"} => block.ring = 0
  /\ hosting.pc = "filling" => block.ring = hosting.run
  /\ hosting.pc = "flagging" \/ Open => Posted
  /\ hosting.pc = "flagging" => ~block.retired
ChildSide ==
  /\ child.pc \notin {"clear", "echo", "present"}
  /\ block.stage = Marker => child.pc \in {"poll", "range", "result"} \cup WorkingPcs
  /\ hosting.pc = "arrival" /\ block.stage = Marker => child.pc \in {"poll", "result"} /\ child.grant = 0
  /\ hosting.pc \in {"leasing", "acquired", "filling", "flagging"} => child.pc \in Idlers /\ child.grant = 0
Answering ==
  Open => /\ child.pc \in Idlers \cup {"range"} \cup WorkingPcs
          /\ child.grant # 0 => child.grant = hosting.run /\ child.next = hosting.next
                                /\ child.batches = WantedBatches(hosting.batches)
          /\ block.retired => child.pc \in {"done", "idle"} /\ child.retired /\ block.submits = child.submits
          /\ child.pc = "range" =>
               cached["second"] = {} /\ cached["first"] # {} /\ HeldLine(cached, "first").ring = hosting.run
LinesOld ==
  /\ cached["first"] # {} => HeldLine(cached, "first").ring <= hosting.run
  /\ cached["first"] # {} /\ hosting.pc = "arrival" => HeldLine(cached, "first").ring < hosting.run
  /\ child.gen <= hosting.run
  /\ child.gen = hosting.run /\ child.pc = "range" => Open
  /\ child.gen = hosting.run => child.stage # "ring_range"
OnePart == HostSide /\ ChildSide /\ Answering /\ LinesOld

DirectInv == CommonInv /\ DirectPart
OneInv == CommonInv /\ OnePart
------------------------------------------------------------------------------
(* Arithmetic: places of the ring and fence numbers, modulo RingUnits and   *)
(* SeqRange.                                                                *)

LEMMA RingConsts ==
  /\ RingUnits \in Nat /\ RingUnits > 4 /\ SeqRange \in Nat /\ SeqRange > 8 /\ ExpiryTicks \in Nat
     /\ ExpiryTicks >= 5
  /\ BatchDefault \in Nat /\ MaxHosts \in Nat /\ MaxChildren \in Nat /\ MaxOwn \in Nat /\ BatchUnits = 4
BY DirectRingAssumption DEF BatchUnits

LEMMA AddMod ==
  ASSUME NEW m \in Nat, m > 0, NEW a \in 0 .. m - 1, NEW i \in 0 .. m
  PROVE  /\ (a + i) % m = (IF a + i < m THEN a + i ELSE a + i - m)
         /\ (a + i) % m \in 0 .. m - 1
<1>1. CASE a + i < m
  BY <1>1, Z3
<1>2. CASE a + i >= m
  <2>1. a + i - m \in 0 .. m - 1
    BY <1>2
  <2>2. (a + i) % m = a + i - m
    BY <1>2, Z3
  <2>3. QED
    BY <1>2, <2>1, <2>2
<1>3. QED
  BY <1>1, <1>2

LEMMA SubMod ==
  ASSUME NEW m \in Nat, m > 0, NEW a \in 0 .. m - 1, NEW b \in 0 .. m - 1
  PROVE  /\ (a - b) % m = (IF a >= b THEN a - b ELSE a - b + m)
         /\ (a - b) % m \in 0 .. m - 1
<1>1. CASE a >= b
  BY <1>1, Z3
<1>2. CASE a < b
  <2>1. a - b + m \in 0 .. m - 1
    BY <1>2
  <2>2. (a - b) % m = a - b + m
    BY <1>2, Z3
  <2>3. QED
    BY <1>2, <2>1, <2>2
<1>3. QED
  BY <1>1, <1>2

(* The units between two places, going forward.                             *)
LEMMA Distance ==
  ASSUME NEW q \in RingRecord
  PROVE  /\ PendingUnits(q) \in 0 .. RingUnits - 1
         /\ PendingUnits(q) = (IF q.wptr >= q.rptr THEN q.wptr - q.rptr ELSE q.wptr - q.rptr + RingUnits)
<1>1. q.rptr \in 0 .. RingUnits - 1 /\ q.wptr \in 0 .. RingUnits - 1
  BY DEF RingRecord, Places
<1>2. QED
  BY <1>1, RingConsts, SubMod DEF PendingUnits

LEMMA PlaceIs ==
  ASSUME NEW a \in Places, NEW i \in 0 .. RingUnits
  PROVE  /\ (a + i) % RingUnits = (IF a + i < RingUnits THEN a + i ELSE a + i - RingUnits)
         /\ (a + i) % RingUnits \in Places
BY RingConsts, AddMod DEF Places

LEMMA ApartIs ==
  ASSUME NEW a \in Places, NEW b \in Places
  PROVE  /\ (a - b) % RingUnits = (IF a >= b THEN a - b ELSE a - b + RingUnits)
         /\ (a - b) % RingUnits \in Places
BY RingConsts, SubMod DEF Places

(* NthSeq, taken apart: a grant does not reach the number after the last.   *)
LEMMA NthIs ==
  ASSUME NEW n \in Seqs, NEW k \in Nat, n # 0, n + k <= SeqRange
  PROVE  /\ NthSeq(n, k) = (IF n + k < SeqRange THEN n + k ELSE 1)
         /\ NthSeq(n, k) \in Seqs \ {0}
<1>1. k \in 0 .. SeqRange /\ n \in 0 .. SeqRange - 1
  BY RingConsts DEF Seqs
<1>2. SeqSum(n, k) = (IF n + k < SeqRange THEN n + k ELSE n + k - SeqRange)
  BY <1>1, RingConsts, AddMod DEF SeqSum
<1>3. QED
  BY <1>1, <1>2, RingConsts DEF NthSeq, Seqs

LEMMA NthSeqTyped ==
  ASSUME NEW n \in Seqs, NEW k \in Int
  PROVE  NthSeq(n, k) \in Seqs
<1>1. (n + k) % SeqRange \in 0 .. SeqRange - 1
  BY RingConsts, Z3 DEF Seqs
<1>2. QED
  BY <1>1, RingConsts DEF NthSeq, SeqSum, Seqs

LEMMA AfterIs ==
  ASSUME NEW n \in Seqs
  PROVE  /\ SeqAfter(n) = (IF n = SeqRange - 1 THEN 1 ELSE n + 1)
         /\ SeqAfter(n) \in Seqs \ {0}
         /\ n # 0 => n \in PriorSeqs(SeqAfter(n))
<1>1. SeqSum(n, 1) = (IF n + 1 < SeqRange THEN n + 1 ELSE n + 1 - SeqRange)
  BY RingConsts, AddMod DEF SeqSum, Seqs
<1>2. QED
  BY <1>1, RingConsts DEF SeqAfter, Seqs, PriorSeqs

LEMMA HalfRange ==
  SeqRange \div 2 \in Nat /\ 2 * (SeqRange \div 2) <= SeqRange /\ SeqRange <= 2 * (SeqRange \div 2) + 1
BY RingConsts, Z3

(* A scratch value before the last batch of a grant has not passed it.      *)
LEMMA NotYet ==
  ASSUME NEW n \in Seqs, NEW b \in Nat, n # 0, b > 0, n + b - 1 <= SeqRange, 2 * (b + 3) <= SeqRange
  PROVE  /\ \A s \in PriorSeqs(n) : s \in Int => ~SeqPassed(s, NthSeq(n, b - 1))
         /\ \A e \in Nat : e < b /\ e > 0 => ~SeqPassed(NthSeq(n, e - 1), NthSeq(n, b - 1))
<1> DEFINE h == SeqRange \div 2
           last == NthSeq(n, b - 1)
<1>1. h \in Nat /\ 2 * h <= SeqRange /\ SeqRange <= 2 * h + 1
  BY HalfRange
<1>2. last = (IF n + b - 1 < SeqRange THEN n + b - 1 ELSE 1) /\ last \in 0 .. SeqRange - 1
  BY NthIs DEF Seqs
<1> HIDE DEF last
<1>3. ASSUME NEW s \in 0 .. SeqRange - 1
      PROVE  (s - last) % SeqRange = (IF s >= last THEN s - last ELSE s - last + SeqRange)
  <2>1. last \in 0 .. SeqRange - 1 /\ SeqRange \in Nat /\ SeqRange > 0
    BY <1>2, RingConsts
  <2>2. QED
    BY <2>1, SubMod
<1> HIDE DEF h
<1>4. ASSUME NEW s \in PriorSeqs(n), s \in Int PROVE ~SeqPassed(s, last)
  BY <1>4, RingConsts, <1>1, <1>2, <1>3 DEF PriorSeqs, Seqs, SeqPassed, h
<1>5. ASSUME NEW e \in Nat, e < b, e > 0 PROVE ~SeqPassed(NthSeq(n, e - 1), last)
  <2> DEFINE s == NthSeq(n, e - 1)
  <2>1. s = n + e - 1 /\ s \in 0 .. SeqRange - 1
    BY <1>5, NthIs, RingConsts DEF Seqs
  <2> HIDE DEF s
  <2>2. (s - last) % SeqRange >= h
    BY <2>1, <1>1, <1>2, <1>3, <1>5, RingConsts DEF Seqs
  <2>3. (s - last) % SeqRange \in Int
    BY <2>1, <1>2, <1>3, RingConsts
  <2>4. QED
    BY <2>2, <2>3, <1>1 DEF SeqPassed, h, s
<1>6. QED
  BY <1>4, <1>5 DEF last
------------------------------------------------------------------------------
(* RingAgrees is kept by each thing that can happen to the ring, the driver,*)
(* the host and the child: first by what leaves the ring alone.             *)

LEMMA NoLeaseRing ==
  ASSUME NEW q, NEW g, NEW h, NEW c, NEW g2, NEW h2, NEW c2, RingAgrees(q, g, h, c),
         ~g.lease, ~g2.lease, g2.next = g.next, g2.write = g.write
  PROVE  RingAgrees(q, g2, h2, c2)
BY DEF RingAgrees, Untouched, Settled

(* The ring, the lease and what the child does with them stay.              *)
LEMMA QuietRing ==
  ASSUME NEW q, NEW g, NEW h, NEW c, NEW g2, NEW h2, NEW c2, RingAgrees(q, g, h, c),
         g2.lease = g.lease, g2.next = g.next, g2.write = g.write,
         h2.run = h.run, h2.batches = h.batches, g.lease => h2.next = h.next,
         c2.grant = c.grant, c2.submits = c.submits, c2.retired => c.retired, c2.stage = "ok" => c.stage = "ok",
         c2.pc \in FillingPcs => c2.pc = c.pc /\ c2.wptr = c.wptr /\ c2.next = c.next /\ c2.batch = c.batch
  PROVE  RingAgrees(q, g2, h2, c2)
<1>1. CASE ~g.lease
  BY <1>1, NoLeaseRing
<1>2. CASE g.lease
  <2>1. Untouched(q, g2, h2, c2) => Settled(q, g2)
    BY DEF RingAgrees, Untouched, Settled
  <2>2. Laying(q, g, c)
    BY <1>2 DEF RingAgrees
  <2>3. Laying(q, g2, c2)
    BY <2>2 DEF Laying, Laid, FillingPcs
  <2>4. c.grant = h.run /\ c.stage = "ok" => NumberedAs(q, h2, c2)
    BY <1>2 DEF RingAgrees, NumberedAs
  <2>5. c.grant = h.run /\ c.retired /\ c.submits = h.batches => AllExecuted(q, h2)
    BY <1>2 DEF RingAgrees, AllExecuted
  <2>6. g2.lease /\ h2.next = g2.next /\ (c2.grant # h2.run => PendingUnits(q) = 0)
    BY <1>2 DEF RingAgrees
  <2>7. WholeUnits(q)
    BY DEF RingAgrees
  <2>8. QED
    BY <2>1, <2>3, <2>4, <2>5, <2>6, <2>7 DEF RingAgrees
<1>3. QED
  BY <1>1, <1>2

(* The command processor fetches a unit.                                    *)
UnitFetched(q, q2) ==
  /\ q2.wptr = q.wptr /\ q2.rptr = (q.rptr + 1) % RingUnits
  /\ q2.words = [q.words EXCEPT ![q.rptr] = Unwritten]
  /\ q2.scratch = IF q.words[q.rptr][2] = BatchUnits THEN q.words[q.rptr][1] ELSE q.scratch

(* The command processor fetches a unit.                                    *)
LEMMA FetchShifts ==
  ASSUME NEW q \in RingRecord, NEW q2 \in RingRecord, q.rptr # q.wptr, UnitFetched(q, q2)
  PROVE  /\ PendingUnits(q) \in 1 .. RingUnits - 1 /\ PendingUnits(q2) = PendingUnits(q) - 1
         /\ UnitAt(q, 0) = q.words[q.rptr]
         /\ \A i \in 0 .. PendingUnits(q2) - 1 : UnitAt(q2, i) = UnitAt(q, i + 1)
<1> DEFINE n == PendingUnits(q)
           r == q.rptr
           w == q.wptr
           R == RingUnits
<1>1. r \in Places /\ w \in Places /\ r # w /\ q.words \in [Places -> Units]
  BY DEF RingRecord
<1>2. n \in 0 .. R - 1 /\ n = (IF w >= r THEN w - r ELSE w - r + R)
  BY Distance
<1>3. R \in Nat /\ R > 4 /\ \A p \in Places : p \in 0 .. R - 1
  BY RingConsts DEF Places
<1>4. q2.rptr = (IF r + 1 < R THEN r + 1 ELSE r + 1 - R) /\ q2.rptr \in Places
  <2>1. 1 \in 0 .. R
    BY <1>3
  <2>2. QED
    BY <2>1, <1>1, PlaceIs DEF UnitFetched
<1>5. PendingUnits(q2) = (IF w >= q2.rptr THEN w - q2.rptr ELSE w - q2.rptr + R)
  BY Distance DEF UnitFetched
<1>6. n >= 1
  BY <1>1, <1>2, <1>3
<1>7. PendingUnits(q2) = n - 1
  BY <1>1, <1>2, <1>3, <1>4, <1>5
<1>8. (r + 0) % R = r
  BY <1>3, <1>1, PlaceIs
<1>9. UnitAt(q, 0) = q.words[q.rptr]
  BY <1>8 DEF UnitAt
<1>10. ASSUME NEW i \in 0 .. n - 2 PROVE UnitAt(q2, i) = UnitAt(q, i + 1)
  <2>1. i \in 0 .. R /\ i + 1 \in 0 .. R
    BY <1>2, <1>3
  <2>2. (q2.rptr + i) % R = (IF q2.rptr + i < R THEN q2.rptr + i ELSE q2.rptr + i - R)
    BY <2>1, <1>4, PlaceIs
  <2>3. /\ (r + (i + 1)) % R = (IF r + (i + 1) < R THEN r + (i + 1) ELSE r + (i + 1) - R)
        /\ (r + (i + 1)) % R \in Places
    BY <2>1, <1>1, PlaceIs
  <2>4. (q2.rptr + i) % R = (r + (i + 1)) % R /\ (r + (i + 1)) % R # r
    BY <2>1, <2>2, <2>3, <1>1, <1>2, <1>3, <1>4
  <2>5. q2.words[(r + (i + 1)) % R] = q.words[(r + (i + 1)) % R]
    BY <2>3, <2>4, <1>1 DEF UnitFetched
  <2>6. QED
    BY <2>4, <2>5 DEF UnitAt
<1>11. QED
  BY <1>2, <1>6, <1>7, <1>9, <1>10, <1>3

LEMMA FetchedRing ==
  ASSUME NEW q \in RingRecord, NEW q2 \in RingRecord, NEW g \in DriverRecord, NEW h \in HostRecord,
         NEW c \in ChildRecord,
         RingAgrees(q, g, h, c), q.rptr # q.wptr, UnitFetched(q, q2)
  PROVE  RingAgrees(q2, g, h, c)
<1> DEFINE n == PendingUnits(q)
           m == PendingUnits(q2)
<1>1. /\ n \in 1 .. RingUnits - 1 /\ m = n - 1 /\ UnitAt(q, 0) = q.words[q.rptr]
      /\ \A i \in 0 .. m - 1 : UnitAt(q2, i) = UnitAt(q, i + 1)
  BY FetchShifts
<1>2. q2.wptr = q.wptr /\ q2.scratch = (IF UnitAt(q, 0)[2] = 4 THEN UnitAt(q, 0)[1] ELSE q.scratch)
  BY <1>1, RingConsts DEF UnitFetched
<1>3. n \in Int /\ m \in Int /\ n >= 1 /\ RingUnits \in Int
  BY <1>1, RingConsts
<1>4. \A i \in 0 .. n - 1 :
    /\ UnitAt(q, i)[2] \in 1 .. 4
    /\ UnitAt(q, i)[2] < 4 => i + 1 < n /\ UnitAt(q, i + 1) = <<UnitAt(q, i)[1], UnitAt(q, i)[2] + 1>>
  BY RingConsts DEF RingAgrees, WholeUnits
<1> HIDE DEF n, m
<1>5. WholeUnits(q2)
  <2> SUFFICES ASSUME NEW i \in 0 .. m - 1
               PROVE  /\ UnitAt(q2, i)[2] \in 1 .. 4
                      /\ UnitAt(q2, i)[2] < 4 =>
                           i + 1 < m /\ UnitAt(q2, i + 1) = <<UnitAt(q2, i)[1], UnitAt(q2, i)[2] + 1>>
    BY RingConsts DEF WholeUnits, m
  <2>1. i + 1 \in 0 .. n - 1 /\ UnitAt(q2, i) = UnitAt(q, i + 1)
    BY <1>1, <1>3
  <2>2. UnitAt(q2, i)[2] \in 1 .. 4
    BY <2>1, <1>4
  <2>3. ASSUME UnitAt(q2, i)[2] < 4
        PROVE  i + 1 < m /\ UnitAt(q2, i + 1) = <<UnitAt(q2, i)[1], UnitAt(q2, i)[2] + 1>>
    BY <2>1, <2>3, <1>4, <1>1, <1>3
  <2>4. QED
    BY <2>2, <2>3
<1>6. Newest(q2) = Newest(q)
  <2>1. Newest(q) = UnitAt(q, n - 1)[1]
    BY <1>3 DEF Newest, n
  <2>2. CASE m = 0
    <3>1. n = 1 /\ 0 \in 0 .. n - 1
      BY <2>2, <1>1, <1>3
    <3>2. UnitAt(q, 0)[2] = 4
      BY <3>1, <1>4
    <3>3. QED
      BY <2>1, <2>2, <3>1, <3>2, <1>2 DEF Newest, m
  <2>3. CASE m # 0
    BY <2>3, <1>1, <1>3, <2>1 DEF Newest, m
  <2>4. QED
    BY <2>2, <2>3
<1>7. Untouched(q2, g, h, c) => Settled(q2, g)
  BY <1>2, <1>6 DEF RingAgrees, Untouched, Settled
<1>8. ASSUME g.lease
      PROVE  /\ h.next = g.next /\ (c.grant # h.run => PendingUnits(q2) = 0)
             /\ Laying(q2, g, c)
             /\ c.grant = h.run /\ c.stage = "ok" => NumberedAs(q2, h, c)
             /\ c.grant = h.run /\ c.retired /\ c.submits = h.batches => AllExecuted(q2, h)
  <2>1. h.next = g.next /\ c.grant = h.run
    BY <1>8, <1>3 DEF RingAgrees, n
  <2>2. ~(c.retired /\ c.submits = h.batches)
    BY <1>8, <2>1, <1>3 DEF RingAgrees, n, AllExecuted
  <2>3. Laying(q, g, c)
    BY <1>8 DEF RingAgrees
  <2>4. Laying(q2, g, c)
    <3>1. c.pc \in {"write", "rest", "back"} => n + 4 < RingUnits /\ m + 4 < RingUnits /\ c.wptr = q.wptr
      BY <2>3, <1>1, <1>3, RingConsts DEF Laying, n, FillingPcs
    <3>2. ASSUME c.pc \in {"write", "rest", "back"}, NEW k \in 0 .. 4, Laid(q, c, k) PROVE Laid(q2, c, k)
      <4> SUFFICES ASSUME NEW i \in 0 .. k - 1
                   PROVE  q2.words[(c.wptr + i) % RingUnits] = <<NthSeq(c.next, c.batch), i + 1>>
        BY DEF Laid
      <4>1. q.words[(c.wptr + i) % RingUnits] = <<NthSeq(c.next, c.batch), i + 1>>
        BY <3>2 DEF Laid
      <4>2. c.wptr \in Places /\ q.rptr \in Places /\ q.words \in [Places -> Units]
        BY DEF RingRecord, ChildRecord
      <4>3. /\ (c.wptr + i) % RingUnits = (IF c.wptr + i < RingUnits THEN c.wptr + i ELSE c.wptr + i - RingUnits)
            /\ (c.wptr + i) % RingUnits \in Places
        BY RingConsts, <4>2, PlaceIs
      <4>4. n = (IF q.wptr >= q.rptr THEN q.wptr - q.rptr ELSE q.wptr - q.rptr + RingUnits)
        BY Distance DEF n
      <4>5. (c.wptr + i) % RingUnits # q.rptr
        <5> DEFINE a == q.wptr
                   b == q.rptr
        <5>1. a \in Int /\ b \in Int /\ a >= 0 /\ b >= 0 /\ a < RingUnits /\ b < RingUnits /\ i \in Int
              /\ 0 <= i /\ i < 4
          BY <4>2, RingConsts DEF RingRecord, Places
        <5>2. c.wptr = a /\ n + 4 < RingUnits /\ n = (IF a >= b THEN a - b ELSE a - b + RingUnits)
          BY <3>1, <3>2, <4>4
        <5>3. (c.wptr + i) % RingUnits = (IF a + i < RingUnits THEN a + i ELSE a + i - RingUnits)
          BY <4>3, <5>2
        <5> HIDE DEF a
        <5>4. n >= 1 /\ (IF a + i < RingUnits THEN a + i ELSE a + i - RingUnits) # b
          BY <5>1, <5>2, <1>3, RingConsts
        <5>5. QED
          BY <5>3, <5>4
      <4>6. QED
        BY <4>1, <4>2, <4>3, <4>5 DEF UnitFetched
    <3>3. c.pc = "rest" =>
            RingUnits - c.wptr < 4 /\ RingUnits - c.wptr \in 0 .. 4 /\ Laid(q, c, RingUnits - c.wptr)
      BY <2>3, RingConsts DEF ChildRecord, Places, Laying
    <3>4. c.pc = "back" => Laid(q, c, 4) /\ 4 \in 0 .. 4
      BY <2>3, RingConsts DEF Laying
    <3>5. c.pc \in FillingPcs => c.wptr = q2.wptr /\ (c.submits = 0 => q2.wptr = g.write)
      BY <2>3, <1>2 DEF Laying
    <3>6. QED
      BY <3>1, <3>2, <3>3, <3>4, <3>5, RingConsts DEF Laying, m
  <2>5. ASSUME c.stage = "ok" PROVE NumberedAs(q2, h, c)
    <3> DEFINE t == 4 * c.submits - n
               u == 4 * c.submits - m
    <3>1. /\ t >= 0
          /\ \A i \in 0 .. n - 1 : UnitAt(q, i) = <<NthSeq(h.next, (t + i) \div 4), 1 + ((t + i) % 4)>>
          /\ t < 4 => q.scratch \in PriorSeqs(h.next)
          /\ t >= 4 => q.scratch = NthSeq(h.next, (t \div 4) - 1)
      BY <2>1, <2>5, <1>8, RingConsts DEF RingAgrees, NumberedAs, n
    <3>2. c.submits \in Nat /\ t \in Int /\ u \in Int /\ u = t + 1
      BY <1>1, <1>3 DEF ChildRecord
    <3> HIDE DEF t, u
    <3>3. ASSUME NEW i \in 0 .. m - 1
          PROVE  UnitAt(q2, i) = <<NthSeq(h.next, (u + i) \div 4), 1 + ((u + i) % 4)>>
      BY <1>1, <1>3, <3>2, <3>1
    <3>4. UnitAt(q, 0) = <<NthSeq(h.next, t \div 4), 1 + (t % 4)>>
      BY <1>3, <3>2, <3>1
    <3>5. UnitAt(q, 0)[1] = NthSeq(h.next, t \div 4) /\ UnitAt(q, 0)[2] = 1 + (t % 4)
      BY <3>4
    <3>6. CASE t % 4 = 3
      <4>1. u >= 4 /\ (u \div 4) - 1 = t \div 4
        BY <3>6, <3>1, <3>2, Z3
      <4>2. q2.scratch = NthSeq(h.next, (u \div 4) - 1)
        BY <4>1, <3>5, <3>6, <1>2
      <4>3. QED
        BY <4>1, <4>2, <3>1, <3>2, <3>3, RingConsts DEF NumberedAs, u, m
    <3>7. CASE t % 4 # 3
      <4>1. (u < 4 <=> t < 4) /\ (u >= 4 => u \div 4 = t \div 4) /\ t % 4 \in 0 .. 3
        BY <3>7, <3>1, <3>2, Z3
      <4>2. q2.scratch = q.scratch
        BY <4>1, <3>5, <3>7, <1>2
      <4>3. /\ u < 4 => q2.scratch \in PriorSeqs(h.next)
            /\ u >= 4 => q2.scratch = NthSeq(h.next, (u \div 4) - 1)
        BY <4>1, <4>2, <3>1, <3>2
      <4>4. u >= 0
        BY <3>1, <3>2
      <4>5. QED
        BY <4>3, <4>4, <3>3, RingConsts DEF NumberedAs, u, m
    <3>8. QED
      BY <3>6, <3>7
  <2>6. c.grant # h.run => PendingUnits(q2) = 0
    BY <2>1
  <2>7. QED
    BY <2>1, <2>2, <2>4, <2>5, <2>6
<1>9. QED
  BY <1>5, <1>7, <1>8 DEF RingAgrees

LEMMA Grown ==
  ASSUME NEW q \in RingRecord, NEW q2 \in RingRecord, NEW k \in 0 .. 4,
         PendingUnits(q) + k < RingUnits, q2.rptr = q.rptr, q2.wptr = (q.wptr + k) % RingUnits
  PROVE  /\ PendingUnits(q2) = PendingUnits(q) + k
         /\ \A i \in 0 .. k - 1 : UnitAt(q2, PendingUnits(q) + i) = q2.words[(q.wptr + i) % RingUnits]
<1> DEFINE n == PendingUnits(q)
           r == q.rptr
           w == q.wptr
           R == RingUnits
<1>1. r \in Places /\ w \in Places /\ r \in 0 .. R - 1 /\ w \in 0 .. R - 1
  BY DEF RingRecord, Places
<1>2. R \in Nat /\ R > 4
  BY RingConsts
<1>3. n = (IF w >= r THEN w - r ELSE w - r + R) /\ n \in 0 .. R - 1
  BY Distance
<1>4. k \in 0 .. R
  BY <1>2
<1>5. (w + k) % R = (IF w + k < R THEN w + k ELSE w + k - R)
  BY <1>1, <1>4, PlaceIs
<1>6. PendingUnits(q2) = (IF q2.wptr >= r THEN q2.wptr - r ELSE q2.wptr - r + R)
  BY Distance
<1>7. q2.wptr = (IF w + k < R THEN w + k ELSE w + k - R)
  BY <1>5
<1>8. ASSUME NEW i \in 0 .. k - 1 PROVE UnitAt(q2, n + i) = q2.words[(w + i) % R]
  <2>1. i \in 0 .. R /\ n + i \in 0 .. R
    BY <1>2, <1>3
  <2>2. (w + i) % R = (IF w + i < R THEN w + i ELSE w + i - R)
    BY <2>1, <1>1, PlaceIs
  <2>3. (r + (n + i)) % R = (IF r + (n + i) < R THEN r + (n + i) ELSE r + (n + i) - R)
    BY <2>1, <1>1, PlaceIs
  <2> HIDE DEF n, r, w
  <2>4. (r + (n + i)) % R = (w + i) % R
    BY <2>2, <2>3, <1>1, <1>2, <1>3
  <2>5. QED
    BY <2>4 DEF UnitAt, n, r, w
<1> HIDE DEF n, r, w
<1>9. n + k < R
  BY DEF n
<1>10. PendingUnits(q2) = n + k
  BY <1>1, <1>2, <1>3, <1>6, <1>7, <1>9
<1>11. QED
  BY <1>8, <1>10 DEF n, w

(* Words are stored behind CP_RB_WPTR, d units of a batch being there already.*)
Stored(q, q2, at, seq, from, to, d) ==
  /\ at \in Places /\ from \in Int /\ to \in Int /\ d \in 0 .. 4
  /\ (at + d) % RingUnits = q.wptr /\ d < from /\ to <= 4 /\ PendingUnits(q) + 4 - d < RingUnits
  /\ q2.rptr = q.rptr /\ q2.words = WriteBatch(q.words, at, seq, from, to)
StoredAt(q, q2, at, seq, from, to) ==
  \A i \in 0 .. 3 : q2.words[(at + i) % RingUnits] =
                       IF i + 1 \in from .. to THEN <<seq, i + 1>> ELSE q.words[(at + i) % RingUnits]

LEMMA Written ==
  ASSUME NEW q \in RingRecord, NEW q2 \in RingRecord, NEW at, NEW seq, NEW from, NEW to, NEW d,
         Stored(q, q2, at, seq, from, to, d)
  PROVE  /\ \A j \in 0 .. PendingUnits(q) - 1 : UnitAt(q2, j) = UnitAt(q, j)
         /\ StoredAt(q, q2, at, seq, from, to)
<1> DEFINE n == PendingUnits(q)
           r == q.rptr
           w == q.wptr
           R == RingUnits
           k(p) == 1 + ((p - at) % R)
<1> at \in Places /\ from \in Int /\ to \in Int /\ d \in 0 .. 4 /\ (at + d) % RingUnits = q.wptr /\ d < from
    /\ to <= 4
    /\ PendingUnits(q) + 4 - d < RingUnits /\ q2.rptr = q.rptr
       /\ q2.words = WriteBatch(q.words, at, seq, from, to)
  BY DEF Stored
<1>1. /\ r \in Places /\ w \in Places /\ r \in 0 .. R - 1 /\ w \in 0 .. R - 1 /\ at \in 0 .. R - 1
      /\ DOMAIN q.words = Places
  BY DEF RingRecord, Places
<1>2. R \in Nat /\ R > 4
  BY RingConsts
<1>3. n = (IF w >= r THEN w - r ELSE w - r + R) /\ n \in 0 .. R - 1
  BY Distance
<1>4. d \in 0 .. R
  BY <1>2
<1>5. w = (IF at + d < R THEN at + d ELSE at + d - R)
  BY <1>4, PlaceIs
<1>6. \A p \in Places : q2.words[p] = IF k(p) \in from .. to THEN <<seq, k(p)>> ELSE q.words[p]
  BY <1>1 DEF WriteBatch
<1>7. ASSUME NEW p \in Places PROVE k(p) = (IF p >= at THEN p - at + 1 ELSE p - at + R + 1)
  BY ApartIs, <1>2 DEF Places
<1>8. n + 4 - d < R
  OBVIOUS
<1> HIDE DEF n, k
<1>9. ASSUME NEW j \in 0 .. n - 1 PROVE UnitAt(q2, j) = UnitAt(q, j)
  <2> DEFINE p == (r + j) % R
  <2>1. j \in 0 .. R
    BY <1>2, <1>3
  <2>2. p \in Places /\ p = (IF r + j < R THEN r + j ELSE r + j - R)
    BY <2>1, <1>1, PlaceIs
  <2>3. p \in 0 .. R - 1
    BY <2>2 DEF Places
  <2>4. k(p) = (IF p >= at THEN p - at + 1 ELSE p - at + R + 1)
    BY <2>2, <1>7
  <2> HIDE DEF p, r, w
  <2>5. ~(k(p) \in from .. to)
    <3> SUFFICES ASSUME k(p) \in from .. to PROVE FALSE
      OBVIOUS
    <3>1. k(p) >= d + 1 /\ k(p) <= 4 /\ k(p) \in Int
      BY <1>4
    <3>2. QED
      BY <3>1, <2>2, <2>3, <2>4, <1>1, <1>2, <1>3, <1>5, <1>8
  <2>6. q2.words[p] = q.words[p]
    BY <2>2, <2>5, <1>6
  <2>7. QED
    BY <2>6 DEF UnitAt, p, r
<1>10. ASSUME NEW i \in 0 .. 3
       PROVE  q2.words[(at + i) % R] = IF i + 1 \in from .. to THEN <<seq, i + 1>> ELSE q.words[(at + i) % R]
  <2> DEFINE p == (at + i) % R
  <2>1. i \in 0 .. R
    BY <1>2
  <2>2. p \in Places /\ p = (IF at + i < R THEN at + i ELSE at + i - R)
    BY <2>1, PlaceIs
  <2>4. k(p) = (IF p >= at THEN p - at + 1 ELSE p - at + R + 1)
    BY <2>2, <1>7
  <2> HIDE DEF p
  <2>5. k(p) = i + 1
    BY <2>2, <2>4, <1>1, <1>2
  <2>6. q2.words[p] = IF i + 1 \in from .. to THEN <<seq, i + 1>> ELSE q.words[p]
    BY <2>2, <2>5, <1>6
  <2>7. QED
    BY <2>6 DEF p
<1>11. QED
  BY <1>9, <1>10 DEF n, StoredAt

(* What is stored behind CP_RB_WPTR is not pending yet.                     *)
SamePending(q, q2) ==
  /\ q2.rptr = q.rptr /\ q2.wptr = q.wptr /\ q2.scratch = q.scratch
  /\ \A j \in 0 .. PendingUnits(q) - 1 : UnitAt(q2, j) = UnitAt(q, j)

LEMMA StillPending ==
  ASSUME NEW q \in RingRecord, NEW q2, SamePending(q, q2)
  PROVE  /\ PendingUnits(q2) = PendingUnits(q) /\ Newest(q2) = Newest(q)
         /\ WholeUnits(q) => WholeUnits(q2)
         /\ \A h, c : NumberedAs(q, h, c) => NumberedAs(q2, h, c)
         /\ \A h : AllExecuted(q, h) => AllExecuted(q2, h)
<1> DEFINE n == PendingUnits(q)
<1>1. PendingUnits(q2) = n /\ q2.scratch = q.scratch
  BY DEF PendingUnits, SamePending
<1>2. n \in 0 .. RingUnits - 1 /\ n \in Int
  <2>1. n \in 0 .. RingUnits - 1
    BY Distance
  <2>2. QED
    BY <2>1, RingConsts
<1>3. \A j \in 0 .. n - 1 : UnitAt(q2, j) = UnitAt(q, j)
  BY DEF SamePending
<1> HIDE DEF n
<1>4. Newest(q2) = Newest(q)
  <2>1. CASE n = 0
    BY <2>1, <1>1 DEF Newest, n
  <2>2. CASE n # 0
    BY <2>2, <1>2, RingConsts, <1>3, <1>1 DEF Newest, n
  <2>3. QED
    BY <2>1, <2>2
<1>5. ASSUME WholeUnits(q) PROVE WholeUnits(q2)
  <2> SUFFICES ASSUME NEW i \in 0 .. n - 1
               PROVE  /\ UnitAt(q2, i)[2] \in 1 .. BatchUnits
                      /\ UnitAt(q2, i)[2] < BatchUnits =>
                           i + 1 < n /\ UnitAt(q2, i + 1) = <<UnitAt(q2, i)[1], UnitAt(q2, i)[2] + 1>>
    BY <1>1 DEF WholeUnits
  <2>1. /\ UnitAt(q, i)[2] \in 1 .. BatchUnits
        /\ UnitAt(q, i)[2] < BatchUnits =>
             i + 1 < n /\ UnitAt(q, i + 1) = <<UnitAt(q, i)[1], UnitAt(q, i)[2] + 1>>
    BY <1>5 DEF WholeUnits, n
  <2>2. UnitAt(q2, i) = UnitAt(q, i)
    BY <1>3
  <2>3. i + 1 < n => i + 1 \in 0 .. n - 1
    BY <1>2
  <2>4. i + 1 < n => UnitAt(q2, i + 1) = UnitAt(q, i + 1)
    BY <2>3, <1>3
  <2>5. QED
    BY <2>1, <2>2, <2>4
<1>6. ASSUME NEW h, NEW c, NumberedAs(q, h, c) PROVE NumberedAs(q2, h, c)
  BY <1>1, <1>3, <1>6 DEF NumberedAs, n
<1>7. ASSUME NEW h, AllExecuted(q, h) PROVE AllExecuted(q2, h)
  BY <1>1, <1>7 DEF AllExecuted, n
<1>8. QED
  BY <1>1, <1>4, <1>5, <1>6, <1>7 DEF n

(* The driver submits its own command: two units.                           *)
OwnSubmits(q, g, q2, g2) ==
  /\ q2.rptr = q.rptr /\ q2.scratch = q.scratch /\ q2.wptr = (g.write + 2) % RingUnits
  /\ q2.words = WriteBatch(q.words, (g.write - 4 + 2) % RingUnits, g.next, 3, 4)
  /\ g2.write = q2.wptr /\ g2.next = SeqAfter(g.next) /\ g2.lease = g.lease

LEMMA OwnRing ==
  ASSUME NEW q \in RingRecord, NEW q2 \in RingRecord, NEW g \in DriverRecord, NEW g2 \in DriverRecord, NEW h,
         NEW c,
         RingAgrees(q, g, h, c), ~g.lease, (q.rptr - g.write - 1) % RingUnits >= 2, OwnSubmits(q, g, q2, g2)
  PROVE  RingAgrees(q2, g2, h, c)
<1> DEFINE n == PendingUnits(q)
           w == q.wptr
           r == q.rptr
           R == RingUnits
           at == (w - 4 + 2) % R
<1>1. WholeUnits(q) /\ g.write = w /\ Newest(q) \in PriorSeqs(g.next)
  BY DEF RingAgrees, Untouched, Settled
<1>2. R \in Nat /\ R > 4 /\ w \in Places /\ r \in Places /\ w \in 0 .. R - 1 /\ r \in 0 .. R - 1
  BY RingConsts DEF RingRecord, Places
<1>3. n \in 0 .. R - 1 /\ n = (IF w >= r THEN w - r ELSE w - r + R)
  BY Distance
<1>4. at = (IF w >= 2 THEN w - 2 ELSE w - 2 + R) /\ at \in Places
  <2>1. w - 4 + 2 = w - 2
    BY <1>2
  <2>2. 2 \in Places /\ 2 \in 0 .. R - 1
    BY <1>2 DEF Places
  <2>3. QED
    BY <2>1, <2>2, <1>2, ApartIs, ZenonT(60)
<1>5. (at + 2) % R = w
  <2>1. 2 \in 0 .. R
    BY <1>2
  <2> HIDE DEF at, w
  <2>2. (at + 2) % R = (IF at + 2 < R THEN at + 2 ELSE at + 2 - R)
    BY <2>1, <1>4, PlaceIs
  <2>3. QED
    BY <2>2, <1>2, <1>4
<1>6. n + 2 < R
  <2>1. (r - w - 1) % R >= 2
    BY <1>1
  <2>2. r - w - 1 = (r - w) - 1 /\ r - w \in Int
    BY <1>2
  <2> HIDE DEF r, w, n
  <2>3. CASE r = w
    BY <2>3, <1>2, <1>3
  <2>4. CASE r > w
    <3>1. (r - w - 1) % R = r - w - 1
      BY <2>4, <1>2, Z3
    <3>2. QED
      BY <3>1, <2>1, <2>4, <1>2, <1>3
  <2>5. CASE r < w
    <3>1. (r - w - 1) % R = r - w - 1 + R
      <4>1. r - w - 1 + R \in 0 .. R - 1
        BY <2>5, <1>2
      <4>2. QED
        BY <4>1, <1>2, Z3
    <3>2. QED
      BY <3>1, <2>1, <2>5, <1>2, <1>3
  <2>6. QED
    BY <2>3, <2>4, <2>5, <1>2
<1>7. /\ \A j \in 0 .. n - 1 : UnitAt(q2, j) = UnitAt(q, j)
      /\ \A i \in 0 .. 3 : q2.words[(at + i) % R] =
                             IF i + 1 \in 3 .. 4 THEN <<g.next, i + 1>> ELSE q.words[(at + i) % R]
  <2> DEFINE d == 2
             from == 3
             to == 4
             seq == g.next
  <2>1. d \in 0 .. 4 /\ from \in Int /\ to \in Int /\ d < from /\ to <= 4 /\ PendingUnits(q) + 4 - d < R
    BY <1>6, <1>3
  <2>2. q2.words = WriteBatch(q.words, at, seq, from, to) /\ q2.rptr = q.rptr
    BY <1>1 DEF OwnSubmits
  <2>3. at \in Places /\ (at + d) % R = q.wptr
    BY <1>4, <1>5
  <2> HIDE DEF at, n, d, from, to, seq
  <2>0. Stored(q, q2, at, seq, from, to, d)
    BY <2>1, <2>2, <2>3 DEF Stored
  <2>4. \A j \in 0 .. PendingUnits(q) - 1 : UnitAt(q2, j) = UnitAt(q, j)
    BY <2>0, Written
  <2>5. StoredAt(q, q2, at, seq, from, to)
    BY <2>0, Written
  <2>6. QED
    BY <2>4, <2>5 DEF StoredAt, n, from, to, seq
<1>8. PendingUnits(q2) = n + 2 /\ \A i \in 0 .. 1 : UnitAt(q2, n + i) = q2.words[(w + i) % R]
  BY <1>1, <1>6, Grown DEF OwnSubmits
<1>9. UnitAt(q2, n) = <<g.next, 3>> /\ UnitAt(q2, n + 1) = <<g.next, 4>>
  <2>1. /\ 0 \in 0 .. 1 /\ 1 \in 0 .. 1 /\ n + 0 = n /\ w + 0 = w /\ 2 \in 0 .. 3 /\ 3 \in 0 .. 3
        /\ 2 + 1 = 3 /\ 3 + 1 = 4 /\ 3 \in 3 .. 4 /\ 4 \in 3 .. 4
    BY <1>2, <1>3
  <2>2. w % R = w
    BY <1>2, Z3
  <2>3. (w + 1) % R = (at + 3) % R
    <3>1. 1 \in 0 .. R /\ 3 \in 0 .. R
      BY <1>2
    <3> HIDE DEF at, w
    <3>2. (w + 1) % R = (IF w + 1 < R THEN w + 1 ELSE w + 1 - R)
      BY <3>1, <1>2, PlaceIs
    <3>3. (at + 3) % R = (IF at + 3 < R THEN at + 3 ELSE at + 3 - R)
      BY <3>1, <1>4, PlaceIs
    <3>4. QED
      BY <3>2, <3>3, <1>2, <1>4
  <2> HIDE DEF at, w, n
  <2>4. q2.words[(at + 2) % R] = <<g.next, 3>>
    BY <2>1, <1>7
  <2>5. q2.words[(at + 3) % R] = <<g.next, 4>>
    BY <2>1, <1>7
  <2>6. UnitAt(q2, n + 0) = q2.words[(w + 0) % R]
    BY <2>1, <1>8
  <2>7. UnitAt(q2, n + 1) = q2.words[(w + 1) % R]
    BY <2>1, <1>8
  <2>8. QED
    BY <2>1, <2>2, <2>3, <2>4, <2>5, <2>6, <2>7, <1>5
<1>10. n \in Int /\ n >= 0 /\ n < R
  BY <1>2, <1>3
<1> HIDE DEF n, w, at
<1>11. WholeUnits(q2)
  <2> SUFFICES ASSUME NEW i \in 0 .. n + 1
               PROVE  /\ UnitAt(q2, i)[2] \in 1 .. 4
                      /\ UnitAt(q2, i)[2] < 4 =>
                           i + 1 < n + 2 /\ UnitAt(q2, i + 1) = <<UnitAt(q2, i)[1], UnitAt(q2, i)[2] + 1>>
    BY <1>8, <1>10, RingConsts DEF WholeUnits
  <2>1. CASE i < n
    <3>1. i \in 0 .. n - 1
      BY <2>1, <1>10
    <3>2. /\ UnitAt(q, i)[2] \in 1 .. 4
          /\ UnitAt(q, i)[2] < 4 => i + 1 < n /\ UnitAt(q, i + 1) = <<UnitAt(q, i)[1], UnitAt(q, i)[2] + 1>>
      BY <3>1, <1>1, RingConsts DEF WholeUnits, n
    <3>3. UnitAt(q2, i) = UnitAt(q, i)
      BY <3>1, <1>7
    <3>4. i + 1 < n => i + 1 \in 0 .. n - 1 /\ i + 1 < n + 2
      BY <3>1, <1>10
    <3>5. i + 1 < n => UnitAt(q2, i + 1) = UnitAt(q, i + 1)
      BY <3>4, <1>7
    <3>6. QED
      BY <3>2, <3>3, <3>4, <3>5
  <2>2. CASE i = n
    BY <2>2, <1>9, <1>10
  <2>3. CASE i = n + 1
    BY <2>3, <1>9, <1>10
  <2>4. QED
    BY <2>1, <2>2, <2>3, <1>10
<1>12. Newest(q2) = g.next
  BY <1>8, <1>10, <1>9 DEF Newest
<1>13. g.next \in Seqs /\ g.next # 0
  BY DEF DriverRecord, NextSeqs
<1>14. Settled(q2, g2)
  BY <1>13, AfterIs, <1>12 DEF Settled, OwnSubmits
<1>15. ~g2.lease
  BY DEF OwnSubmits
<1>16. QED
  BY <1>11, <1>14, <1>15 DEF RingAgrees

(* The child's stores, before it makes them known.                          *)
LEMMA StoredRing ==
  ASSUME NEW q \in RingRecord, NEW q2 \in RingRecord, NEW g \in DriverRecord, NEW h \in HostRecord,
         NEW c \in ChildRecord,
         NEW c2 \in ChildRecord, NEW from \in 1 .. 4, NEW to \in 0 .. 4,
         RingAgrees(q, g, h, c), g.lease, c.pc \in {"write", "rest"}, c.grant = h.run, ~c.retired,
         q2.rptr = q.rptr, q2.wptr = q.wptr, q2.scratch = q.scratch,
         q2.words = WriteBatch(q.words, c.wptr, NthSeq(c.next, c.batch), from, to),
         c2 = [c EXCEPT !.pc = c2.pc], from = 1 \/ (c.pc = "rest" /\ from = RingUnits - c.wptr + 1),
         \/ c2.pc = "rest" /\ RingUnits - c.wptr < 4 /\ to = RingUnits - c.wptr
         \/ c2.pc = "back" /\ to = 4
  PROVE  RingAgrees(q2, g, h, c2)
<1> DEFINE n == PendingUnits(q)
           w == q.wptr
           seq == NthSeq(c.next, c.batch)
           R == RingUnits
<1>1. Laying(q, g, c) /\ WholeUnits(q) /\ h.next = g.next
  BY DEF RingAgrees
<1>2. c.wptr = w /\ n + 4 < R /\ (c.submits = 0 => w = g.write)
  BY <1>1, RingConsts DEF Laying, FillingPcs
<1>3. w \in Places /\ w \in 0 .. R - 1 /\ R \in Nat /\ R > 4
  BY RingConsts DEF RingRecord, Places
<1>4. n \in 0 .. R - 1 /\ n \in Int
  <2>1. n \in 0 .. R - 1
    BY Distance
  <2>2. QED
    BY <2>1, <1>3
<1>5. /\ \A j \in 0 .. n - 1 : UnitAt(q2, j) = UnitAt(q, j)
      /\ \A i \in 0 .. 3 : q2.words[(w + i) % R] =
                             IF i + 1 \in from .. to THEN <<seq, i + 1>> ELSE q.words[(w + i) % R]
  <2> DEFINE d == 0
  <2>1. d \in 0 .. 4 /\ from \in Int /\ to \in Int /\ d < from /\ to <= 4 /\ PendingUnits(q) + 4 - d < R
    BY <1>2, <1>4
  <2>2. (w + d) % R = q.wptr
    <3>1. w + d = w /\ w % R = w
      BY <1>3, Z3
    <3>2. QED
      BY <3>1
  <2>3. q2.words = WriteBatch(q.words, w, seq, from, to)
    BY <1>2
  <2> HIDE DEF d, n, seq
  <2>0. Stored(q, q2, w, seq, from, to, d)
    BY <1>3, <2>1, <2>2, <2>3 DEF Stored
  <2> HIDE DEF w
  <2>4. \A j \in 0 .. PendingUnits(q) - 1 : UnitAt(q2, j) = UnitAt(q, j)
    BY <2>0, Written
  <2>5. StoredAt(q, q2, w, seq, from, to)
    BY <2>0, Written
  <2>6. QED
    BY <2>4, <2>5 DEF StoredAt, n
<1>6. SamePending(q, q2)
  BY <1>5 DEF SamePending
<1>7. PendingUnits(q2) = n /\ Newest(q2) = Newest(q) /\ WholeUnits(q2)
  BY <1>1, <1>6, StillPending
<1>8. /\ c2.grant = c.grant /\ c2.submits = c.submits /\ c2.wptr = c.wptr /\ c2.next = c.next
      /\ c2.batch = c.batch /\ c2.stage = c.stage /\ c2.retired = c.retired
  BY DEF ChildRecord
<1>9. Untouched(q2, g, h, c2) => Settled(q2, g)
  BY <1>7, <1>8 DEF RingAgrees, Untouched, Settled
<1>10. c2.grant = h.run /\ c2.stage = "ok" => NumberedAs(q2, h, c2)
  BY <1>6, StillPending, <1>8 DEF RingAgrees, NumberedAs
<1>11. Laid(q2, c2, to)
  <2> SUFFICES ASSUME NEW i \in 0 .. to - 1
               PROVE  q2.words[(w + i) % R] = <<seq, i + 1>>
    BY <1>2, <1>8, ZenonT(60) DEF Laid
  <2>1. i \in 0 .. 3 /\ i + 1 <= to /\ i + 1 \in Int
    OBVIOUS
  <2>2. q2.words[(w + i) % R] = IF i + 1 \in from .. to THEN <<seq, i + 1>> ELSE q.words[(w + i) % R]
    BY <2>1, <1>5
  <2>3. CASE i + 1 >= from
    <3>1. i + 1 \in from .. to
      BY <2>1, <2>3
    <3>2. QED
      BY <3>1, <2>2
  <2>4. CASE i + 1 < from
    <3>1. c.pc = "rest" /\ from = R - w + 1
      BY <2>1, <2>4, <1>2
    <3>2. Laid(q, c, R - w)
      BY <3>1, <1>1, <1>2 DEF Laying
    <3>3. i \in 0 .. (R - w) - 1
      BY <3>1, <2>1, <2>4, <1>3
    <3>4. q.words[(w + i) % R] = <<seq, i + 1>>
      BY <3>2, <3>3, <1>2 DEF Laid
    <3>5. ~(i + 1 \in from .. to)
      BY <2>4, <2>1
    <3>6. QED
      BY <3>4, <3>5, <2>2
  <2>5. QED
    BY <2>3, <2>4, <2>1
<1>12. Laying(q2, g, c2)
  BY <1>2, <1>7, <1>8, <1>11, RingConsts DEF Laying, FillingPcs
<1>13. QED
  BY <1>1, <1>2, <1>7, <1>8, <1>9, <1>10, <1>12 DEF RingAgrees

(* The child moves CP_RB_WPTR, or finds that it cannot.                     *)
Committed(q, c, q2, c2) ==
  /\ q2.rptr = q.rptr /\ q2.words = q.words /\ q2.scratch = q.scratch /\ q2.wptr = (c.wptr + 4) % RingUnits
  /\ \/ c2 = [c EXCEPT !.wptr = q2.wptr, !.last = NthSeq(c.next, c.batch), !.submits = @ + 1, !.batch = @ + 1,
                       !.pc = IF c.batch + 1 < c.batches THEN "reserve" ELSE "fence"]
     \/ c2 = [c EXCEPT !.pc = "result", !.stage = "wptr"]

LEMMA CommittedRing ==
  ASSUME NEW q \in RingRecord, NEW q2 \in RingRecord, NEW g \in DriverRecord, NEW h \in HostRecord,
         NEW c \in ChildRecord,
         NEW c2 \in ChildRecord, RingAgrees(q, g, h, c), g.lease, c.pc = "back", c.grant = h.run, ~c.retired,
         c.stage = "ok",
         c.batch = c.submits, c.next = h.next, Committed(q, c, q2, c2)
  PROVE  RingAgrees(q2, g, h, c2)
<1> DEFINE n == PendingUnits(q)
           w == q.wptr
           R == RingUnits
           s == c.submits
           seq == NthSeq(h.next, s)
<1>1. Laying(q, g, c) /\ WholeUnits(q) /\ h.next = g.next /\ NumberedAs(q, h, c)
  BY DEF RingAgrees
<1>2. c.wptr = w /\ n + 4 < R /\ (s = 0 => w = g.write) /\ Laid(q, c, 4)
  BY <1>1, RingConsts DEF Laying, FillingPcs
<1>3. w \in Places /\ w \in 0 .. R - 1 /\ R \in Nat /\ R > 4 /\ s \in Nat
  BY RingConsts DEF RingRecord, Places, ChildRecord
<1>4. n \in 0 .. R - 1 /\ n \in Int /\ n >= 0
  <2>1. n \in 0 .. R - 1
    BY Distance
  <2>2. QED
    BY <2>1, <1>3
<1>5. PendingUnits(q2) = n + 4 /\ \A i \in 0 .. 3 : UnitAt(q2, n + i) = <<seq, i + 1>>
  <2> DEFINE k == 4
  <2>1. k \in 0 .. 4 /\ PendingUnits(q) + k < R /\ q2.rptr = q.rptr /\ q2.wptr = (q.wptr + k) % R /\ k = 4
    BY <1>2 DEF Committed
  <2> HIDE DEF k
  <2>2. PendingUnits(q2) = PendingUnits(q) + k
    BY <2>1, Grown
  <2>3. \A i \in 0 .. k - 1 : UnitAt(q2, PendingUnits(q) + i) = q2.words[(q.wptr + i) % R]
    BY <2>1, Grown
  <2>4. \A i \in 0 .. 3 : q.words[(w + i) % R] = <<seq, i + 1>>
    BY <1>2, <1>3 DEF Laid
  <2>5. \A i \in 0 .. 3 : i \in 0 .. k - 1
    BY <2>1
  <2>6. ASSUME NEW i \in 0 .. 3 PROVE UnitAt(q2, n + i) = <<seq, i + 1>>
    BY <2>3, <2>5, <2>4 DEF Committed
  <2>7. PendingUnits(q2) = n + 4
    BY <2>1, <2>2
  <2> HIDE DEF n
  <2>8. QED
    BY <2>6, <2>7
<1>6. \A j \in 0 .. n - 1 : UnitAt(q2, j) = UnitAt(q, j)
  BY DEF UnitAt, Committed
<1>7. q2.scratch = q.scratch /\ q2.wptr # w
  <2>1. 4 \in 0 .. R
    BY <1>3
  <2>2. (w + 4) % R = (IF w + 4 < R THEN w + 4 ELSE w + 4 - R)
    BY <2>1, <1>3, PlaceIs
  <2>3. q2.wptr = (w + 4) % R
    BY <1>2 DEF Committed
  <2> HIDE DEF w
  <2>4. QED
    BY <2>2, <2>3, <1>3 DEF Committed
<1> HIDE DEF n, w
<1>8. WholeUnits(q2)
  <2> SUFFICES ASSUME NEW i \in 0 .. n + 3
               PROVE  /\ UnitAt(q2, i)[2] \in 1 .. 4
                      /\ UnitAt(q2, i)[2] < 4 =>
                           i + 1 < n + 4 /\ UnitAt(q2, i + 1) = <<UnitAt(q2, i)[1], UnitAt(q2, i)[2] + 1>>
    BY <1>5, <1>4, RingConsts DEF WholeUnits
  <2>1. CASE i < n
    <3>1. i \in 0 .. n - 1
      BY <2>1, <1>4
    <3>2. /\ UnitAt(q, i)[2] \in 1 .. 4
          /\ UnitAt(q, i)[2] < 4 => i + 1 < n /\ UnitAt(q, i + 1) = <<UnitAt(q, i)[1], UnitAt(q, i)[2] + 1>>
      BY <3>1, <1>1, RingConsts DEF WholeUnits, n
    <3>3. UnitAt(q2, i) = UnitAt(q, i)
      BY <3>1, <1>6
    <3>4. i + 1 < n => i + 1 \in 0 .. n - 1 /\ i + 1 < n + 4
      BY <3>1, <1>4
    <3>5. i + 1 < n => UnitAt(q2, i + 1) = UnitAt(q, i + 1)
      BY <3>4, <1>6
    <3>6. QED
      BY <3>2, <3>3, <3>4, <3>5
  <2>2. CASE i >= n
    <3> DEFINE j == i - n
    <3>1. j \in 0 .. 3 /\ i = n + j /\ (j < 3 => j + 1 \in 0 .. 3 /\ i + 1 = n + (j + 1))
      BY <2>2, <1>4
    <3> HIDE DEF j
    <3>2. UnitAt(q2, i) = <<seq, j + 1>>
      BY <3>1, <1>5
    <3>3. j < 3 => UnitAt(q2, i + 1) = <<seq, (j + 1) + 1>>
      BY <3>1, <1>5
    <3>4. UnitAt(q2, i)[2] = j + 1 /\ UnitAt(q2, i)[1] = seq
      BY <3>2
    <3>5. j + 1 \in 1 .. 4 /\ (j + 1 < 4 => j < 3 /\ i + 1 < n + 4)
      BY <3>1, <1>4
    <3>6. QED
      BY <3>3, <3>4, <3>5
  <2>3. QED
    BY <2>1, <2>2, <1>4
<1>9. /\ c2.grant = c.grant /\ c2.next = c.next /\ c2.retired = c.retired
      /\ c2.submits \in Nat
      /\ c2.stage = "ok" => c2.submits = s + 1 /\ c2.pc \in {"reserve", "fence"} /\ c2.wptr = q2.wptr
      /\ c2.stage # "ok" => c2.pc = "result" /\ c2.submits = s
  <2>1. CASE c2 = [c EXCEPT !.pc = "result", !.stage = "wptr"]
    BY <2>1, <1>3 DEF ChildRecord
  <2>2. CASE c2 = [c EXCEPT !.wptr = q2.wptr, !.last = NthSeq(c.next, c.batch), !.submits = @ + 1, !.batch = @ + 1,
                       !.pc = IF c.batch + 1 < c.batches THEN "reserve" ELSE "fence"]
    BY <2>2, <1>3 DEF ChildRecord
  <2>3. QED
    BY <2>1, <2>2 DEF Committed
<1>10. ~Untouched(q2, g, h, c2)
  BY <1>2, <1>3, <1>7, <1>9 DEF Untouched
<1>11. Laying(q2, g, c2)
  BY <1>3, <1>9 DEF Laying, FillingPcs
<1>12. ASSUME c2.stage = "ok" PROVE NumberedAs(q2, h, c2)
  <2> DEFINE t == 4 * s - n
  <2>1. /\ t >= 0
        /\ \A i \in 0 .. n - 1 : UnitAt(q, i) = <<NthSeq(h.next, (t + i) \div 4), 1 + ((t + i) % 4)>>
        /\ t < 4 => q.scratch \in PriorSeqs(h.next)
        /\ t >= 4 => q.scratch = NthSeq(h.next, (t \div 4) - 1)
    BY <1>1, RingConsts DEF NumberedAs, n
  <2>2. t = 4 * c2.submits - (n + 4) /\ t \in Int
    BY <1>3, <1>4, <1>9, <1>12
  <2>3. ASSUME NEW i \in 0 .. n + 3
        PROVE  UnitAt(q2, i) = <<NthSeq(h.next, (t + i) \div 4), 1 + ((t + i) % 4)>>
    <3>1. CASE i < n
      <4>1. i \in 0 .. n - 1
        BY <3>1, <1>4
      <4>2. QED
        BY <4>1, <2>1, <1>6
    <3>2. CASE i >= n
      <4> DEFINE j == i - n
      <4>1. j \in 0 .. 3 /\ i = n + j /\ t + i = 4 * s + j
        BY <3>2, <1>3, <1>4
      <4> HIDE DEF j, t, s
      <4>2. (4 * s + j) \div 4 = s /\ (4 * s + j) % 4 = j /\ 1 + j = j + 1
        BY <4>1, <1>3, Z3
      <4>3. UnitAt(q2, i) = <<seq, j + 1>>
        BY <4>1, <1>5
      <4>4. QED
        BY <4>1, <4>2, <4>3
    <3>3. QED
      BY <3>1, <3>2, <1>4
  <2>4. n + 4 - 1 = n + 3
    BY <1>4
  <2> HIDE DEF t
  <2>5. PendingUnits(q2) = n + 4 /\ BatchUnits = 4
    BY <1>5, RingConsts
  <2>6. t = 4 * c2.submits - PendingUnits(q2)
    BY <2>2, <2>5
  <2>7. \A i \in 0 .. PendingUnits(q2) - 1 : UnitAt(q2, i) = <<NthSeq(h.next, (t + i) \div 4), 1 + ((t + i) % 4)>>
    <3>1. PendingUnits(q2) - 1 = n + 3
      BY <2>5, <1>4
    <3>2. QED
      BY <3>1, <2>3
  <2>8. QED
    BY <2>1, <2>5, <2>6, <2>7, <1>7 DEF NumberedAs
<1>13. QED
  BY <1>1, <1>8, <1>9, <1>10, <1>11, <1>12 DEF RingAgrees

LEMMA NatDividesBy4 ==
  ASSUME NEW t \in Nat
  PROVE  t \div 4 \in Nat /\ 4 * (t \div 4) <= t /\ t < 4 * (t \div 4) + 4
BY Z3

(* The child sees the last of its batches in SCRATCH_REG0.                  *)
LEMMA RetiredRing ==
  ASSUME NEW q \in RingRecord, NEW g \in DriverRecord, NEW h \in HostRecord, NEW c \in ChildRecord,
         NEW c2 \in ChildRecord,
         RingAgrees(q, g, h, c), c.pc = "fence", c.stage = "ok", c.submits > 0,
         c.last = NthSeq(c.next, c.submits - 1),
         g.lease => c.grant = h.run /\ c.next = h.next /\ h.next # 0 /\ h.next + h.batches - 1 <= SeqRange,
         SeqPassed(q.scratch, c.last), c2 = [c EXCEPT !.pc = "result", !.retired = TRUE]
  PROVE  RingAgrees(q, g, h, c2)
<1> DEFINE n == PendingUnits(q)
           b == c.submits
<1>1. /\ c2.grant = c.grant /\ c2.submits = c.submits /\ c2.wptr = c.wptr /\ c2.next = c.next
      /\ c2.batch = c.batch /\ c2.stage = c.stage /\ c2.pc = "result"
  BY DEF ChildRecord
<1>2. CASE ~g.lease
  BY <1>2, NoLeaseRing
<1>3. CASE g.lease
  <2>1. WholeUnits(q) /\ h.next = g.next /\ NumberedAs(q, h, c)
    BY <1>3 DEF RingAgrees
  <2>2. Untouched(q, g, h, c2) => Settled(q, g)
    BY <1>1 DEF RingAgrees, Untouched
  <2>3. Laying(q, g, c2)
    BY <1>1 DEF Laying, FillingPcs
  <2>4. NumberedAs(q, h, c2)
    BY <2>1, <1>1 DEF NumberedAs
  <2>5. ASSUME c2.submits = h.batches PROVE AllExecuted(q, h)
    <3>1. b \in Nat /\ b > 0 /\ b = h.batches /\ b \in BatchCounts \cup {BatchDefault}
      <4>1. b \in Nat /\ h.batches \in BatchCounts \cup {BatchDefault} \cup {0}
        BY DEF ChildRecord, HostRecord, BatchNumbers
      <4>2. b = h.batches /\ b # 0
        BY <2>5, <1>1, <4>1
      <4>3. QED
        BY <4>1, <4>2
    <3>2. 2 * (b + 3) <= SeqRange
      BY <3>1, DirectRingAssumption
    <3>3. h.next \in Seqs /\ h.next # 0 /\ h.next + b - 1 <= SeqRange
      BY <1>3, <3>1 DEF HostRecord
    <3>4. c.last = NthSeq(h.next, b - 1)
      BY <1>3
    <3>5. \A s \in PriorSeqs(h.next) : s \in Int => ~SeqPassed(s, NthSeq(h.next, b - 1))
      BY <3>1, <3>2, <3>3, NotYet
    <3>6. \A e \in Nat : e < b /\ e > 0 => ~SeqPassed(NthSeq(h.next, e - 1), NthSeq(h.next, b - 1))
      BY <3>1, <3>2, <3>3, NotYet
    <3>7. n \in Nat
      BY Distance
    <3> DEFINE t == 4 * b - n
    <3>8. /\ t >= 0
          /\ t < 4 => q.scratch \in PriorSeqs(h.next)
          /\ t >= 4 => q.scratch = NthSeq(h.next, (t \div 4) - 1)
      BY <2>1, RingConsts DEF NumberedAs
    <3>9. t \in Nat
      BY <3>1, <3>7, <3>8
    <3>10. q.scratch \in Int
      BY RingConsts DEF RingRecord, Seqs
    <3> HIDE DEF b, n
    <3>11. t >= 4
      BY <3>4, <3>5, <3>8, <3>9, <3>10
    <3> DEFINE e == t \div 4
    <3>12. e \in Nat /\ 4 * e <= t /\ t < 4 * e + 4
      <4> HIDE DEF t
      <4>1. QED
        BY <3>9, NatDividesBy4
    <3>13. t = 4 * b - n
      OBVIOUS
    <3> HIDE DEF e, t
    <3>14. ~(e < b)
      BY <3>11, <3>12, <3>9, <3>4, <3>8, <3>6 DEF e
    <3>15. n = 0 /\ e = b
      BY <3>1, <3>7, <3>9, <3>12, <3>13, <3>14
    <3>16. q.scratch = NthSeq(h.next, b - 1)
      BY <3>8, <3>11, <3>15 DEF e
    <3>17. QED
      BY <3>1, <3>15, <3>16 DEF AllExecuted, n, b
  <2>6. c2.grant = h.run
    BY <1>1, <1>3
  <2>7. QED
    BY <2>1, <2>2, <2>3, <2>4, <2>5, <2>6 DEF RingAgrees
<1>4. QED
  BY <1>2, <1>3

(* A host takes the lease: the ring is idle.                                *)
LEMMA AcquiredRing ==
  ASSUME NEW q \in RingRecord, NEW g, NEW g2, NEW h, NEW h2, NEW c, RingAgrees(q, g, h, c), ~g.lease,
         q.rptr = q.wptr,
         g2.next = g.next, g2.write = g.write, h2.next = g.next, c.grant # h2.run, c.pc \notin WorkingPcs
  PROVE  RingAgrees(q, g2, h2, c)
<1>1. PendingUnits(q) = 0
  BY RingConsts, Distance DEF RingRecord, Places
<1>2. Laying(q, g2, c)
  BY DEF Laying, WorkingPcs, FillingPcs
<1>3. Untouched(q, g2, h2, c) => Settled(q, g2)
  BY DEF RingAgrees, Untouched, Settled
<1>4. WholeUnits(q)
  BY DEF RingAgrees
<1>5. QED
  BY <1>1, <1>2, <1>3, <1>4 DEF RingAgrees

(* A child reads the grant.                                                 *)
LEMMA GrantedRing ==
  ASSUME NEW q \in RingRecord, NEW g, NEW h, NEW c, NEW c2, RingAgrees(q, g, h, c),
         g.lease => c.grant # h.run /\ c2.grant = h.run /\ c2.next = h.next,
         c2.submits = 0, c2.batch = 0, ~c2.retired, c2.pc = "reserve", c2.wptr = q.wptr
  PROVE  RingAgrees(q, g, h, c2)
<1>1. CASE ~g.lease
  BY <1>1, NoLeaseRing
<1>2. CASE g.lease
  <2>1. PendingUnits(q) = 0 /\ WholeUnits(q) /\ h.next = g.next
    BY <1>2 DEF RingAgrees
  <2>2. Settled(q, g)
    BY <1>2 DEF RingAgrees, Untouched
  <2>3. q.scratch \in PriorSeqs(h.next) /\ q.wptr = g.write
    BY <2>1, <2>2 DEF Settled, Newest
  <2>4. NumberedAs(q, h, c2)
    <3> DEFINE t == BatchUnits * c2.submits - PendingUnits(q)
    <3>1. t = 0 /\ PendingUnits(q) - 1 = -1
      BY <2>1, RingConsts
    <3>2. 0 .. PendingUnits(q) - 1 = {}
      BY <3>1
    <3> HIDE DEF t
    <3>3. t >= 0 /\ t < BatchUnits /\ ~(t >= BatchUnits)
      BY <3>1, RingConsts
    <3>4. QED
      BY <3>2, <3>3, <2>3 DEF NumberedAs, t
  <2>5. Laying(q, g, c2)
    BY <2>3 DEF Laying
  <2>6. QED
    BY <1>2, <2>1, <2>2, <2>4, <2>5 DEF RingAgrees
<1>3. QED
  BY <1>1, <1>2

(* The host gives the lease back with the last fence: the driver goes on    *)
(* where the command processor is.                                          *)
LEMMA ReleasedRing ==
  ASSUME NEW q \in RingRecord, NEW g, NEW g2, NEW h \in HostRecord, NEW h2, NEW c, RingAgrees(q, g, h, c),
         g.lease,
         c.grant = h.run, c.retired, c.submits = h.batches, h.last = NthSeq(h.next, h.batches - 1), h.last # 0,
         ~g2.lease, g2.write = q.rptr, g2.next = SeqAfter(h.last)
  PROVE  RingAgrees(q, g2, h2, c)
<1>1. AllExecuted(q, h) /\ WholeUnits(q)
  BY DEF RingAgrees
<1>2. Newest(q) = h.last /\ PendingUnits(q) = 0
  BY <1>1 DEF AllExecuted, Newest
<1>3. h.last \in Seqs
  BY DEF HostRecord
<1>4. Newest(q) \in PriorSeqs(g2.next)
  BY <1>2, <1>3, AfterIs
<1>5. q.rptr = q.wptr
  BY RingConsts, <1>2, Distance DEF RingRecord, Places
<1>6. QED
  BY <1>1, <1>4, <1>5 DEF RingAgrees, Settled

(* The lease ends without a fence, and nothing was written under it.        *)
LEMMA GivenUpRing ==
  ASSUME NEW q, NEW g, NEW g2, NEW h, NEW h2, NEW c, RingAgrees(q, g, h, c), g2.next = g.next,
         g2.write = g.write, ~g2.lease,
         ~(g.lease /\ c.grant = h.run /\ (c.submits > 0 \/ q.wptr # g.write)), c.submits \in Nat
  PROVE  RingAgrees(q, g2, h2, c)
<1>1. Untouched(q, g, h, c)
  BY DEF Untouched
<1>2. QED
  BY <1>1 DEF RingAgrees, Settled

(* The ring begins anew.                                                    *)
LEMMA FreshRing ==
  ASSUME NEW q \in RingRecord, NEW g, NEW h, NEW c, q.rptr = 0, q.wptr = 0, q.scratch = SeqRange - 3,
         g.next = 1, g.write = 0, ~g.lease
  PROVE  RingAgrees(q, g, h, c)
<1>1. PendingUnits(q) = 0
  BY Distance
<1>2. 0 .. PendingUnits(q) - 1 = {}
  BY <1>1
<1>3. Settled(q, g)
  BY <1>1, RingConsts DEF Settled, Newest, PriorSeqs
<1>4. QED
  BY <1>2, <1>3 DEF RingAgrees, WholeUnits

LEMMA FirstRing ==
  ASSUME NEW q \in RingRecord, NEW g, NEW h, NEW c, q.rptr = q.wptr, g.write = q.wptr, g.next \in Seqs \ {0},
         q.scratch = SeqSum(g.next, SeqRange - 1), ~g.lease
  PROVE  RingAgrees(q, g, h, c)
<1>1. PendingUnits(q) = 0
  BY RingConsts, Distance DEF RingRecord, Places
<1>2. 0 .. PendingUnits(q) - 1 = {}
  BY <1>1
<1>3. q.scratch = g.next - 1
  <2>1. g.next \in 0 .. SeqRange - 1 /\ SeqRange - 1 \in 0 .. SeqRange /\ SeqRange \in Nat /\ SeqRange > 0
    BY RingConsts DEF Seqs
  <2> DEFINE m == SeqRange
             a == g.next
             i == m - 1
  <2>2. a \in 0 .. m - 1 /\ i \in 0 .. m /\ a # 0 /\ a + i >= m /\ a + i - m = a - 1
    BY <2>1
  <2> HIDE DEF a, i
  <2>3. (a + i) % m = (IF a + i < m THEN a + i ELSE a + i - m)
    BY <2>1, <2>2, AddMod
  <2>4. (a + i) % m = a - 1
    BY <2>1, <2>2, <2>3
  <2>5. QED
    BY <2>4 DEF SeqSum, a, i
<1>4. Settled(q, g)
  BY <1>1, <1>3, RingConsts DEF Settled, Newest, PriorSeqs, Seqs
<1>5. QED
  BY <1>2, <1>4 DEF RingAgrees, WholeUnits
------------------------------------------------------------------------------
(* Types: one lemma for each action.                                        *)

LEMMA LinesTyped ==
  ASSUME block \in BlockRecord
  PROVE  LineNow("first") \in FirstLines /\ LineNow("second") \in SecondLines
BY DEF LineNow, FirstLine, SecondLine, BlockRecord, FirstLines, SecondLines

LEMMA Flushing ==
  ASSUME CachedTyped(cached), NEW ls
  PROVE  CachedTyped(P0FlushRange(ls))
         /\ \A l \in Lines : P0FlushRange(ls)[l] = IF l \in ls THEN {} ELSE cached[l]
<1>1. \A l \in Lines : P0FlushRange(ls)[l] = IF l \in ls THEN {} ELSE cached[l]
  BY DEF P0FlushRange
<1>2. \A l \in Lines : P0FlushRange(ls)[l] # {} => HeldLine(P0FlushRange(ls), l) = HeldLine(cached, l)
  BY <1>1 DEF HeldLine
<1>3. DOMAIN P0FlushRange(ls) = Lines
  BY DEF P0FlushRange
<1>4. QED
  BY <1>1, <1>2, <1>3 DEF CachedTyped, Lines

LEMMA Loading ==
  ASSUME block \in BlockRecord, NEW c, CachedTyped(c), NEW l \in Lines
  PROVE  /\ CachedTyped(Loaded(l, c))
         /\ Load(l, c) \in IF l = "first" THEN FirstLines ELSE SecondLines
         /\ c[l] = {} => Load(l, c) = LineNow(l)
         /\ c[l] # {} => Load(l, c) = HeldLine(c, l)
         /\ Loaded(l, c)[l] # {} /\ HeldLine(Loaded(l, c), l) = Load(l, c)
         /\ \A m \in Lines : m # l => Loaded(l, c)[m] = c[m]
<1>1. Loaded(l, c)[l] = {Load(l, c)} /\ (\A m \in Lines : m # l => Loaded(l, c)[m] = c[m])
      /\ DOMAIN Loaded(l, c) = Lines
  BY DEF Loaded, CachedTyped
<1>2. Load(l, c) \in IF l = "first" THEN FirstLines ELSE SecondLines
  <2>1. CASE c[l] = {}
    <3>1. Load(l, c) = LineNow(l)
      BY <2>1 DEF Load
    <3>2. QED
      BY <3>1, LinesTyped DEF Lines
  <2>2. CASE c[l] # {}
    <3>1. Load(l, c) = HeldLine(c, l)
      BY <2>2 DEF Load, HeldLine
    <3>2. QED
      BY <3>1, <2>2 DEF CachedTyped, Lines
  <2>3. QED
    BY <2>1, <2>2
<1>3. HeldLine(Loaded(l, c), l) = Load(l, c)
  BY <1>1 DEF HeldLine
<1>4. \A m \in Lines : m # l => HeldLine(Loaded(l, c), m) = HeldLine(c, m)
  BY <1>1 DEF HeldLine
<1>5. CachedTyped(Loaded(l, c))
  BY <1>1, <1>2, <1>3, <1>4 DEF CachedTyped, Lines
<1>6. QED
  BY <1>1, <1>2, <1>3, <1>5 DEF Load, HeldLine

LEMMA BatchTyped ==
  ASSUME NEW q \in RingRecord, NEW at \in Places, NEW seq \in Seqs, NEW from \in 1 .. 5, NEW to \in 0 .. 4
  PROVE  WriteBatch(q.words, at, seq, from, to) \in [Places -> Units]
<1>1. q.words \in [Places -> Units] /\ DOMAIN q.words = Places
  BY DEF RingRecord
<1>2. ASSUME NEW p \in Places
      PROVE  (IF 1 + ((p - at) % RingUnits) \in from .. to THEN <<seq, 1 + ((p - at) % RingUnits)>> ELSE q.words[p])
               \in Units
  <2> DEFINE k == 1 + ((p - at) % RingUnits)
  <2> HIDE DEF k
  <2>1. k \in from .. to => k \in 0 .. 4
    OBVIOUS
  <2>2. (IF k \in from .. to THEN <<seq, k>> ELSE q.words[p]) \in Units
    BY <2>1, <1>1 DEF Units
  <2>3. QED
    BY <2>2 DEF k
<1>3. QED
  BY <1>1, <1>2 DEF WriteBatch

LEMMA Names ==
  /\ {"start", "opened", "announcing", "arrival", "leasing", "acquired", "filling", "flagging", "waiting",
      "checked", "closing"} \subseteq HostPcs
  /\ {"idle", "validate", "clear", "echo", "mark", "present", "poll", "range", "reserve", "write", "rest", "back", "fence",
      "result", "done"} \subseteq ChildPcs
  /\ {"ok", "host_wait", "ring_range", "reserve", "readback", "wptr", "fence"} \subseteq Stages
  /\ Stages \subseteq BlockStages /\ Marker \in BlockStages /\ BatchDefault \in BatchNumbers
     /\ BatchCounts \subseteq BatchNumbers
  /\ 0 \in BatchNumbers /\ BatchNumbers \subseteq Nat /\ 0 \in Seqs /\ 1 \in Seqs /\ 0 \in Places /\ 0 \in Ages
     /\ 1 \in NextSeqs /\ SeqRange - 3 \in Seqs
  /\ TRUE \in BOOLEAN /\ FALSE \in BOOLEAN
<1>1. BatchNumbers \subseteq Nat
  BY DirectRingAssumption, RingConsts DEF BatchNumbers
<1>2. 0 \in Seqs /\ 1 \in Seqs /\ 0 \in Places /\ 0 \in Ages /\ 1 \in NextSeqs /\ SeqRange - 3 \in Seqs
  BY RingConsts DEF Seqs, Places, Ages, NextSeqs
<1>3. QED
  BY <1>1, <1>2 DEF HostPcs, ChildPcs, ReadingPcs, WorkingPcs, FillingPcs, Stages, BlockStages, BatchNumbers

LEMMA NoneTyped == NoHost \in HostRecord /\ NoChild \in ChildRecord /\ Blank \in BlockRecord
BY Names DEF NoHost, NoChild, Blank, HostRecord, ChildRecord, BlockRecord

LEMMA PassedTyped == ASSUME NEW g \in DriverRecord, NEW n \in Seqs, DirectTyped
                     PROVE  RadeonCpAdoptFence(g, n) \in DriverRecord
                            /\ RadeonCpAdoptFence(g, n).ready = g.ready
                            /\ RadeonCpAdoptFence(g, 0) = g
<1>1. SeqAfter(n) \in NextSeqs
  BY AfterIs DEF NextSeqs
<1>2. cpring.rptr \in Places
  BY DEF DirectTyped, RingRecord
<1>3. QED
  BY <1>1, <1>2 DEF RadeonCpAdoptFence, DriverRecord

LEMMA FreedTyped == ASSUME NEW g \in DriverRecord PROVE [g EXCEPT !.lease = FALSE] \in DriverRecord
BY Names DEF DriverRecord

LEMMA RecoverTyped ==
  ASSUME NEW g \in DriverRecord, DirectTyped, RecoverRing(g)
  PROVE  granted' \in DriverRecord /\ cpring' \in RingRecord
<1>1. CASE granted' = [g EXCEPT !.ready = FALSE, !.lease = FALSE] /\ UNCHANGED cpring
  <2>1. granted' \in DriverRecord
    BY <1>1, Names DEF DriverRecord
  <2>2. QED
    BY <1>1, <2>1 DEF DirectTyped
<1>2. CASE /\ granted' = [g EXCEPT !.next = 1, !.write = 0, !.lease = FALSE]
           /\ cpring' = [words |-> [p \in DOMAIN cpring.words |-> Unwritten], rptr |-> 0, wptr |-> 0, scratch |-> SeqRange - 3]
  <2>1. granted' \in DriverRecord
    BY <1>2, Names DEF DriverRecord
  <2> DEFINE w == [p \in DOMAIN cpring.words |-> Unwritten]
  <2>2. w \in [Places -> Units]
    BY Names DEF DirectTyped, RingRecord, Unwritten, Units
  <2> HIDE DEF w
  <2>3. cpring' \in RingRecord
    BY <1>2, <2>2, Names DEF RingRecord, w
  <2>4. QED
    BY <2>1, <2>3
<1>3. QED
  BY <1>1, <1>2 DEF RecoverRing

(* What is as before.                                                       *)
LEMMA TypedBy ==
  ASSUME DirectTyped, block' \in BlockRecord, hosting' \in HostRecord, child' \in ChildRecord,
         cpring' \in RingRecord,
         granted' \in DriverRecord, orphan' \in BOOLEAN, CachedTyped(cached')
  PROVE  DirectTyped'
BY DEF DirectTyped

LEMMA OwnSubmitTyped == ASSUME DirectTyped, OwnSubmit PROVE DirectTyped'
<1> DEFINE to == (granted.write + OwnUnits) % RingUnits
           at == (granted.write - BatchUnits + OwnUnits) % RingUnits
           ws == WriteBatch(cpring.words, at, granted.next, BatchUnits - OwnUnits + 1, BatchUnits)
<1>1. /\ cpring' = [cpring EXCEPT !.words = ws, !.wptr = to]
      /\ granted' = [granted EXCEPT !.write = to, !.own = @ + 1, !.next = SeqAfter(@)]
      /\ UNCHANGED <<block, cached, hosting, child, orphan>>
  BY DEF OwnSubmit
<1>2. granted \in DriverRecord /\ cpring \in RingRecord
  BY DEF DirectTyped
<1>3. granted.write \in Places /\ granted.next \in Seqs /\ granted.own + 1 \in Nat
      /\ SeqAfter(granted.next) \in NextSeqs
  BY <1>2, AfterIs DEF DriverRecord, NextSeqs
<1>4. to \in Places /\ at \in Places
  <2>1. granted.write \in 0 .. RingUnits - 1 /\ RingUnits \in Nat /\ RingUnits > 4
    BY <1>3, RingConsts DEF Places
  <2>2. \A x \in Int : x % RingUnits \in 0 .. RingUnits - 1
    BY <2>1, Z3
  <2>3. QED
    BY <2>1, <2>2, RingConsts DEF OwnUnits, Places
<1>5. ws \in [Places -> Units]
  <2> DEFINE from == BatchUnits - OwnUnits + 1
             up == BatchUnits
             seq == granted.next
  <2>1. from \in 1 .. 5 /\ up \in 0 .. 4 /\ seq \in Seqs
    BY <1>3, RingConsts DEF OwnUnits
  <2>2. ws = WriteBatch(cpring.words, at, seq, from, up)
    OBVIOUS
  <2> HIDE DEF ws, at, from, up, seq
  <2>3. QED
    BY <1>2, <1>4, <2>1, <2>2, BatchTyped
<1> HIDE DEF ws, to
<1>6. cpring' \in RingRecord
  BY <1>1, <1>2, <1>4, <1>5 DEF RingRecord
<1> DEFINE o == granted.own + 1
           n == SeqAfter(granted.next)
<1>7. granted' = [granted EXCEPT !.write = to, !.own = o, !.next = n] /\ o \in Nat /\ n \in NextSeqs
  BY <1>1, <1>3
<1> HIDE DEF o, n
<1>8. granted' \in DriverRecord
  BY <1>2, <1>4, <1>7 DEF DriverRecord
<1>9. QED
  BY <1>1, <1>6, <1>8, TypedBy DEF DirectTyped

LEMMA FetchUnitTyped == ASSUME DirectTyped, FetchUnit PROVE DirectTyped' /\ UnitFetched(cpring, cpring')
<1> DEFINE word == cpring.words[cpring.rptr]
           r == (cpring.rptr + 1) % RingUnits
           ws == [cpring.words EXCEPT ![cpring.rptr] = Unwritten]
           s == IF word[2] = BatchUnits THEN word[1] ELSE cpring.scratch
<1>1. /\ cpring' = [cpring EXCEPT !.rptr = r, !.words = ws, !.scratch = s]
      /\ UNCHANGED <<block, cached, hosting, child, granted, orphan>>
  BY DEF FetchUnit
<1>2. cpring \in RingRecord /\ cpring.rptr \in Places /\ cpring.words \in [Places -> Units]
      /\ cpring.scratch \in Seqs
  BY DEF DirectTyped, RingRecord
<1>3. r \in Places
  <2>1. 1 \in 0 .. RingUnits
    BY RingConsts
  <2>2. QED
    BY <2>1, <1>2, PlaceIs
<1>4. ws \in [Places -> Units]
  <2>1. Unwritten \in Units
    BY Names DEF Unwritten, Units
  <2>2. QED
    BY <2>1, <1>2
<1>5. s \in Seqs
  BY <1>2 DEF Units
<1> HIDE DEF r, ws, s
<1>6. cpring' \in RingRecord /\ cpring'.rptr = r /\ cpring'.words = ws /\ cpring'.scratch = s
      /\ cpring'.wptr = cpring.wptr
  BY <1>1, <1>2, <1>3, <1>4, <1>5 DEF RingRecord
<1>7. UnitFetched(cpring, cpring')
  BY <1>6 DEF UnitFetched, r, ws, s
<1>8. QED
  BY <1>1, <1>6, <1>7, TypedBy DEF DirectTyped

LEMMA LeaseReclaimTyped == ASSUME DirectTyped, LeaseReclaim PROVE DirectTyped'
<1>1. granted' \in DriverRecord /\ cpring' \in RingRecord
  BY PassedTyped, Names, RecoverTyped DEF DirectTyped, LeaseReclaim
<1>2. QED
  BY <1>1, TypedBy DEF DirectTyped, LeaseReclaim

LEMMA HalfSecondTyped == ASSUME DirectTyped, HalfSecond PROVE DirectTyped'
<1> DEFINE r == IF hosting.renew > 1 THEN hosting.renew ELSE hosting.renew + 1
           a == IF granted.age > ExpiryTicks THEN granted.age ELSE granted.age + 1
<1>1. hosting' = [hosting EXCEPT !.due = TRUE, !.renew = r] /\ granted' = [granted EXCEPT !.age = a]
  BY DEF HalfSecond
<1>2. hosting \in HostRecord /\ granted \in DriverRecord
  BY DEF DirectTyped
<1>3. hosting.renew \in Nat /\ granted.age \in Ages
  BY <1>2 DEF HostRecord, DriverRecord
<1>4. r \in Nat /\ a \in Ages
  BY <1>3, RingConsts DEF Ages
<1> HIDE DEF r, a
<1>5. hosting' \in HostRecord /\ granted' \in DriverRecord
  BY <1>1, <1>2, <1>4, Names DEF HostRecord, DriverRecord
<1>6. QED
  BY <1>5, TypedBy DEF DirectTyped, HalfSecond

LEMMA HostAcquireTyped == ASSUME DirectTyped, HostAcquire PROVE DirectTyped'
<1>1. hosting' \in HostRecord
  <2>1. granted.next \in Seqs
    BY DEF DirectTyped, DriverRecord, NextSeqs
  <2>2. CASE HostQuits("leasing")
    BY <2>2, Names DEF HostQuits, HostGoes, DirectTyped, HostRecord
  <2>3. CASE hosting' = [hosting EXCEPT !.pc = "acquired", !.next = granted.next]
    BY <2>1, <2>3, Names DEF DirectTyped, HostRecord
  <2>4. QED
    BY <2>2, <2>3 DEF HostAcquire
<1>2. granted' \in DriverRecord
  BY Names DEF HostAcquire, HostQuits, DirectTyped, DriverRecord
<1>3. QED
  BY <1>1, <1>2, TypedBy DEF HostAcquire, HostQuits, DirectTyped

LEMMA HostQuitsTyped == ASSUME DirectTyped, NEW from, HostQuits(from) PROVE DirectTyped'
<1>1. hosting' \in HostRecord
  BY Names DEF HostQuits, HostGoes, DirectTyped, HostRecord
<1>2. QED
  BY <1>1, TypedBy DEF HostQuits, DirectTyped

LEMMA HostResultsTyped == ASSUME DirectTyped, HostResults PROVE DirectTyped'
<1>1. hosting' \in HostRecord
  <2> DEFINE to == IF ResultsGood THEN "checked" ELSE "closing"
  <2>1. to \in HostPcs
    BY Names
  <2>2. hosting' = [hosting EXCEPT !.pc = to, !.due = FALSE]
    BY DEF HostResults, HostGoes
  <2> HIDE DEF to
  <2>3. QED
    BY <2>1, <2>2, Names DEF DirectTyped, HostRecord
<1>2. QED
  BY <1>1, TypedBy DEF HostResults, DirectTyped

LEMMA HostReleaseTyped == ASSUME DirectTyped, HostRelease PROVE DirectTyped'
<1>1. CASE ~granted.lease
  BY <1>1, HostQuitsTyped DEF HostRelease
<1>2. CASE granted.lease
  <2>1. hosting \in HostRecord /\ granted \in DriverRecord /\ hosting.last \in Seqs
    BY DEF DirectTyped, HostRecord
  <2>2. RadeonCpAdoptFence(granted, hosting.last) \in DriverRecord
    BY <2>1, PassedTyped
  <2>3. CASE /\ granted' = [RadeonCpAdoptFence(granted, hosting.last) EXCEPT !.lease = FALSE]
             /\ hosting' = [hosting EXCEPT !.pc = "closing", !.due = FALSE, !.ok = cpring.scratch = hosting.last]
             /\ UNCHANGED <<block, cached, child, cpring, orphan>>
    <3>1. granted' \in DriverRecord
      BY <2>2, <2>3, FreedTyped
    <3> DEFINE ok == cpring.scratch = hosting.last
    <3>2. ok \in BOOLEAN
      OBVIOUS
    <3>3. hosting' = [hosting EXCEPT !.pc = "closing", !.due = FALSE, !.ok = ok]
      BY <2>3
    <3> HIDE DEF ok
    <3>4. hosting' \in HostRecord
      BY <2>1, <3>2, <3>3, Names DEF HostRecord
    <3>5. QED
      BY <2>3, <3>1, <3>4, TypedBy DEF DirectTyped
  <2>4. CASE RecoverRing(granted) /\ HostGoes("checked", "closing")
             /\ UNCHANGED <<block, cached, child, orphan>>
    BY <2>1, <2>4, RecoverTyped, Names, TypedBy DEF HostGoes, HostRecord, DirectTyped
  <2>5. QED
    BY <1>2, <2>3, <2>4 DEF HostRelease
<1>3. QED
  BY <1>1, <1>2

LEMMA HostCloseTyped == ASSUME DirectTyped, HostClose PROVE DirectTyped'
<1>1. hosting' \in HostRecord
  BY Names DEF HostClose, HostGoes, DirectTyped, HostRecord
<1>2. granted' \in DriverRecord
  BY PassedTyped, Names, FreedTyped DEF DirectTyped, HostClose
<1>3. orphan' \in BOOLEAN
  BY DEF HostClose
<1>4. QED
  BY <1>1, <1>2, <1>3, TypedBy DEF HostClose, DirectTyped

LEMMA ChildFailsTyped ==
  ASSUME DirectTyped, NEW from, NEW stage \in Stages, ChildFails(from, stage)
  PROVE  DirectTyped'
<1>1. child' \in ChildRecord
  BY Names DEF ChildFails, DirectTyped, ChildRecord
<1>2. QED
  BY <1>1, TypedBy DEF ChildFails, DirectTyped

LEMMA ChildGoesTyped ==
  ASSUME DirectTyped, NEW from, NEW to \in ChildPcs, ChildGoes(from, to),
         UNCHANGED <<hosting, cpring, granted, orphan>>,
         block' \in BlockRecord, CachedTyped(cached')
  PROVE  DirectTyped'
<1>1. child' \in ChildRecord
  BY DEF ChildGoes, DirectTyped, ChildRecord
<1>2. QED
  BY <1>1, TypedBy DEF DirectTyped

LEMMA HostGoesTyped ==
  ASSUME DirectTyped, NEW from, NEW to \in HostPcs, HostGoes(from, to),
         UNCHANGED <<cached, child, cpring, granted, orphan>>, block' \in BlockRecord
  PROVE  DirectTyped'
<1>1. hosting' \in HostRecord
  BY Names DEF HostGoes, DirectTyped, HostRecord
<1>2. QED
  BY <1>1, TypedBy DEF DirectTyped

LEMMA ChildReserveTyped == ASSUME DirectTyped, ChildReserve PROVE DirectTyped'
<1>1. CASE ChildGoes("reserve", "write") /\ UNCHANGED <<block, cached, hosting, cpring, granted, orphan>>
  BY <1>1, Names, ChildGoesTyped DEF DirectTyped
<1>2. CASE ChildFails("reserve", "reserve")
  BY <1>2, Names, ChildFailsTyped
<1>3. QED
  BY <1>1, <1>2 DEF ChildReserve

LEMMA ChildSeqTyped ==
  ASSUME child \in ChildRecord
  PROVE  ChildSeq \in Seqs /\ ChildSeq = NthSeq(child.next, child.batch)
<1>1. ChildSeq = NthSeq(child.next, child.batch)
  BY DEF ChildSeq, NthSeq
<1>2. child.next \in Seqs /\ child.batch \in Int
  BY DEF ChildRecord
<1>3. QED
  BY <1>1, <1>2, NthSeqTyped

(* The stores of the child.                                                 *)
LEMMA ChildWriteTyped == ASSUME DirectTyped, ChildWrite PROVE DirectTyped'
<1>1. CASE ChildFails("back", "readback")
  BY <1>1, Names, ChildFailsTyped
<1> DEFINE seq == ChildSeq
           first == FirstRun
<1>2. child \in ChildRecord /\ cpring \in RingRecord /\ seq \in Seqs /\ child.wptr \in Places
  BY ChildSeqTyped DEF DirectTyped, ChildRecord
<1>3. first \in 1 .. 4
  BY <1>2, RingConsts DEF Places, FirstRun
<1> HIDE DEF seq, first
<1>4. CASE /\ child.pc = "write" /\ child' = [child EXCEPT !.pc = IF first < BatchUnits THEN "rest" ELSE "back"]
           /\ cpring' = [cpring EXCEPT !.words = WriteBatch(@, child.wptr, seq, 1, first)]
           /\ orphan' = ~granted.lease /\ UNCHANGED <<block, cached, hosting, granted>>
  <2> DEFINE to == IF first < BatchUnits THEN "rest" ELSE "back"
             ws == WriteBatch(cpring.words, child.wptr, seq, 1, first)
  <2>1. to \in ChildPcs /\ child' = [child EXCEPT !.pc = to] /\ cpring' = [cpring EXCEPT !.words = ws]
    BY <1>4, Names
  <2>2. ws \in [Places -> Units]
    <3> DEFINE one == 1
    <3>1. one \in 1 .. 5 /\ first \in 0 .. 4 /\ ws = WriteBatch(cpring.words, child.wptr, seq, one, first)
      BY <1>3
    <3> HIDE DEF one, ws
    <3>2. QED
      BY <1>2, <3>1, BatchTyped
  <2>3. orphan' \in BOOLEAN
    BY <1>4
  <2> HIDE DEF to, ws
  <2>4. child' \in ChildRecord /\ cpring' \in RingRecord
    BY <1>2, <2>1, <2>2 DEF ChildRecord, RingRecord
  <2>5. QED
    BY <1>4, <2>3, <2>4, TypedBy DEF DirectTyped
<1>5. CASE /\ ChildGoes("rest", "back")
           /\ cpring' = [cpring EXCEPT !.words = WriteBatch(@, child.wptr, seq, first + 1, BatchUnits)]
           /\ orphan' = ~granted.lease /\ UNCHANGED <<block, cached, hosting, granted>>
  <2> DEFINE ws == WriteBatch(cpring.words, child.wptr, seq, first + 1, BatchUnits)
  <2>1. cpring' = [cpring EXCEPT !.words = ws]
    BY <1>5
  <2>2. ws \in [Places -> Units]
    <3> DEFINE f == first + 1
               u == BatchUnits
    <3>1. f \in 1 .. 5 /\ u \in 0 .. 4 /\ ws = WriteBatch(cpring.words, child.wptr, seq, f, u)
      BY <1>3, RingConsts
    <3> HIDE DEF f, u, ws
    <3>2. QED
      BY <1>2, <3>1, BatchTyped
  <2>3. orphan' \in BOOLEAN
    BY <1>5
  <2> HIDE DEF ws
  <2>4. child' \in ChildRecord /\ cpring' \in RingRecord
    BY <1>2, <1>5, <2>1, <2>2, Names DEF ChildGoes, ChildRecord, RingRecord
  <2>5. QED
    BY <1>5, <2>3, <2>4, TypedBy DEF DirectTyped
<1>6. QED
  BY <1>1, <1>4, <1>5 DEF ChildWrite, seq, first

LEMMA ChildCommitTyped ==
  ASSUME DirectTyped, ChildCommit, child.batch = child.submits
  PROVE  DirectTyped' /\ Committed(cpring, child, cpring', child')
<1> DEFINE to == (child.wptr + BatchUnits) % RingUnits
           seq == ChildSeq
           n == child.submits + 1
           pc == IF child.batch + 1 < child.batches THEN "reserve" ELSE "fence"
<1>1. /\ cpring' = [cpring EXCEPT !.wptr = to] /\ orphan' = ~granted.lease
      /\ UNCHANGED <<block, cached, hosting, granted>>
      /\ \/ child' = [child EXCEPT !.wptr = to, !.last = seq, !.submits = n, !.batch = n, !.pc = pc]
         \/ child' = [child EXCEPT !.pc = "result", !.stage = "wptr"]
  BY DEF ChildCommit
<1>2. /\ child \in ChildRecord /\ cpring \in RingRecord /\ seq \in Seqs /\ seq = NthSeq(child.next, child.batch)
      /\ child.wptr \in Places /\ n \in Nat
  BY ChildSeqTyped DEF DirectTyped, ChildRecord
<1>3. to \in Places /\ to = (child.wptr + 4) % RingUnits
  BY RingConsts, <1>2, PlaceIs
<1>4. pc \in ChildPcs /\ orphan' \in BOOLEAN
  BY <1>1, Names
<1>5. \/ child' = [child EXCEPT !.wptr = to, !.last = NthSeq(child.next, child.batch), !.submits = @ + 1, !.batch = @ + 1, !.pc = pc]
      \/ child' = [child EXCEPT !.pc = "result", !.stage = "wptr"]
  BY <1>1, <1>2
<1> HIDE DEF to, seq, n
<1>6. cpring' \in RingRecord /\ cpring'.wptr = to /\ cpring'.rptr = cpring.rptr /\ cpring'.words = cpring.words
      /\ cpring'.scratch = cpring.scratch
  BY <1>1, <1>2, <1>3 DEF RingRecord
<1>7. Committed(cpring, child, cpring', child')
  BY <1>3, <1>5, <1>6 DEF Committed
<1> HIDE DEF pc
<1>8. child' \in ChildRecord
  <2>1. CASE child' = [child EXCEPT !.wptr = to, !.last = seq, !.submits = n, !.batch = n, !.pc = pc]
    BY <2>1, <1>2, <1>3, <1>4 DEF ChildRecord
  <2>2. CASE child' = [child EXCEPT !.pc = "result", !.stage = "wptr"]
    BY <2>2, <1>2, Names DEF ChildRecord
  <2>3. QED
    BY <1>1, <2>1, <2>2
<1>9. QED
  BY <1>1, <1>4, <1>6, <1>7, <1>8, TypedBy DEF DirectTyped

LEMMA ChildRetireTyped == ASSUME DirectTyped, ChildRetire PROVE DirectTyped'
<1>1. CASE ChildFails("fence", "fence")
  BY <1>1, Names, ChildFailsTyped
<1>2. CASE /\ child' = [child EXCEPT !.pc = "result", !.retired = TRUE]
           /\ UNCHANGED <<block, cached, hosting, cpring, granted, orphan>>
  BY <1>2, Names, TypedBy DEF DirectTyped, ChildRecord
<1>3. QED
  BY <1>1, <1>2 DEF ChildRetire

(* phase3host.                                                              *)
LEMMA HostStartTyped == ASSUME DirectTyped, HostStart PROVE DirectTyped'
<1>1. hosting' \in HostRecord
  <2>1. hosting.run + 1 \in Nat
    BY DEF DirectTyped, HostRecord
  <2>2. PICK n \in BatchCounts : hosting' = [NoHost EXCEPT !.pc = "opened", !.run = hosting.run + 1, !.batches = n]
    BY DEF HostStart
  <2>3. n \in BatchNumbers
    BY Names
  <2>4. QED
    BY <2>1, <2>2, <2>3, NoneTyped, Names DEF HostRecord
<1>2. QED
  BY <1>1, TypedBy DEF HostStart, DirectTyped

LEMMA PublishHeadTyped ==
  ASSUME DirectTyped, NEW from, NEW to \in HostPcs, PublishHead(from, to)
  PROVE  DirectTyped'
<1>1. block' \in BlockRecord
  BY Names DEF PublishHead, DirectTyped, BlockRecord
<1>2. QED
  BY <1>1, HostGoesTyped DEF PublishHead

LEMMA PublishTailTyped ==
  ASSUME DirectTyped, NEW from, NEW to \in HostPcs, NEW ring \in Nat, NEW fence \in Seqs,
         PublishTail(from, to, ring, fence)
  PROVE  DirectTyped'
<1>1. block' \in BlockRecord
  <2> DEFINE bar == ring # 0
  <2>1. bar \in BOOLEAN /\ hosting.run \in Nat /\ hosting.batches \in Nat
    BY Names DEF DirectTyped, HostRecord
  <2>2. block' = [block EXCEPT !.gen = hosting.run, !.ring = ring, !.bar = bar, !.fence = fence, !.batches = hosting.batches]
    BY DEF PublishTail
  <2> HIDE DEF bar
  <2>3. QED
    BY <2>1, <2>2 DEF DirectTyped, BlockRecord
<1>2. QED
  BY <1>1, HostGoesTyped DEF PublishTail

LEMMA HostPublishTyped == ASSUME DirectTyped, HostPublish PROVE DirectTyped'
<1>1. CASE PublishHead("opened", "announcing")
  BY <1>1, PublishHeadTyped, Names
<1>2. CASE PublishTail("announcing", "arrival", 0, 0)
  BY <1>2, PublishTailTyped, Names
<1>3. QED
  BY <1>1, <1>2 DEF HostPublish

LEMMA HostArrivalTyped == ASSUME DirectTyped, HostArrival PROVE DirectTyped'
<1>1. block' \in BlockRecord /\ "leasing" \in HostPcs
  BY Names DEF HostArrival, DirectTyped
<1>2. QED
  BY <1>1, HostGoesTyped DEF HostArrival

LEMMA HostGrantTyped == ASSUME DirectTyped, HostGrant PROVE DirectTyped'
<1>1. CASE HostQuits("acquired")
  BY <1>1, HostQuitsTyped
<1>2. CASE PublishHead("acquired", "filling")
  BY <1>2, PublishHeadTyped, Names
<1>3. CASE PublishTail("filling", "flagging", hosting.run, hosting.next)
  BY <1>3, PublishTailTyped, Names DEF DirectTyped, HostRecord
<1> DEFINE last == LET n == SeqSum(hosting.next, hosting.batches - 1) IN IF n = 0 THEN 1 ELSE n
<1>4. CASE /\ block' = [block EXCEPT !.ready = TRUE]
           /\ hosting' = [hosting EXCEPT !.pc = "waiting", !.due = FALSE, !.renew = 0, !.last = last]
           /\ UNCHANGED <<cached, child, cpring, granted, orphan>>
  <2>1. last \in Seqs
    <3>0. hosting.next \in Seqs /\ hosting.batches \in Nat
      BY Names DEF DirectTyped, HostRecord
    <3>1. hosting.next \in Seqs /\ hosting.batches - 1 \in Int
      BY <3>0
    <3>2. NthSeq(hosting.next, hosting.batches - 1) \in Seqs
      BY <3>1, NthSeqTyped
    <3>3. QED
      BY <3>2 DEF NthSeq
  <2> HIDE DEF last
  <2>2. hosting' \in HostRecord
    BY <1>4, <2>1, Names DEF DirectTyped, HostRecord
  <2>3. block' \in BlockRecord
    BY <1>4, Names DEF DirectTyped, BlockRecord
  <2>4. QED
    BY <1>4, <2>2, <2>3, TypedBy DEF DirectTyped
<1>5. QED
  BY <1>1, <1>2, <1>3, <1>4 DEF HostGrant

LEMMA HostWaitTyped == ASSUME DirectTyped, HostWait PROVE DirectTyped'
<1> DEFINE renew == IF hosting.renew > 0 THEN 0 ELSE hosting.renew
<1>1. renew \in Nat
  BY DEF DirectTyped, HostRecord
<1>2. hosting' = [hosting EXCEPT !.due = FALSE, !.renew = renew]
  BY DEF HostWait
<1> HIDE DEF renew
<1>3. hosting' \in HostRecord
  BY <1>1, <1>2, Names DEF DirectTyped, HostRecord
<1>4. HeartbeatLease(granted) \in DriverRecord
  BY Names DEF HeartbeatLease, DirectTyped, DriverRecord
<1>5. granted' \in DriverRecord
  BY <1>4 DEF HostWait, DirectTyped
<1>6. QED
  BY <1>3, <1>5, TypedBy DEF DirectTyped, HostWait

(* ppcphase3.                                                               *)
LEMMA ClearedGood == CachedTyped([l \in Lines |-> {}])
BY DEF CachedTyped, Lines

LEMMA ChildStartTyped == ASSUME DirectTyped, ChildStart PROVE DirectTyped'
<1>1. child' \in ChildRecord
  <2>1. child.runs + 1 \in Nat
    BY DEF DirectTyped, ChildRecord
  <2>2. QED
    BY <2>1, NoneTyped, Names DEF ChildStart, ChildRecord
<1>2. CachedTyped(cached')
  BY ClearedGood DEF ChildStart
<1>3. QED
  BY <1>1, <1>2, TypedBy DEF ChildStart, DirectTyped

(* A flush of lines and a load from the first of them.                      *)
LEMMA FreshLoad ==
  ASSUME DirectTyped, NEW ls, "first" \in ls
  PROVE  /\ CachedTyped(Loaded("first", P0FlushRange(ls)))
         /\ Load("first", P0FlushRange(ls)) = FirstLine
         /\ Loaded("first", P0FlushRange(ls))["first"] # {}
         /\ HeldLine(Loaded("first", P0FlushRange(ls)), "first") = FirstLine
         /\ Loaded("first", P0FlushRange(ls))["second"] = (IF "second" \in ls THEN {} ELSE cached["second"])
<1> DEFINE c == P0FlushRange(ls)
           l == "first"
<1>1. CachedTyped(c) /\ (\A m \in Lines : c[m] = IF m \in ls THEN {} ELSE cached[m])
  BY Flushing DEF DirectTyped
<1>2. block \in BlockRecord /\ l \in Lines /\ "second" \in Lines /\ "second" # l
  BY DEF DirectTyped, Lines
<1>3. c[l] = {} /\ c["second"] = IF "second" \in ls THEN {} ELSE cached["second"]
  BY <1>1, <1>2
<1>4. LineNow(l) = FirstLine
  BY DEF LineNow
<1> HIDE DEF c, l
<1>5. /\ CachedTyped(Loaded(l, c)) /\ (c[l] = {} => Load(l, c) = LineNow(l))
      /\ Loaded(l, c)[l] # {} /\ HeldLine(Loaded(l, c), l) = Load(l, c)
      /\ \A m \in Lines : m # l => Loaded(l, c)[m] = c[m]
  BY <1>1, <1>2, Loading
<1>6. Loaded(l, c)["second"] = c["second"]
  BY <1>2, <1>5
<1>7. QED
  BY <1>3, <1>4, <1>5, <1>6 DEF c, l

LEMMA ChildValidateTyped == ASSUME DirectTyped, ChildValidate PROVE DirectTyped'
<1> DEFINE to == IF Load("first", P0FlushRange({"first"})).magic THEN "clear" ELSE "idle"
<1>1. to \in ChildPcs
  BY Names
<1>2. ChildGoes("validate", to) /\ block' = block /\ UNCHANGED <<hosting, cpring, granted, orphan>>
  BY DEF ChildValidate
<1>3. CachedTyped(cached') /\ block' \in BlockRecord
  BY <1>2, FreshLoad DEF ChildValidate, DirectTyped
<1> HIDE DEF to
<1>4. QED
  BY <1>1, <1>2, <1>3, ChildGoesTyped

LEMMA ChildClearTyped == ASSUME DirectTyped, ChildClear PROVE DirectTyped'
<1>1. block' \in BlockRecord
  BY Names DEF ChildClear, ClearRegion, DirectTyped, BlockRecord
<1>2. "echo" \in ChildPcs /\ CachedTyped(cached')
  BY Names DEF ChildClear, DirectTyped
<1>3. QED
  BY <1>1, <1>2, ChildGoesTyped DEF ChildClear

LEMMA ChildEchoTyped == ASSUME DirectTyped, ChildEcho PROVE DirectTyped'
<1>1. CASE ChildGoes("present", "poll") /\ block' = [block EXCEPT !.present = TRUE]
           /\ UNCHANGED <<cached, hosting, cpring, granted, orphan>>
  BY <1>1, Names, ChildGoesTyped DEF DirectTyped, BlockRecord
<1> DEFINE gen == Load("first", P0FlushRange({"first"})).gen
<1>2. CASE /\ cached' = Loaded("first", P0FlushRange({"first"}))
              /\ child' = [child EXCEPT !.pc = "present", !.gen = gen]
           /\ block' = [block EXCEPT !.echo = gen] /\ UNCHANGED <<hosting, cpring, granted, orphan>>
  <2>1. gen \in Nat /\ CachedTyped(cached')
    BY FreshLoad, <1>2 DEF FirstLine, DirectTyped, BlockRecord
  <2> HIDE DEF gen
  <2>2. block' \in BlockRecord /\ child' \in ChildRecord
    BY <1>2, <2>1, Names DEF DirectTyped, BlockRecord, ChildRecord
  <2>3. QED
    BY <1>2, <2>1, <2>2, TypedBy DEF DirectTyped
<1>3. QED
  BY <1>1, <1>2 DEF ChildEcho

LEMMA ChildStops ==
  ASSUME DirectTyped, NEW stage \in Stages, child' = [child EXCEPT !.pc = "result", !.stage = stage]
  PROVE  child' \in ChildRecord
BY Names DEF DirectTyped, ChildRecord

LEMMA ChildPollTyped == ASSUME DirectTyped, ChildPoll PROVE DirectTyped'
<1>1. UNCHANGED <<block, hosting, cpring, granted, orphan>>
      /\ cached' = Loaded("first", P0FlushRange({"first"}))
  BY DEF ChildPoll, PollLines
<1>2. CachedTyped(cached')
  BY <1>1, FreshLoad
<1>3. child' \in ChildRecord
  <2>1. CASE ChildGoes("poll", "range")
    BY <2>1, Names DEF ChildGoes, DirectTyped, ChildRecord
  <2>2. CASE child' = child
    BY <2>2 DEF DirectTyped
  <2>3. CASE child' = [child EXCEPT !.pc = "result", !.stage = "host_wait"]
    BY <2>3, Names, ChildStops
  <2>4. QED
    BY <2>1, <2>2, <2>3 DEF ChildPoll
<1>4. QED
  BY <1>1, <1>2, <1>3, TypedBy DEF DirectTyped

(* Both forms of the child take a grant alike.                              *)
TakesGrant(first, second) ==
  child' = IF first.ring = 0 \/ ~second.bar THEN [child EXCEPT !.pc = "result", !.stage = "ring_range"]
           ELSE [child EXCEPT !.pc = "reserve", !.grant = first.ring,
                   !.next = IF second.fence = 0 THEN 1 ELSE second.fence,
                   !.batches = IF second.batches = 0 THEN BatchDefault ELSE second.batches,
                   !.wptr = cpring.wptr]

LEMMA TakingTyped ==
  ASSUME DirectTyped, NEW first \in FirstLines, NEW second \in SecondLines, TakesGrant(first, second)
  PROVE  child' \in ChildRecord
<1> DEFINE ring == first.ring
           next == IF second.fence = 0 THEN 1 ELSE second.fence
           batches == IF second.batches = 0 THEN BatchDefault ELSE second.batches
           w == cpring.wptr
<1>1. ring \in Nat /\ next \in Seqs /\ batches \in Nat /\ w \in Places
  BY Names DEF FirstLines, SecondLines, DirectTyped, RingRecord
<1>2. \/ child' = [child EXCEPT !.pc = "result", !.stage = "ring_range"]
      \/ child' = [child EXCEPT !.pc = "reserve", !.grant = ring, !.next = next, !.batches = batches, !.wptr = w]
  BY DEF TakesGrant
<1> HIDE DEF ring, next, batches, w
<1>3. CASE child' = [child EXCEPT !.pc = "result", !.stage = "ring_range"]
  BY <1>3, Names, ChildStops
<1>4. CASE child' = [child EXCEPT !.pc = "reserve", !.grant = ring, !.next = next, !.batches = batches, !.wptr = w]
  BY <1>1, <1>4, Names DEF DirectTyped, ChildRecord
<1>5. QED
  BY <1>2, <1>3, <1>4

LEMMA ChildDescriptorsTyped ==
  ASSUME DirectTyped, ChildDescriptors
  PROVE  DirectTyped' /\ TakesGrant(FirstLine, SecondLine)
<1> DEFINE f == P0FlushRange({"first", "second"})
           c == Loaded("first", f)
           l == "second"
<1>1. CachedTyped(c) /\ c["second"] = {} /\ Load("first", f) = FirstLine
  <2> DEFINE ls == {"first", "second"}
  <2>1. "first" \in ls /\ "second" \in ls
    OBVIOUS
  <2> HIDE DEF ls
  <2>2. CachedTyped(Loaded("first", P0FlushRange(ls))) /\ Load("first", P0FlushRange(ls)) = FirstLine
        /\ Loaded("first", P0FlushRange(ls))["second"] = (IF "second" \in ls THEN {} ELSE cached["second"])
    BY <2>1, FreshLoad
  <2>3. QED
    BY <2>1, <2>2 DEF ls
<1>2. f["second"] = {}
  BY Flushing DEF DirectTyped, Lines
<1>3. Load("second", f) = SecondLine
  BY <1>2 DEF Load, LineNow
<1>4. block \in BlockRecord /\ l \in Lines
  BY DEF DirectTyped, Lines
<1>5. CachedTyped(Loaded(l, c))
  <2> HIDE DEF c, l
  <2>1. QED
    BY <1>1, <1>4, Loading
<1>6. TakesGrant(FirstLine, SecondLine) /\ cached' = Loaded("second", c)
      /\ UNCHANGED <<block, hosting, cpring, granted, orphan>>
  BY <1>1, <1>3 DEF ChildDescriptors, TakesGrant
<1>7. FirstLine \in FirstLines /\ SecondLine \in SecondLines
  BY <1>4, LinesTyped DEF LineNow
<1>8. child' \in ChildRecord
  BY <1>6, <1>7, TakingTyped
<1>9. QED
  BY <1>5, <1>6, <1>8, TypedBy DEF DirectTyped

LEMMA ChildPublishTyped == ASSUME DirectTyped, ChildPublish PROVE DirectTyped'
<1>1. CASE ChildGoes("result", "done") /\ block' = PpcPublishResults(block)
           /\ UNCHANGED <<cached, hosting, cpring, granted, orphan>>
  BY Names, <1>1, ChildGoesTyped DEF DirectTyped, ChildRecord, PpcPublishResults, BlockRecord
<1>2. CASE ChildGoes("done", "idle") /\ block' = [block EXCEPT !.done = TRUE]
           /\ UNCHANGED <<cached, hosting, cpring, granted, orphan>>
  BY <1>2, Names, ChildGoesTyped DEF DirectTyped, BlockRecord
<1>3. QED
  BY <1>1, <1>2 DEF ChildPublish

(* phase2host.                                                              *)
LEMMA OneHostStartTyped == ASSUME DirectTyped, OneHostStart PROVE DirectTyped'
<1>1. hosting' \in HostRecord
  <2>1. hosting.run + 1 \in Nat
    BY DEF DirectTyped, HostRecord
  <2>2. QED
    BY <2>1, NoneTyped, Names DEF OneHostStart, HostRecord
<1>2. block' \in BlockRecord
  BY NoneTyped, Names DEF OneHostStart, BlockRecord
<1>3. QED
  BY <1>1, <1>2, TypedBy DEF OneHostStart, DirectTyped

LEMMA OneHostArrivalTyped == ASSUME DirectTyped, OneHostArrival PROVE DirectTyped'
<1>1. CASE HostGoes("arrival", "leasing") /\ UNCHANGED <<block, cached, child, cpring, granted, orphan>>
  BY <1>1, Names, HostGoesTyped DEF DirectTyped
<1>2. QED
  BY <1>1, HostQuitsTyped DEF OneHostArrival

LEMMA OnePublishFirstTyped == ASSUME DirectTyped, OnePublishFirst PROVE DirectTyped'
<1>1. block' \in BlockRecord
  BY Names DEF DirectTyped, HostRecord, OnePublishFirst, BlockRecord
<1>2. "filling" \in HostPcs
  BY Names
<1>3. QED
  BY <1>1, <1>2, HostGoesTyped DEF OnePublishFirst

LEMMA OnePublishSecondTyped == ASSUME DirectTyped, OnePublishSecond PROVE DirectTyped'
<1>1. block' \in BlockRecord
  BY Names DEF DirectTyped, HostRecord, OnePublishSecond, BlockRecord
<1>2. "flagging" \in HostPcs
  BY Names
<1>3. QED
  BY <1>1, <1>2, HostGoesTyped DEF OnePublishSecond

LEMMA PublishHostDoneTyped == ASSUME DirectTyped, PublishHostDone PROVE DirectTyped'
<1> DEFINE last == LET n == SeqSum(hosting.next, BatchDefault - 1) IN IF n = 0 THEN 1 ELSE n
<1>1. last \in Seqs
  BY RingConsts, NthSeqTyped DEF DirectTyped, HostRecord, NthSeq
<1>2. hosting' = [hosting EXCEPT !.pc = "waiting", !.due = FALSE, !.last = last]
  BY DEF PublishHostDone
<1> HIDE DEF last
<1>3. hosting' \in HostRecord
  BY <1>1, <1>2, Names DEF DirectTyped, HostRecord
<1>4. block' \in BlockRecord
  BY Names DEF PublishHostDone, DirectTyped, BlockRecord
<1>5. QED
  BY <1>3, <1>4, TypedBy DEF PublishHostDone, DirectTyped

LEMMA OneHostWaitTyped == ASSUME DirectTyped, OneHostWait PROVE DirectTyped'
<1>1. hosting' \in HostRecord
  BY Names DEF OneHostWait, DirectTyped, HostRecord
<1>2. QED
  BY <1>1, TypedBy DEF OneHostWait, DirectTyped

(* ppcphase2.                                                               *)
LEMMA OneStartTyped == ASSUME DirectTyped, OneStart PROVE DirectTyped'
<1>1. child' \in ChildRecord
  <2>1. child.runs + 1 \in Nat /\ hosting.run \in Nat
    BY DEF DirectTyped, ChildRecord, HostRecord
  <2>2. QED
    BY <2>1, NoneTyped, Names DEF OneStart, ChildRecord
<1>2. QED
  BY <1>1, TypedBy DEF OneStart, DirectTyped

LEMMA StaleLoad ==
  ASSUME DirectTyped, NEW l \in Lines
  PROVE  /\ CachedTyped(Loaded(l, cached))
         /\ Load(l, cached) \in IF l = "first" THEN FirstLines ELSE SecondLines
         /\ cached[l] = {} => Load(l, cached) = LineNow(l)
         /\ cached[l] # {} => Load(l, cached) = HeldLine(cached, l)
         /\ Loaded(l, cached)[l] # {} /\ HeldLine(Loaded(l, cached), l) = Load(l, cached)
         /\ \A m \in Lines : m # l => Loaded(l, cached)[m] = cached[m]
BY Loading DEF DirectTyped

LEMMA OneValidateTyped == ASSUME DirectTyped, OneValidate PROVE DirectTyped'
<1> DEFINE to == IF Load("first", cached).magic THEN "mark" ELSE "idle"
<1>1. to \in ChildPcs
  BY Names
<1>2. ChildGoes("validate", to) /\ block' = block /\ UNCHANGED <<hosting, cpring, granted, orphan>>
  BY DEF OneValidate
<1>3. CachedTyped(cached') /\ block' \in BlockRecord
  BY <1>2, StaleLoad DEF OneValidate, DirectTyped, Lines
<1> HIDE DEF to
<1>4. QED
  BY <1>1, <1>2, <1>3, ChildGoesTyped

LEMMA OneMarkTyped == ASSUME DirectTyped, OneMark PROVE DirectTyped'
<1>1. CachedTyped(cached') /\ "poll" \in ChildPcs
  BY StaleLoad, Names DEF OneMark, Lines
<1>2. block' \in BlockRecord
  BY Names DEF OneMark, DirectTyped, BlockRecord
<1>3. QED
  BY <1>1, <1>2, ChildGoesTyped DEF OneMark

LEMMA OnePollTyped == ASSUME DirectTyped, OnePoll PROVE DirectTyped'
<1>1. UNCHANGED <<block, hosting, cpring, granted, orphan>> /\ cached' = Loaded("first", P0FlushRange(Lines))
  BY DEF OnePoll, Flushed
<1>2. CachedTyped(cached')
  <2>1. "first" \in Lines
    BY DEF Lines
  <2>2. QED
    BY <1>1, <2>1, FreshLoad
<1>3. child' \in ChildRecord
  <2>1. CASE ChildGoes("poll", "range")
    BY <2>1, Names DEF ChildGoes, DirectTyped, ChildRecord
  <2>2. CASE child' = child
    BY <2>2 DEF DirectTyped
  <2>3. CASE child' = [child EXCEPT !.pc = "result", !.stage = "reserve"]
    BY <2>3, Names, ChildStops
  <2>4. QED
    BY <2>1, <2>2, <2>3 DEF OnePoll
<1>4. QED
  BY <1>1, <1>2, <1>3, TypedBy DEF DirectTyped

LEMMA OneDescriptorsTyped ==
  ASSUME DirectTyped, OneDescriptors
  PROVE  DirectTyped' /\ TakesGrant(Load("first", cached), Load("second", cached))
<1>1. /\ TakesGrant(Load("first", cached), Load("second", cached))
      /\ cached' = Loaded("second", cached) /\ UNCHANGED <<block, hosting, cpring, granted, orphan>>
  BY DEF OneDescriptors, TakesGrant
<1>2. Load("first", cached) \in FirstLines /\ Load("second", cached) \in SecondLines /\ CachedTyped(cached')
  BY <1>1, StaleLoad DEF Lines
<1>3. child' \in ChildRecord
  BY <1>1, <1>2, TakingTyped
<1>4. QED
  BY <1>1, <1>2, <1>3, TypedBy DEF DirectTyped

LEMMA OnePublishTyped == ASSUME DirectTyped, OnePublish PROVE DirectTyped'
<1>1. CASE /\ ChildGoes("result", "done")
           /\ block' = [block EXCEPT !.submits = child.submits, !.last = child.last, !.retired = child.retired, !.stage = child.stage]
           /\ UNCHANGED <<cached, hosting, cpring, granted, orphan>>
  BY Names, <1>1, ChildGoesTyped DEF DirectTyped, ChildRecord, BlockRecord
<1>2. CASE ChildGoes("done", "idle") /\ block' = [block EXCEPT !.done = TRUE]
           /\ UNCHANGED <<cached, hosting, cpring, granted, orphan>>
  BY <1>2, Names, ChildGoesTyped DEF DirectTyped, BlockRecord
<1>3. QED
  BY <1>1, <1>2 DEF OnePublish
------------------------------------------------------------------------------
(* RingInv: one lemma for each action that moves the ring, the lease or the *)
(* child at work.                                                           *)

LEMMA RoomLeft ==
  ASSUME NEW q \in RingRecord, NEW k \in 1 .. 4, (q.rptr - q.wptr - 1) % RingUnits >= k
  PROVE  PendingUnits(q) + k < RingUnits
<1> DEFINE n == PendingUnits(q)
           w == q.wptr
           r == q.rptr
           R == RingUnits
<1>2. R \in Nat /\ R > 4 /\ w \in 0 .. R - 1 /\ r \in 0 .. R - 1
  BY RingConsts DEF RingRecord, Places
<1>3. n \in 0 .. R - 1 /\ n = (IF w >= r THEN w - r ELSE w - r + R)
  BY Distance
<1>4. (r - w - 1) % R >= k /\ k \in Int /\ k <= 4 /\ 1 <= k
  OBVIOUS
<1> SUFFICES n + k < R
  OBVIOUS
<1> HIDE DEF r, w, n
<1>5. CASE r = w
  BY <1>5, <1>2, <1>3, <1>4
<1>6. CASE r > w
  <2>1. (r - w - 1) % R = r - w - 1
    BY <1>6, <1>2, Z3
  <2>2. QED
    BY <2>1, <1>6, <1>2, <1>3, <1>4
<1>7. CASE r < w
  <2>1. (r - w - 1) % R = r - w - 1 + R
    <3>1. r - w - 1 + R \in 0 .. R - 1
      BY <1>7, <1>2
    <3>2. QED
      BY <3>1, <1>2, Z3
  <2>2. QED
    BY <2>1, <1>7, <1>2, <1>3, <1>4
<1>8. QED
  BY <1>5, <1>6, <1>7, <1>2

(* Steps that the ring does not notice.                                     *)
QuietHost ==
  /\ hosting'.run = hosting.run /\ hosting'.batches = hosting.batches
  /\ granted.lease => hosting'.next = hosting.next
QuietChild ==
  /\ child'.grant = child.grant /\ child'.submits = child.submits
  /\ child'.retired => child.retired
  /\ child'.stage = "ok" => child.stage = "ok"
  /\ child'.pc \in FillingPcs => /\ child'.pc = child.pc /\ child'.wptr = child.wptr
                               /\ child'.next = child.next /\ child'.batch = child.batch
QuietDriver ==
  granted'.lease = granted.lease /\ granted'.next = granted.next /\ granted'.write = granted.write
  /\ granted'.ready = granted.ready

LEMMA QuietKeeps ==
  ASSUME RingInv, ~orphan, QuietHost, QuietChild, QuietDriver, cpring' = cpring
  PROVE  RingInv'
<1> SUFFICES ASSUME granted'.ready PROVE RingAgrees(cpring, granted', hosting', child')
  BY DEF RingInv
<1>1. RingAgrees(cpring, granted, hosting, child)
  BY DEF RingInv, QuietDriver
<1> DEFINE h == hosting'
           g == granted'
           c == child'
<1>2. /\ g.lease = granted.lease /\ g.next = granted.next /\ g.write = granted.write
      /\ h.run = hosting.run /\ h.batches = hosting.batches /\ (granted.lease => h.next = hosting.next)
      /\ c.grant = child.grant /\ c.submits = child.submits /\ (c.retired => child.retired)
         /\ (c.stage = "ok" => child.stage = "ok")
      /\ c.pc \in FillingPcs =>
           c.pc = child.pc /\ c.wptr = child.wptr /\ c.next = child.next /\ c.batch = child.batch
  BY DEF QuietHost, QuietChild, QuietDriver
<1> HIDE DEF h, g, c
<1>3. RingAgrees(cpring, g, h, c)
  BY <1>1, <1>2, QuietRing
<1>4. QED
  BY <1>3 DEF g, h, c

LEMMA SameHost == ASSUME hosting' = hosting PROVE QuietHost
BY DEF QuietHost

LEMMA SameChild == ASSUME child' = child PROVE QuietChild
BY DEF QuietChild

LEMMA SameDriver == ASSUME granted' = granted PROVE QuietDriver
BY DEF QuietDriver

LEMMA HostGoesRing ==
  ASSUME CommonInv, ~orphan, NEW from, NEW to, HostGoes(from, to), UNCHANGED <<child, cpring, granted, orphan>>
  PROVE  RingInv'
<1>1. QuietHost
  BY DEF HostGoes, QuietHost, CommonInv, DirectTyped, HostRecord
<1>2. QED
  BY <1>1, SameChild, SameDriver, QuietKeeps DEF CommonInv

LEMMA HostQuitsRing == ASSUME CommonInv, ~orphan, NEW from, HostQuits(from) PROVE RingInv'
BY HostGoesRing DEF HostQuits

LEMMA ChildGoesRing ==
  ASSUME CommonInv, ~orphan, NEW from, NEW to, to \notin FillingPcs, ChildGoes(from, to),
         UNCHANGED <<hosting, cpring, granted, orphan>>
  PROVE  RingInv'
<1>1. QuietChild
  BY DEF ChildGoes, QuietChild, CommonInv, DirectTyped, ChildRecord
<1>2. QED
  BY <1>1, SameHost, SameDriver, QuietKeeps DEF CommonInv

LEMMA ChildStopsRing ==
  ASSUME CommonInv, ~orphan, NEW stage, stage # "ok", child' = [child EXCEPT !.pc = "result", !.stage = stage],
         UNCHANGED <<hosting, cpring, granted, orphan>>
  PROVE  RingInv'
<1>1. QuietChild
  BY DEF QuietChild, CommonInv, DirectTyped, ChildRecord, FillingPcs
<1>2. QED
  BY <1>1, SameHost, SameDriver, QuietKeeps DEF CommonInv

LEMMA ChildFailsRing ==
  ASSUME CommonInv, ~orphan, NEW from, NEW stage, stage # "ok", ChildFails(from, stage)
  PROVE  RingInv'
BY ChildStopsRing DEF ChildFails

LEMMA OwnSubmitRing == ASSUME CommonInv, ~orphan, OwnSubmit PROVE RingInv'
<1>1. DirectTyped'
  BY OwnSubmitTyped DEF CommonInv
<1>2. cpring \in RingRecord /\ cpring' \in RingRecord /\ granted \in DriverRecord /\ granted' \in DriverRecord
  BY <1>1 DEF CommonInv, DirectTyped
<1>3. /\ ~granted.lease /\ granted.ready /\ (cpring.rptr - granted.write - 1) % RingUnits >= 2
      /\ hosting' = hosting /\ child' = child
  BY DEF OwnSubmit, OwnUnits
<1>4. OwnSubmits(cpring, granted, cpring', granted')
  <2> DEFINE to == (granted.write + OwnUnits) % RingUnits
             at == (granted.write - BatchUnits + OwnUnits) % RingUnits
             ws == WriteBatch(cpring.words, at, granted.next, BatchUnits - OwnUnits + 1, BatchUnits)
             o == granted.own + 1
             n == SeqAfter(granted.next)
  <2>1. /\ cpring' = [cpring EXCEPT !.words = ws, !.wptr = to]
        /\ granted' = [granted EXCEPT !.write = to, !.own = o, !.next = n]
    BY DEF OwnSubmit
  <2>2. BatchUnits = 4 /\ OwnUnits = 2 /\ 4 - 2 + 1 = 3
    BY DEF BatchUnits, OwnUnits
  <2>3. /\ to = (granted.write + 2) % RingUnits
        /\ ws = WriteBatch(cpring.words, (granted.write - 4 + 2) % RingUnits, granted.next, 3, 4)
    BY <2>2
  <2> HIDE DEF to, at, ws, o, n
  <2>4. cpring'.rptr = cpring.rptr /\ cpring'.scratch = cpring.scratch /\ cpring'.wptr = to
        /\ cpring'.words = ws
    BY <1>2, <2>1 DEF RingRecord
  <2>5. granted'.write = to /\ granted'.next = n /\ granted'.lease = granted.lease
    BY <1>2, <2>1 DEF DriverRecord
  <2>6. QED
    BY <2>3, <2>4, <2>5 DEF OwnSubmits, n
<1>5. RingAgrees(cpring, granted, hosting, child)
  BY <1>3 DEF CommonInv, RingInv
<1>6. RingAgrees(cpring', granted', hosting, child)
  BY <1>2, <1>3, <1>4, <1>5, OwnRing
<1>7. QED
  BY <1>3, <1>6 DEF RingInv

LEMMA FetchUnitRing == ASSUME CommonInv, ~orphan, FetchUnit PROVE RingInv'
<1>1. DirectTyped' /\ UnitFetched(cpring, cpring')
  BY FetchUnitTyped DEF CommonInv
<1>2. /\ cpring \in RingRecord /\ cpring' \in RingRecord /\ granted \in DriverRecord
      /\ hosting \in HostRecord /\ child \in ChildRecord
  BY <1>1 DEF CommonInv, DirectTyped
<1>3. RingAgrees(cpring, granted, hosting, child) /\ cpring.rptr # cpring.wptr
      /\ UNCHANGED <<hosting, child, granted>>
  BY DEF CommonInv, RingInv, FetchUnit
<1>4. RingAgrees(cpring', granted, hosting, child)
  BY <1>1, <1>2, <1>3, FetchedRing
<1>5. QED
  BY <1>3, <1>4 DEF RingInv

LEMMA RecoverKeeps == ASSUME DirectTyped, NEW g \in DriverRecord, RecoverRing(g) PROVE RingInv'
<1>1. CASE granted' = [g EXCEPT !.ready = FALSE, !.lease = FALSE]
  <2>1. ~granted'.ready
    BY <1>1 DEF DriverRecord
  <2>2. QED
    BY <2>1 DEF RingInv
<1>2. CASE /\ granted' = [g EXCEPT !.next = 1, !.write = 0, !.lease = FALSE]
           /\ cpring' = [words |-> [p \in DOMAIN cpring.words |-> Unwritten], rptr |-> 0, wptr |-> 0, scratch |-> SeqRange - 3]
  <2>1. cpring' \in RingRecord
    BY RecoverTyped
  <2>2. cpring'.rptr = 0 /\ cpring'.wptr = 0 /\ cpring'.scratch = SeqRange - 3
    BY <1>2
  <2>3. granted'.next = 1 /\ granted'.write = 0 /\ ~granted'.lease
    BY <1>2 DEF DriverRecord
  <2>4. RingAgrees(cpring', granted', hosting', child')
    BY <2>1, <2>2, <2>3, FreshRing
  <2>5. QED
    BY <2>4 DEF RingInv
<1>3. QED
  BY <1>1, <1>2 DEF RecoverRing

LEMMA LeaseReclaimRing == ASSUME CommonInv, ~orphan, LeaseReclaim PROVE RingInv'
<1>1. RadeonCpAdoptFence(granted, 0) \in DriverRecord
  BY PassedTyped, Names DEF CommonInv, DirectTyped
<1>2. QED
  BY <1>1, RecoverKeeps DEF LeaseReclaim, CommonInv

LEMMA HalfSecondRing == ASSUME CommonInv, ~orphan, HalfSecond PROVE RingInv'
<1> DEFINE r == IF hosting.renew > 1 THEN hosting.renew ELSE hosting.renew + 1
           a == IF granted.age > ExpiryTicks THEN granted.age ELSE granted.age + 1
<1>1. hosting' = [hosting EXCEPT !.due = TRUE, !.renew = r] /\ granted' = [granted EXCEPT !.age = a]
  BY DEF HalfSecond
<1> HIDE DEF r, a
<1>2. QuietHost
  BY <1>1 DEF QuietHost, CommonInv, DirectTyped, HostRecord
<1>3. QuietDriver
  BY <1>1 DEF QuietDriver, CommonInv, DirectTyped, DriverRecord
<1>4. QED
  BY <1>2, <1>3, SameChild, QuietKeeps DEF HalfSecond, CommonInv

LEMMA HostAcquireRing == ASSUME CommonInv, ~orphan, HostAcquire PROVE RingInv'
<1>1. CASE HostQuits("leasing")
  BY <1>1, HostQuitsRing
<1>2. CASE /\ hosting.pc = "leasing" /\ hosting' = [hosting EXCEPT !.pc = "acquired", !.next = granted.next]
           /\ granted.ready /\ ~granted.lease /\ cpring.rptr = cpring.wptr
           /\ granted' = [granted EXCEPT !.lease = TRUE, !.age = 0]
           /\ UNCHANGED <<block, cached, child, cpring, orphan>>
  <2>1. hosting \in HostRecord /\ granted \in DriverRecord /\ cpring \in RingRecord /\ child \in ChildRecord
    BY DEF CommonInv, DirectTyped
  <2>2. hosting'.next = granted.next /\ hosting'.run = hosting.run
    BY <1>2, <2>1 DEF HostRecord
  <2>3. granted'.next = granted.next /\ granted'.write = granted.write
    BY <1>2, <2>1 DEF DriverRecord
  <2>4. child.grant # hosting.run /\ child.pc \notin WorkingPcs
    BY <1>2 DEF CommonInv, Granting
  <2>5. RingAgrees(cpring, granted, hosting, child)
    BY <1>2 DEF CommonInv, RingInv
  <2>6. RingAgrees(cpring, granted', hosting', child)
    BY <1>2, <2>1, <2>2, <2>3, <2>4, <2>5, AcquiredRing
  <2>7. QED
    BY <1>2, <2>6 DEF RingInv
<1>3. QED
  BY <1>1, <1>2 DEF HostAcquire

LEMMA HostReleaseRing == ASSUME CommonInv, ~orphan, HostRelease PROVE RingInv'
<1>1. CASE ~granted.lease
  BY <1>1, HostQuitsRing DEF HostRelease
<1>2. CASE granted.lease
  <2>1. hosting \in HostRecord /\ granted \in DriverRecord /\ hosting.last \in Seqs /\ cpring \in RingRecord
        /\ child \in ChildRecord
    BY DEF CommonInv, DirectTyped, HostRecord
  <2>2. hosting.pc = "checked"
    BY DEF HostRelease
  <2>3. CASE /\ granted' = [RadeonCpAdoptFence(granted, hosting.last) EXCEPT !.lease = FALSE]
             /\ UNCHANGED <<block, cached, child, cpring, orphan>>
    <3>1. /\ child.grant = hosting.run /\ child.retired /\ child.submits = hosting.batches
          /\ hosting.last = NthSeq(hosting.next, hosting.batches - 1) /\ granted.ready
          /\ hosting.next # 0 /\ hosting.next + hosting.batches - 1 <= SeqRange
      BY <1>2, <2>2 DEF CommonInv, Granting
    <3>2. hosting.batches \in Nat /\ hosting.batches > 0
      BY <3>1 DEF CommonInv, ChildShape, DirectTyped, ChildRecord
    <3>3. hosting.last # 0
      <4> DEFINE k == hosting.batches - 1
                 n == hosting.next
      <4>1. k \in Nat /\ n \in Seqs /\ n # 0 /\ n + k <= SeqRange
        BY <2>1, <3>1, <3>2 DEF HostRecord, Seqs
      <4> HIDE DEF k, n
      <4>2. NthSeq(n, k) \in Seqs \ {0}
        BY <4>1, NthIs
      <4>3. QED
        BY <4>2, <3>1 DEF k, n
    <3>4. ~granted'.lease /\ granted'.write = cpring.rptr /\ granted'.next = SeqAfter(hosting.last)
      BY <2>1, <2>3, <3>3 DEF RadeonCpAdoptFence, DriverRecord
    <3>5. RingAgrees(cpring, granted, hosting, child)
      BY <3>1 DEF CommonInv, RingInv
    <3>6. RingAgrees(cpring, granted', hosting', child)
      BY <1>2, <2>1, <3>1, <3>3, <3>4, <3>5, ReleasedRing
    <3>7. QED
      BY <2>3, <3>6 DEF RingInv
  <2>4. CASE RecoverRing(granted)
    BY <2>1, <2>4, RecoverKeeps DEF CommonInv
  <2>5. QED
    BY <1>2, <2>3, <2>4 DEF HostRelease
<1>3. QED
  BY <1>1, <1>2

LEMMA HostCloseRing == ASSUME CommonInv, ~orphan, HostClose PROVE RingInv'
<1> SUFFICES ASSUME ~orphan', granted'.ready PROVE RingAgrees(cpring', granted', hosting', child')
  BY DEF RingInv
<1>1. cpring' = cpring /\ child' = child /\ granted \in DriverRecord /\ child \in ChildRecord
  BY DEF HostClose, CommonInv, DirectTyped
<1>2. granted' = [granted EXCEPT !.lease = FALSE]
  BY PassedTyped, Names DEF HostClose, CommonInv, DirectTyped
<1>3. granted'.next = granted.next /\ granted'.write = granted.write /\ ~granted'.lease
      /\ granted'.ready = granted.ready
  BY <1>1, <1>2 DEF DriverRecord
<1>4. RingAgrees(cpring, granted, hosting, child)
  BY <1>3 DEF CommonInv, RingInv
<1>5. ~(granted.lease /\ child.grant = hosting.run /\ (child.submits > 0 \/ cpring.wptr # granted.write))
      /\ child.submits \in Nat
  BY <1>1 DEF HostClose, ChildRecord
<1>6. RingAgrees(cpring, granted', hosting', child)
  BY <1>3, <1>4, <1>5, GivenUpRing
<1>7. QED
  BY <1>1, <1>6

LEMMA ChildReserveRing == ASSUME CommonInv, ~orphan, ChildReserve PROVE RingInv'
<1>1. CASE ChildFails("reserve", "reserve")
  BY <1>1, ChildFailsRing
<1>2. CASE Reserved /\ ChildGoes("reserve", "write")
           /\ UNCHANGED <<block, cached, hosting, cpring, granted, orphan>>
  <2> SUFFICES ASSUME granted.ready PROVE RingAgrees(cpring, granted, hosting, child')
    BY <1>2 DEF RingInv
  <2>1. RingAgrees(cpring, granted, hosting, child)
    BY DEF CommonInv, RingInv
  <2>2. CASE ~granted.lease
    BY <2>1, <2>2, NoLeaseRing
  <2>3. CASE granted.lease
    <3>1. child.pc = "reserve" /\ cpring \in RingRecord /\ child \in ChildRecord
          /\ child' = [child EXCEPT !.pc = "write"]
      BY <1>2 DEF ChildGoes, CommonInv, DirectTyped
    <3>2. /\ child'.pc = "write" /\ child'.wptr = child.wptr /\ child'.grant = child.grant
             /\ child'.submits = child.submits
          /\ child'.retired = child.retired /\ child'.stage = child.stage
      BY <3>1 DEF ChildRecord
    <3>3. /\ WholeUnits(cpring) /\ Laying(cpring, granted, child) /\ hosting.next = granted.next
          /\ child.grant # hosting.run => PendingUnits(cpring) = 0
          /\ Untouched(cpring, granted, hosting, child) => Settled(cpring, granted)
          /\ child.grant = hosting.run /\ child.stage = "ok" => NumberedAs(cpring, hosting, child)
          /\ child.grant = hosting.run /\ child.retired /\ child.submits = hosting.batches =>
               AllExecuted(cpring, hosting)
      BY <2>1, <2>3 DEF RingAgrees
    <3>4. child.wptr = cpring.wptr /\ (child.submits = 0 => cpring.wptr = granted.write)
      BY <3>1, <3>3 DEF Laying, FillingPcs
    <3>5. PendingUnits(cpring) + BatchUnits < RingUnits
      <4> DEFINE k == 4
      <4>1. k \in 1 .. 4 /\ (cpring.rptr - cpring.wptr - 1) % RingUnits >= k
        BY <1>2, <3>4, RingConsts DEF Reserved
      <4> HIDE DEF k
      <4>2. PendingUnits(cpring) + k < RingUnits
        BY <3>1, <4>1, RoomLeft
      <4>3. QED
        BY <4>2, RingConsts DEF k
    <3>6. Laying(cpring, granted, child')
      BY <3>2, <3>4, <3>5 DEF Laying, FillingPcs
    <3>7. Untouched(cpring, granted, hosting, child') => Settled(cpring, granted)
      BY <3>2, <3>3 DEF Untouched
    <3>8. child'.grant = hosting.run /\ child'.stage = "ok" => NumberedAs(cpring, hosting, child')
      BY <3>2, <3>3 DEF NumberedAs
    <3>9. QED
      BY <3>2, <3>3, <3>6, <3>7, <3>8 DEF RingAgrees
  <2>4. QED
    BY <2>2, <2>3
<1>3. QED
  BY <1>1, <1>2 DEF ChildReserve

LEMMA ChildWriteRing == ASSUME CommonInv, ~orphan, ChildWrite PROVE RingInv'
<1>1. CASE ChildFails("back", "readback")
  BY <1>1, ChildFailsRing
<1>2. CASE ~ChildFails("back", "readback")
  <2>1. orphan' = ~granted.lease /\ hosting' = hosting /\ granted' = granted /\ child.pc \in {"write", "rest"}
    BY <1>2 DEF ChildWrite, ChildGoes
  <2> SUFFICES ASSUME granted.lease, granted.ready PROVE RingAgrees(cpring', granted, hosting, child')
    BY <2>1 DEF RingInv
  <2>2. DirectTyped'
    BY ChildWriteTyped DEF CommonInv
  <2>3. /\ cpring \in RingRecord /\ cpring' \in RingRecord /\ granted \in DriverRecord /\ hosting \in HostRecord
        /\ child \in ChildRecord /\ child' \in ChildRecord
    BY <2>1, <2>2 DEF CommonInv, DirectTyped
  <2>4. RingAgrees(cpring, granted, hosting, child)
    BY DEF CommonInv, RingInv
  <2>5. child.grant = hosting.run /\ ~child.retired
    BY <2>1 DEF CommonInv, Granting, ChildShape, WorkingPcs, FillingPcs
  <2> DEFINE first == FirstRun
             seq == NthSeq(child.next, child.batch)
             w == child.wptr
             q2 == cpring'
             c2 == child'
  <2>6. ChildSeq = seq
    BY <2>3, ChildSeqTyped
  <2>7. first = (IF RingUnits - w < 4 THEN RingUnits - w ELSE 4) /\ first \in 1 .. 4 /\ w \in 0 .. RingUnits - 1
    <3>1. w \in 0 .. RingUnits - 1
      BY <2>3 DEF ChildRecord, Places
    <3>2. first = (IF RingUnits - w < 4 THEN RingUnits - w ELSE 4)
      BY RingConsts DEF FirstRun
    <3> HIDE DEF first, w
    <3>3. QED
      BY <3>1, <3>2, RingConsts
  <2>8. CASE child.pc = "write"
    <3>1. /\ child' = [child EXCEPT !.pc = IF first < BatchUnits THEN "rest" ELSE "back"]
          /\ cpring' = [cpring EXCEPT !.words = WriteBatch(cpring.words, w, seq, 1, first)]
      BY <1>2, <2>6, <2>8 DEF ChildWrite, ChildGoes
    <3> DEFINE to == first
               from == 1
               pc == IF first < BatchUnits THEN "rest" ELSE "back"
               ws == WriteBatch(cpring.words, w, seq, from, to)
    <3>2. from \in 1 .. 4 /\ to \in 0 .. 4 /\ from = 1
      BY <2>7
    <3>3. \/ pc = "rest" /\ RingUnits - w < 4 /\ to = RingUnits - w
          \/ pc = "back" /\ to = 4
      BY <2>7, RingConsts
    <3>4. child' = [child EXCEPT !.pc = pc] /\ cpring' = [cpring EXCEPT !.words = ws]
      BY <3>1
    <3> HIDE DEF ws, pc, to, from, first, seq, w
    <3>5. /\ cpring'.rptr = cpring.rptr /\ cpring'.wptr = cpring.wptr /\ cpring'.scratch = cpring.scratch
          /\ cpring'.words = ws /\ child'.pc = pc
      BY <2>3, <3>4 DEF RingRecord, ChildRecord
    <3>6. q2.words = WriteBatch(cpring.words, child.wptr, NthSeq(child.next, child.batch), from, to)
      BY <3>5 DEF ws, w, seq
    <3>7. /\ q2.rptr = cpring.rptr /\ q2.wptr = cpring.wptr /\ q2.scratch = cpring.scratch
          /\ c2 = [child EXCEPT !.pc = c2.pc] /\ q2 \in RingRecord /\ c2 \in ChildRecord
          /\ \/ c2.pc = "rest" /\ RingUnits - child.wptr < 4 /\ to = RingUnits - child.wptr
             \/ c2.pc = "back" /\ to = 4
      BY <2>3, <3>3, <3>4, <3>5 DEF w
    <3> HIDE DEF q2, c2
    <3>8. RingAgrees(q2, granted, hosting, c2)
      BY <2>1, <2>3, <2>4, <2>5, <3>2, <3>6, <3>7, StoredRing
    <3>9. QED
      BY <3>8 DEF q2, c2
  <2>9. CASE child.pc = "rest"
    <3>1. /\ child' = [child EXCEPT !.pc = "back"]
          /\ cpring' = [cpring EXCEPT !.words = WriteBatch(cpring.words, w, seq, first + 1, BatchUnits)]
      BY <1>2, <2>6, <2>9 DEF ChildWrite, ChildGoes
    <3> DEFINE to == BatchUnits
               from == first + 1
               ws == WriteBatch(cpring.words, w, seq, from, to)
    <3>2. RingUnits - w < 4 /\ first = RingUnits - w
      BY <2>4, <2>9, RingConsts, <2>7 DEF RingAgrees, Laying
    <3>3. from \in 1 .. 4 /\ to \in 0 .. 4 /\ to = 4 /\ from = RingUnits - child.wptr + 1
      BY <2>7, <3>2, RingConsts
    <3>4. child' = [child EXCEPT !.pc = "back"] /\ cpring' = [cpring EXCEPT !.words = ws]
      BY <3>1
    <3> HIDE DEF ws, to, from, first, seq, w
    <3>5. /\ cpring'.rptr = cpring.rptr /\ cpring'.wptr = cpring.wptr /\ cpring'.scratch = cpring.scratch
          /\ cpring'.words = ws /\ child'.pc = "back"
      BY <2>3, <3>4 DEF RingRecord, ChildRecord
    <3>6. q2.words = WriteBatch(cpring.words, child.wptr, NthSeq(child.next, child.batch), from, to)
      BY <3>5 DEF ws, w, seq
    <3>7. /\ q2.rptr = cpring.rptr /\ q2.wptr = cpring.wptr /\ q2.scratch = cpring.scratch
          /\ c2 = [child EXCEPT !.pc = c2.pc] /\ q2 \in RingRecord /\ c2 \in ChildRecord
          /\ c2.pc = "back" /\ to = 4
      BY <2>3, <3>3, <3>4, <3>5 DEF w
    <3> HIDE DEF q2, c2
    <3>8. RingAgrees(q2, granted, hosting, c2)
      BY <2>1, <2>3, <2>4, <2>5, <2>9, <3>3, <3>6, <3>7, StoredRing
    <3>9. QED
      BY <3>8 DEF q2, c2
  <2>10. QED
    BY <2>1, <2>8, <2>9
<1>3. QED
  BY <1>1, <1>2

LEMMA ChildCommitRing == ASSUME CommonInv, ~orphan, ChildCommit PROVE RingInv'
<1>1. orphan' = ~granted.lease /\ hosting' = hosting /\ granted' = granted /\ child.pc = "back"
  BY DEF ChildCommit
<1> SUFFICES ASSUME granted.lease, granted.ready PROVE RingAgrees(cpring', granted, hosting, child')
  BY <1>1 DEF RingInv
<1>2. /\ child.grant = hosting.run /\ ~child.retired /\ child.stage = "ok" /\ child.batch = child.submits
         /\ child.next = hosting.next
  BY <1>1 DEF CommonInv, Granting, ChildShape, WorkingPcs, FillingPcs
<1>3. DirectTyped' /\ Committed(cpring, child, cpring', child')
  BY <1>2, ChildCommitTyped DEF CommonInv
<1>4. /\ cpring \in RingRecord /\ cpring' \in RingRecord /\ granted \in DriverRecord /\ hosting \in HostRecord
      /\ child \in ChildRecord /\ child' \in ChildRecord
  BY <1>1, <1>3 DEF CommonInv, DirectTyped
<1>5. RingAgrees(cpring, granted, hosting, child)
  BY DEF CommonInv, RingInv
<1>6. QED
  BY <1>1, <1>2, <1>3, <1>4, <1>5, CommittedRing

LEMMA ChildRetireRing == ASSUME CommonInv, ~orphan, ChildRetire PROVE RingInv'
<1>1. CASE ChildFails("fence", "fence")
  BY <1>1, ChildFailsRing
<1>2. CASE /\ child.pc = "fence" /\ SeqPassed(cpring.scratch, child.last)
           /\ child' = [child EXCEPT !.pc = "result", !.retired = TRUE]
           /\ UNCHANGED <<block, cached, hosting, cpring, granted, orphan>>
  <2> SUFFICES ASSUME granted.ready PROVE RingAgrees(cpring, granted, hosting, child')
    BY <1>2 DEF RingInv
  <2>1. RingAgrees(cpring, granted, hosting, child)
    BY DEF CommonInv, RingInv
  <2>2. /\ cpring \in RingRecord /\ granted \in DriverRecord /\ hosting \in HostRecord /\ child \in ChildRecord
           /\ child' \in ChildRecord
    BY ChildRetireTyped DEF CommonInv, DirectTyped
  <2>3. child.stage = "ok" /\ child.submits > 0 /\ child.last = NthSeq(child.next, child.submits - 1)
    BY <1>2 DEF CommonInv, ChildShape, WorkingPcs
  <2>4. granted.lease => child.grant = hosting.run /\ child.next = hosting.next /\ hosting.next # 0 /\ hosting.next + hosting.batches - 1 <= SeqRange
    BY <1>2 DEF CommonInv, Granting, WorkingPcs
  <2>5. QED
    BY <1>2, <2>1, <2>2, <2>3, <2>4, RetiredRing
<1>3. QED
  BY <1>1, <1>2 DEF ChildRetire

(* A child that takes the host's own grant.                                 *)
LEMMA TakingRing ==
  ASSUME CommonInv, ~orphan, NEW first \in FirstLines, NEW second \in SecondLines, TakesGrant(first, second),
         child.pc = "range",
         UNCHANGED <<hosting, cpring, granted, orphan>>,
         granted.lease /\ child'.pc = "reserve" => child'.grant = hosting.run /\ child'.next = hosting.next
  PROVE  RingInv'
<1>1. CASE child' = [child EXCEPT !.pc = "result", !.stage = "ring_range"]
  BY <1>1, ChildStopsRing
<1>2. CASE child' # [child EXCEPT !.pc = "result", !.stage = "ring_range"]
  <2> SUFFICES ASSUME granted.ready PROVE RingAgrees(cpring, granted, hosting, child')
    BY DEF RingInv
  <2> DEFINE ring == first.ring
             next == IF second.fence = 0 THEN 1 ELSE second.fence
             batches == IF second.batches = 0 THEN BatchDefault ELSE second.batches
             w == cpring.wptr
  <2>1. child' = [child EXCEPT !.pc = "reserve", !.grant = ring, !.next = next, !.batches = batches, !.wptr = w]
    BY <1>2 DEF TakesGrant
  <2> HIDE DEF ring, next, batches
  <2>2. child \in ChildRecord
    BY DEF CommonInv, DirectTyped
  <2>3. /\ child'.pc = "reserve" /\ child'.wptr = cpring.wptr /\ child'.submits = child.submits
           /\ child'.batch = child.batch
        /\ child'.retired = child.retired
    BY <2>1, <2>2 DEF ChildRecord
  <2>4. child.submits = 0 /\ child.batch = 0 /\ ~child.retired /\ child.grant = 0
    BY DEF CommonInv, ChildShape, ReadingPcs
  <2>5. granted.lease => child.grant # hosting.run
    BY <2>4 DEF CommonInv, Granting, DirectTyped, HostRecord
  <2>6. RingAgrees(cpring, granted, hosting, child)
    BY DEF CommonInv, RingInv
  <2>7. granted.lease => child.grant # hosting.run /\ child'.grant = hosting.run /\ child'.next = hosting.next
    BY <2>3, <2>5
  <2>8. cpring \in RingRecord
    BY DEF CommonInv, DirectTyped
  <2>9. QED
    BY <2>8, <2>3, <2>4, <2>5, <2>6, <2>7, GrantedRing
<1>3. QED
  BY <1>1, <1>2
------------------------------------------------------------------------------
(* What the steps leave alone, and the child's own variables.               *)

LEMMA Scalars ==
  ASSUME DirectTyped
  PROVE  /\ hosting.pc \in HostPcs /\ hosting.run \in Nat /\ hosting.renew \in Nat /\ hosting.due \in BOOLEAN
            /\ hosting.batches \in Nat
         /\ hosting.next \in Nat /\ hosting.next \in Seqs
         /\ child.pc \in ChildPcs /\ child.gen \in Nat /\ child.grant \in Nat /\ child.submits \in Nat
            /\ child.batch \in Nat
         /\ child.retired \in BOOLEAN
         /\ block.gen \in Nat /\ block.ring \in Nat /\ block.echo \in Nat /\ block.ready \in BOOLEAN
            /\ block.done \in BOOLEAN
         /\ block.retired \in BOOLEAN
         /\ granted.age \in Nat /\ granted.lease \in BOOLEAN /\ granted.ready \in BOOLEAN
<1>1. Seqs \subseteq Nat /\ Ages \subseteq Nat /\ BatchNumbers \subseteq Nat
  BY RingConsts, Names DEF Seqs, Ages
<1>2. hosting.pc \in HostPcs /\ hosting.run \in Nat /\ hosting.renew \in Nat /\ hosting.due \in BOOLEAN
      /\ hosting.batches \in Nat
      /\ hosting.next \in Nat /\ hosting.next \in Seqs
  BY <1>1 DEF DirectTyped, HostRecord
<1>3. /\ child.pc \in ChildPcs /\ child.gen \in Nat /\ child.grant \in Nat /\ child.submits \in Nat
         /\ child.batch \in Nat
      /\ child.retired \in BOOLEAN
  BY DEF DirectTyped, ChildRecord
<1>4. /\ block.gen \in Nat /\ block.ring \in Nat /\ block.echo \in Nat /\ block.ready \in BOOLEAN
         /\ block.done \in BOOLEAN
      /\ block.retired \in BOOLEAN
  BY DEF DirectTyped, BlockRecord
<1>5. granted.age \in Nat /\ granted.lease \in BOOLEAN /\ granted.ready \in BOOLEAN
  BY <1>1 DEF DirectTyped, DriverRecord
<1>6. QED
  BY <1>2, <1>3, <1>4, <1>5

(* A step of the host that only moves on.                                   *)
HostMoves(from, to) ==
  /\ hosting.pc = from /\ hosting'.pc = to /\ hosting'.due = FALSE /\ hosting'.run = hosting.run
  /\ hosting'.batches = hosting.batches /\ hosting'.next = hosting.next /\ hosting'.last = hosting.last
  /\ hosting'.renew = hosting.renew

LEMMA HostMoving == ASSUME DirectTyped, NEW from, NEW to, HostGoes(from, to) PROVE HostMoves(from, to)
BY DEF HostGoes, HostMoves, DirectTyped, HostRecord

(* A step of the child that only moves on.                                  *)
ChildSame == /\ child'.gen = child.gen /\ child'.grant = child.grant /\ child'.next = child.next
/\ child'.batches = child.batches
             /\ child'.batch = child.batch /\ child'.submits = child.submits
             /\ child'.last = child.last /\ child'.runs = child.runs

LEMMA ChildMoving ==
  ASSUME DirectTyped, NEW from, NEW to, ChildGoes(from, to)
  PROVE  child.pc = from /\ child'.pc = to /\ child'.stage = child.stage /\ child'.retired = child.retired
         /\ ChildSame
BY DEF ChildGoes, ChildSame, DirectTyped, ChildRecord

LEMMA ChildStopping ==
  ASSUME DirectTyped, NEW stage, child' = [child EXCEPT !.pc = "result", !.stage = stage]
  PROVE  child'.pc = "result" /\ child'.stage = stage /\ child'.retired = child.retired /\ ChildSame
BY DEF ChildSame, DirectTyped, ChildRecord

LEMMA ShapeGoes ==
  ASSUME DirectTyped, ChildShape(child), NEW from, NEW to, ChildGoes(from, to),
         to \in ReadingPcs => from \in ReadingPcs,
         to \in WorkingPcs => from \in WorkingPcs, to # "fence"
  PROVE  ChildShape(child')
BY ChildMoving DEF ChildShape, ChildSame

LEMMA ShapeStops ==
  ASSUME DirectTyped, ChildShape(child), NEW stage, ~child.retired,
         child' = [child EXCEPT !.pc = "result", !.stage = stage]
  PROVE  ChildShape(child')
BY ChildStopping DEF ChildShape, ChildSame, ReadingPcs, WorkingPcs, FillingPcs

LEMMA ShapeTakes ==
  ASSUME DirectTyped, ChildShape(child), child.pc = "range", NEW first \in FirstLines,
         NEW second \in SecondLines, TakesGrant(first, second)
  PROVE  ChildShape(child')
<1>1. child.submits = 0 /\ child.batch = 0 /\ child.stage = "ok" /\ ~child.retired /\ child \in ChildRecord
  BY DEF ChildShape, ReadingPcs, DirectTyped
<1>2. CASE child' = [child EXCEPT !.pc = "result", !.stage = "ring_range"]
  BY <1>1, <1>2, ShapeStops
<1>3. CASE child' # [child EXCEPT !.pc = "result", !.stage = "ring_range"]
  <2> DEFINE ring == first.ring
             next == IF second.fence = 0 THEN 1 ELSE second.fence
             batches == IF second.batches = 0 THEN BatchDefault ELSE second.batches
             w == cpring.wptr
  <2>1. child' = [child EXCEPT !.pc = "reserve", !.grant = ring, !.next = next, !.batches = batches, !.wptr = w] /\ ring # 0
    BY <1>3 DEF TakesGrant
  <2> HIDE DEF ring, next, batches, w
  <2>2. child'.pc = "reserve" /\ child'.grant # 0 /\ child'.submits = 0 /\ child'.batch = 0
        /\ child'.stage = "ok" /\ ~child'.retired
    BY <1>1, <2>1 DEF ChildRecord
  <2>3. QED
    BY <2>2 DEF ChildShape, ReadingPcs, WorkingPcs, FillingPcs
<1>4. QED
  BY <1>2, <1>3

LEMMA ShapeCommon ==
  ASSUME CommonInv, NEW act, act \in {"reserve", "write", "commit", "retire"},
         act = "reserve" => ChildReserve, act = "write" => ChildWrite, act = "commit" => ChildCommit,
         act = "retire" => ChildRetire
  PROVE  ChildShape(child')
<1>1. DirectTyped /\ ChildShape(child) /\ (child.pc \in WorkingPcs => ~child.retired /\ child.stage = "ok")
  BY DEF CommonInv, ChildShape
<1>2. {"reserve", "write", "rest", "back", "fence"} \subseteq WorkingPcs /\ "result" \notin ReadingPcs
      /\ "result" \notin WorkingPcs
      /\ {"write", "rest", "back"} \cap ReadingPcs = {}
  BY DEF WorkingPcs, FillingPcs, ReadingPcs
<1>3. ASSUME NEW from \in WorkingPcs, NEW stage, ChildFails(from, stage) PROVE ChildShape(child')
  BY <1>1, <1>3, ShapeStops DEF ChildFails
<1>4. ASSUME ChildReserve PROVE ChildShape(child')
  BY <1>1, <1>2, <1>3, <1>4, ShapeGoes DEF ChildReserve
<1>5. ASSUME ChildWrite PROVE ChildShape(child')
  <2>1. ASSUME NEW from \in {"write", "rest"}, NEW to \in {"rest", "back"}, ChildGoes(from, to)
        PROVE  ChildShape(child')
    BY <1>1, <1>2, <2>1, ShapeGoes
  <2>2. CASE ChildFails("back", "readback")
    BY <1>2, <1>3, <2>2
  <2>3. CASE ChildGoes("rest", "back")
    BY <2>1, <2>3
  <2>4. CASE child.pc = "write"
             /\ child' = [child EXCEPT !.pc = IF FirstRun < BatchUnits THEN "rest" ELSE "back"]
    <3> DEFINE to == IF FirstRun < BatchUnits THEN "rest" ELSE "back"
    <3>1. to \in {"rest", "back"}
      OBVIOUS
    <3>2. ChildGoes("write", to)
      BY <2>4 DEF ChildGoes
    <3> HIDE DEF to
    <3>3. QED
      BY <2>1, <3>1, <3>2
  <2>5. QED
    BY <1>5, <2>2, <2>3, <2>4 DEF ChildWrite
<1>6. ASSUME ChildCommit PROVE ChildShape(child')
  <2>1. child.batch = child.submits /\ child.pc = "back" /\ child.grant # 0 /\ child.stage = "ok"
        /\ ~child.retired /\ child \in ChildRecord
    BY <1>1, <1>2, <1>6 DEF ChildCommit, ChildShape, DirectTyped
  <2>2. Committed(cpring, child, cpring', child')
    BY <1>1, <1>6, <2>1, ChildCommitTyped
  <2>3. CASE child' = [child EXCEPT !.pc = "result", !.stage = "wptr"]
    BY <1>1, <2>1, <2>3, ShapeStops
  <2>4. CASE child' = [child EXCEPT !.wptr = cpring'.wptr, !.last = NthSeq(child.next, child.batch), !.submits = @ + 1, !.batch = @ + 1,
                       !.pc = IF child.batch + 1 < child.batches THEN "reserve" ELSE "fence"]
    <3> DEFINE n == child.submits + 1
               last == NthSeq(child.next, child.batch)
               pc == IF child.batch + 1 < child.batches THEN "reserve" ELSE "fence"
               w == cpring'.wptr
    <3>1. child' = [child EXCEPT !.wptr = w, !.last = last, !.submits = n, !.batch = n, !.pc = pc]
      BY <2>1, <2>4
    <3>2. n \in Nat /\ n > 0 /\ n - 1 = child.batch /\ pc \in {"reserve", "fence"}
      BY <2>1 DEF ChildRecord
    <3>3. last = NthSeq(child.next, n - 1)
      BY <3>2
    <3> HIDE DEF n, last, pc, w
    <3>4. /\ child'.pc = pc /\ child'.grant = child.grant /\ child'.stage = child.stage
             /\ child'.retired = child.retired
          /\ child'.batch = n /\ child'.submits = n /\ child'.last = last /\ child'.next = child.next
      BY <2>1, <3>1 DEF ChildRecord
    <3>5. QED
      BY <2>1, <3>2, <3>3, <3>4 DEF ChildShape, ReadingPcs
  <2>5. QED
    BY <2>2, <2>3, <2>4 DEF Committed
<1>7. ASSUME ChildRetire PROVE ChildShape(child')
  <2>1. CASE ChildFails("fence", "fence")
    BY <1>2, <1>3, <2>1
  <2>2. CASE child.pc = "fence" /\ child' = [child EXCEPT !.pc = "result", !.retired = TRUE]
    BY <1>1, <1>2, <2>2 DEF ChildShape, DirectTyped, ChildRecord
  <2>3. QED
    BY <1>7, <2>1, <2>2 DEF ChildRetire
<1>8. QED
  BY <1>4, <1>5, <1>6, <1>7

(* The driver and the command processor leave the programs alone.           *)
DriverOnly == UNCHANGED <<block, cached, hosting, child, orphan>>
------------------------------------------------------------------------------
(* phase3host and ppcphase3: DirectInv, one lemma for each action.          *)

LEMMA CalmKeeps ==
  ASSUME CommonInv, DirectTyped', RingInv', DriverOnly, granted'.lease => granted.lease /\ granted'.ready,
         granted'.age = granted.age,
         granted'.lease = granted.lease
         \/ hosting.pc \notin {"acquired", "filling", "flagging", "waiting", "checked"}
  PROVE  CommonInv' /\ (DirectPart => DirectPart')
<1>1. ChildShape(child)' 
  BY DEF DriverOnly, CommonInv
<1>2. Granting'
  BY DEF DriverOnly, CommonInv, Granting
<1>3. DirectPart => DirectPart'
  <2> SUFFICES ASSUME DirectPart PROVE DirectPart'
    OBVIOUS
  <2>1. UNCHANGED <<block, hosting, child>> /\ (Engaged' => Engaged) /\ (Open' <=> Open)
        /\ (Posted' <=> Posted) /\ (Reported' <=> Reported)
        /\ Ticks(hosting)' = Ticks(hosting)
    BY DEF DriverOnly, Engaged, Open, Posted, Reported, Ticks
  <2>2. QED
    BY <2>1 DEF DirectPart, Echoes, Posts, Renewed
<1>4. QED
  BY <1>1, <1>2, <1>3 DEF CommonInv

LEMMA OwnSubmitDirect == ASSUME DirectInv, ~orphan, OwnSubmit PROVE DirectInv'
<1>1. DirectTyped' /\ RingInv'
  BY OwnSubmitTyped, OwnSubmitRing DEF DirectInv, CommonInv
<1>2. DriverOnly /\ granted'.lease = granted.lease /\ granted'.age = granted.age /\ ~granted.lease
  BY DEF OwnSubmit, DriverOnly, DirectTyped, DriverRecord, DirectInv, CommonInv
<1>3. QED
  BY <1>1, <1>2, CalmKeeps, Scalars DEF DirectInv, CommonInv

LEMMA FetchUnitDirect == ASSUME DirectInv, ~orphan, FetchUnit PROVE DirectInv'
<1>1. DirectTyped' /\ RingInv'
  BY FetchUnitTyped, FetchUnitRing DEF DirectInv, CommonInv
<1>2. DriverOnly /\ granted' = granted
  BY DEF FetchUnit, DriverOnly
<1>3. QED
  BY <1>1, <1>2, CalmKeeps, Scalars DEF DirectInv, CommonInv, Granting

LEMMA Recovers ==
  ASSUME DirectTyped, NEW g, RecoverRing(g), g \in DriverRecord
  PROVE  ~granted'.lease /\ granted'.age = g.age
BY DEF RecoverRing, DriverRecord

LEMMA LeaseReclaimDirect == ASSUME DirectInv, ~orphan, LeaseReclaim PROVE DirectInv'
<1>1. DirectTyped' /\ RingInv'
  BY LeaseReclaimTyped, LeaseReclaimRing DEF DirectInv, CommonInv
<1>2. DirectTyped /\ granted \in DriverRecord /\ CommonInv
  BY DEF DirectInv, CommonInv, DirectTyped
<1>3. RecoverRing(granted) /\ DriverOnly /\ granted.age > 5
  BY <1>2, RingConsts, Scalars DEF LeaseReclaim, DriverOnly, RadeonCpAdoptFence
<1>4. ~granted'.lease /\ granted'.age = granted.age
  BY <1>2, <1>3, Recovers
<1>5. hosting.pc \notin {"acquired", "filling", "flagging", "waiting", "checked"}
  BY <1>2, <1>3, Scalars DEF DirectInv, DirectPart, Echoes, Posts, Renewed, Ticks
<1>6. QED
  BY <1>1, <1>2, <1>3, <1>4, <1>5, CalmKeeps DEF DirectInv

LEMMA AgeTyped == ASSUME DirectTyped' PROVE granted'.age \in Nat
<1>1. Ages \subseteq Nat
  BY RingConsts DEF Ages
<1>2. QED
  BY <1>1 DEF DirectTyped, DriverRecord

LEMMA HalfSecondDirect == ASSUME DirectInv, ~orphan, HalfSecond PROVE DirectInv'
<1>1. DirectTyped' /\ RingInv'
  BY HalfSecondTyped, HalfSecondRing DEF DirectInv, CommonInv
<1>2. DirectTyped /\ CommonInv /\ DirectPart
  BY DEF DirectInv, CommonInv
<1>3. /\ hosting'.pc = hosting.pc /\ hosting'.run = hosting.run /\ hosting'.batches = hosting.batches
         /\ hosting'.next = hosting.next
      /\ hosting'.last = hosting.last /\ ~hosting.due /\ hosting'.due
         /\ hosting'.renew = (IF hosting.renew > 1 THEN hosting.renew ELSE hosting.renew + 1)
      /\ hosting.pc \in {"acquired", "filling", "flagging", "waiting", "checked"}
      /\ granted'.lease = granted.lease /\ granted'.ready = granted.ready /\ granted'.age <= granted.age + 1
      /\ UNCHANGED <<block, child>>
  BY <1>2, Scalars DEF HalfSecond, DirectTyped, HostRecord, DriverRecord
<1>4. Granting' /\ ChildShape(child)'
  BY <1>2, <1>3 DEF CommonInv, Granting
<1>5. (Engaged' <=> Engaged) /\ (Open' <=> Open) /\ (Posted' <=> Posted) /\ (Reported' <=> Reported)
  BY <1>3 DEF Engaged, Open, Posted, Reported
<1>6. Ticks(hosting) = 0 /\ Ticks(hosting') = 1
  BY <1>3 DEF Ticks
<1>7. DirectPart'
  BY <1>2, <1>3, <1>5, <1>6, Scalars, <1>1, AgeTyped DEF DirectPart, Echoes, Posts, Renewed
<1>8. QED
  BY <1>1, <1>4, <1>7 DEF DirectInv, CommonInv

LEMMA QuitsDirect ==
  ASSUME DirectInv, ~orphan, NEW from, HostQuits(from),
         from \in {"arrival", "leasing", "acquired", "waiting", "checked"}
  PROVE  DirectInv'
<1>1. DirectTyped /\ CommonInv /\ DirectPart
  BY DEF DirectInv, CommonInv
<1>2. DirectTyped' /\ RingInv'
  BY <1>1, HostQuitsTyped, HostQuitsRing
<1>3. HostMoves(from, "closing") /\ UNCHANGED <<block, child, granted>>
  BY <1>1, HostMoving DEF HostQuits
<1>4. Granting' /\ ChildShape(child)'
  BY <1>1, <1>3, Scalars DEF CommonInv, Granting, HostMoves
<1>5. (Engaged' => Engaged) /\ (Open' => Open) /\ (Posted' <=> Posted) /\ (Reported' <=> Reported)
      /\ (Open /\ from \in {"waiting", "checked"} => Open')
  BY <1>1, <1>3, Scalars
     DEF Engaged, Open, Posted, Reported, HostMoves, CommonInv, Granting, DirectPart, Echoes, Posts, Renewed
<1>6. DirectPart'
  BY <1>1, <1>3, <1>5, Scalars DEF DirectPart, Echoes, Posts, Renewed, HostMoves, Open
<1>7. QED
  BY <1>2, <1>4, <1>6 DEF DirectInv, CommonInv

LEMMA HostStartDirect == ASSUME DirectInv, ~orphan, HostStart PROVE DirectInv'
<1>1. DirectTyped /\ CommonInv /\ DirectPart
  BY DEF DirectInv, CommonInv
<1>2. DirectTyped'
  BY <1>1, HostStartTyped
<1>3. /\ hosting.pc = "start" /\ hosting'.pc = "opened" /\ hosting'.run = hosting.run + 1
      /\ ~granted.lease /\ UNCHANGED <<block, child, cpring, granted, orphan>>
  BY DEF HostStart, NoHost
<1>4. RingInv'
  BY <1>1, <1>3, NoLeaseRing DEF CommonInv, RingInv
<1>5. Granting' /\ ChildShape(child)'
  BY <1>1, <1>3, Scalars DEF CommonInv, Granting
<1>6. ~Engaged' /\ ~Open'
  BY <1>3 DEF Engaged, Open
<1>7. child.gen <= hosting.run /\ child.grant <= hosting.run /\ block.ring <= hosting.run
      /\ block.gen = hosting.run
  BY <1>1, <1>3 DEF DirectPart, Echoes, Posts, Renewed, CommonInv, Granting
<1>8. DirectPart'
  BY <1>1, <1>3, <1>6, <1>7, Scalars DEF DirectPart, Echoes, Posts, Renewed, Reported
<1>9. QED
  BY <1>2, <1>4, <1>5, <1>8 DEF DirectInv, CommonInv

(* The child's words of the block.                                          *)
ChildWords ==
  /\ block'.done = block.done /\ block'.echo = block.echo /\ block'.stage = block.stage
     /\ block'.submits = block.submits
  /\ block'.retired = block.retired /\ block'.present = block.present

LEMMA Heading ==
  ASSUME DirectTyped, NEW from, NEW to, PublishHead(from, to)
  PROVE  /\ HostMoves(from, to) /\ UNCHANGED <<child, cpring, granted, orphan>> /\ ChildWords
            /\ block'.gen = block.gen
         /\ block'.ring = block.ring /\ ~block'.ready
<1>1. HostMoves(from, to)
  BY HostMoving DEF PublishHead
<1>2. QED
  BY <1>1 DEF PublishHead, ChildWords, DirectTyped, BlockRecord

LEMMA Tailing ==
  ASSUME DirectTyped, NEW from, NEW to, NEW ring, NEW fence, PublishTail(from, to, ring, fence)
  PROVE  /\ HostMoves(from, to) /\ UNCHANGED <<child, cpring, granted, orphan>> /\ ChildWords
            /\ block'.gen = hosting.run
         /\ block'.ring = ring /\ (block'.bar <=> ring # 0) /\ block'.fence = fence
            /\ block'.batches = hosting.batches
         /\ block'.ready = block.ready
<1>1. HostMoves(from, to)
  BY HostMoving DEF PublishTail
<1>2. QED
  BY <1>1 DEF PublishTail, ChildWords, DirectTyped, BlockRecord

LEMMA HostPublishDirect == ASSUME DirectInv, ~orphan, HostPublish PROVE DirectInv'
<1>1. DirectTyped /\ CommonInv /\ DirectPart
  BY DEF DirectInv, CommonInv
<1>2. DirectTyped'
  BY <1>1, HostPublishTyped
<1>3. CASE PublishHead("opened", "announcing")
  <2>1. /\ HostMoves("opened", "announcing") /\ UNCHANGED <<child, cpring, granted, orphan>> /\ ChildWords
           /\ block'.gen = block.gen
        /\ block'.ring = block.ring /\ ~block'.ready
    BY <1>1, <1>3, Heading
  <2>2. RingInv'
    BY <1>1, <1>3, HostGoesRing DEF PublishHead
  <2>3. Granting' /\ ChildShape(child)'
    BY <1>1, <2>1, Scalars DEF CommonInv, Granting, HostMoves
  <2>4. ~Engaged' /\ ~Open' /\ ~Open
    BY <2>1 DEF Engaged, Open, HostMoves
  <2>5. DirectPart'
    BY <1>1, <2>1, <2>4, Scalars DEF DirectPart, Echoes, Posts, Renewed, HostMoves, ChildWords, Reported
  <2>6. QED
    BY <1>2, <2>2, <2>3, <2>5 DEF DirectInv, CommonInv
<1>4. CASE PublishTail("announcing", "arrival", 0, 0)
  <2>1. /\ HostMoves("announcing", "arrival") /\ UNCHANGED <<child, cpring, granted, orphan>> /\ ChildWords
           /\ block'.gen = hosting.run
        /\ block'.ring = 0 /\ block'.ready = block.ready
    BY <1>1, <1>4, Tailing
  <2>2. RingInv'
    BY <1>1, <1>4, HostGoesRing DEF PublishTail
  <2>3. Granting' /\ ChildShape(child)' /\ hosting.run > 0
    BY <1>1, <2>1, Scalars DEF CommonInv, Granting, HostMoves
  <2>4. ~Engaged' /\ ~Open' /\ ~Open
    BY <2>1 DEF Engaged, Open, HostMoves
  <2>5. child.gen < hosting.run /\ ~block.ready
    BY <1>1, <2>1, Scalars DEF DirectPart, Echoes, Posts, Renewed, HostMoves
  <2>6. DirectPart'
    BY <1>1, <2>1, <2>3, <2>4, <2>5, Scalars DEF DirectPart, Echoes, Posts, Renewed, HostMoves, ChildWords, Reported
  <2>7. QED
    BY <1>2, <2>2, <2>3, <2>6 DEF DirectInv, CommonInv
<1>5. QED
  BY <1>3, <1>4 DEF HostPublish

LEMMA HostArrivalDirect == ASSUME DirectInv, ~orphan, HostArrival PROVE DirectInv'
<1>1. DirectTyped /\ CommonInv /\ DirectPart
  BY DEF DirectInv, CommonInv
<1>2. DirectTyped' /\ RingInv'
  BY <1>1, HostArrivalTyped, HostGoesRing DEF HostArrival
<1>3. HostMoves("arrival", "leasing") /\ UNCHANGED <<block, child, granted>> /\ block.echo = hosting.run
      /\ ~block.done
  BY <1>1, HostMoving DEF HostArrival, Arrived
<1>4. hosting.run > 0 /\ ~granted.lease
  BY <1>1, <1>3 DEF CommonInv, Granting, HostMoves
<1>5. child.pc \in Echoed \cup {"echo"} /\ (child.pc \in Echoed => child.gen = hosting.run)
  BY <1>1, <1>3, <1>4, Scalars DEF DirectPart, Echoes, Posts, Renewed, Echoed, ChildPcs, ReadingPcs
<1>6. ~Open /\ ~Open' /\ child.pc \notin WorkingPcs
  BY <1>1, <1>3, <1>5 DEF Open, HostMoves, DirectPart, Echoes, Posts, Renewed, Echoed
<1>7. Granting' /\ ChildShape(child)'
  BY <1>1, <1>3, <1>4, <1>6, Scalars DEF CommonInv, Granting, HostMoves
<1>8. child.pc # "idle"
  BY <1>5 DEF Echoed, WorkingPcs, FillingPcs
<1>9. DirectPart'
  BY <1>1, <1>3, <1>5, <1>6, <1>8, Scalars DEF DirectPart, Echoes, Posts, Renewed, HostMoves, Reported
<1>10. QED
  BY <1>2, <1>7, <1>9 DEF DirectInv, CommonInv

LEMMA HostAcquireDirect == ASSUME DirectInv, ~orphan, HostAcquire PROVE DirectInv'
<1>1. DirectTyped /\ CommonInv /\ DirectPart
  BY DEF DirectInv, CommonInv
<1>2. CASE HostQuits("leasing")
  BY <1>2, QuitsDirect
<1>3. CASE ~HostQuits("leasing")
  <2>1. DirectTyped' /\ RingInv'
    BY <1>1, HostAcquireTyped, HostAcquireRing
  <2>2. /\ hosting.pc = "leasing" /\ hosting'.pc = "acquired" /\ hosting'.run = hosting.run
           /\ hosting'.due = hosting.due
        /\ hosting'.next = granted.next /\ hosting'.batches = hosting.batches
        /\ ~granted.lease /\ granted.ready /\ granted'.lease /\ granted'.ready /\ granted'.age = 0
        /\ granted.next # 0 /\ granted.next + hosting.batches - 1 <= SeqRange
        /\ UNCHANGED <<block, child>>
    BY <1>1, <1>3, ZenonT(60) DEF HostAcquire, DirectTyped, HostRecord, DriverRecord, NextSeqs
  <2>3. ~Open /\ ~Open' /\ Engaged /\ (Reported' <=> Reported)
    BY <2>2 DEF Open, Engaged, Reported
  <2>4. Granting' /\ ChildShape(child)'
    BY <1>1, <2>2, Scalars DEF CommonInv, Granting
  <2>5. DirectPart'
    BY <1>1, <2>2, <2>3, Scalars DEF DirectPart, Echoes, Posts, Renewed, Ticks
  <2>6. QED
    BY <2>1, <2>4, <2>5 DEF DirectInv, CommonInv
<1>4. QED
  BY <1>2, <1>3

LEMMA HostGrantDirect == ASSUME DirectInv, ~orphan, HostGrant PROVE DirectInv'
<1>1. DirectTyped /\ CommonInv /\ DirectPart
  BY DEF DirectInv, CommonInv
<1>2. DirectTyped'
  BY <1>1, HostGrantTyped
<1>3. CASE HostQuits("acquired")
  BY <1>3, QuitsDirect
<1>4. CASE PublishHead("acquired", "filling")
  <2>1. /\ HostMoves("acquired", "filling") /\ UNCHANGED <<child, cpring, granted, orphan>> /\ ChildWords
           /\ block'.gen = block.gen
        /\ block'.ring = block.ring /\ ~block'.ready
    BY <1>1, <1>4, Heading
  <2>2. RingInv'
    BY <1>1, <1>4, HostGoesRing DEF PublishHead
  <2>3. Granting' /\ ChildShape(child)'
    BY <1>1, <2>1, Scalars DEF CommonInv, Granting, HostMoves
  <2>4. Engaged /\ ~Open' /\ ~Open /\ (Reported' <=> Reported) /\ Ticks(hosting) <= 1 /\ Ticks(hosting') = 0
        /\ Ticks(hosting) \in Nat
    BY <2>1 DEF Engaged, Open, HostMoves, Reported, ChildWords, Ticks
  <2>5. DirectPart'
    BY <1>1, <2>1, <2>4, Scalars DEF DirectPart, Echoes, Posts, Renewed, HostMoves, ChildWords
  <2>6. QED
    BY <1>2, <2>2, <2>3, <2>5 DEF DirectInv, CommonInv
<1>5. CASE PublishTail("filling", "flagging", hosting.run, hosting.next)
  <2>1. /\ HostMoves("filling", "flagging") /\ UNCHANGED <<child, cpring, granted, orphan>> /\ ChildWords
           /\ block'.gen = hosting.run
        /\ block'.ring = hosting.run /\ (block'.bar <=> hosting.run # 0) /\ block'.fence = hosting.next
           /\ block'.batches = hosting.batches
        /\ block'.ready = block.ready
    BY <1>1, <1>5, Tailing
  <2>2. RingInv'
    BY <1>1, <1>5, HostGoesRing DEF PublishTail
  <2>3. hosting.run > 0 /\ hosting.next # 0
    BY <1>1, <2>1 DEF CommonInv, Granting, HostMoves
  <2>4. Granting' /\ ChildShape(child)'
    BY <1>1, <2>1, <2>3, Scalars DEF CommonInv, Granting, HostMoves
  <2>5. Posted' /\ Engaged /\ ~Open' /\ ~Open /\ (Reported' <=> Reported) /\ Ticks(hosting) <= 1
        /\ Ticks(hosting') = 0 /\ Ticks(hosting) \in Nat
    BY <2>1, <2>3 DEF Posted, Engaged, Open, HostMoves, Reported, ChildWords, Ticks
  <2>6. ~block.ready
    BY <1>1, <2>1 DEF DirectPart, Echoes, Posts, Renewed, HostMoves
  <2>7. DirectPart'
    BY <1>1, <2>1, <2>3, <2>5, <2>6, Scalars DEF DirectPart, Echoes, Posts, Renewed, HostMoves, ChildWords
  <2>8. QED
    BY <1>2, <2>2, <2>4, <2>7 DEF DirectInv, CommonInv
<1>6. CASE /\ hosting.pc = "flagging"
           /\ block' = [block EXCEPT !.ready = TRUE]
           /\ hosting' = [hosting EXCEPT
                !.pc = "waiting", !.due = FALSE, !.renew = 0,
                !.last = LET n == SeqSum(hosting.next, hosting.batches - 1) IN IF n = 0 THEN 1 ELSE n]
           /\ UNCHANGED <<cached, child, cpring, granted, orphan>>
  <2> DEFINE last == NthSeq(hosting.next, hosting.batches - 1)
  <2>1. hosting' = [hosting EXCEPT !.pc = "waiting", !.due = FALSE, !.renew = 0, !.last = last]
    BY <1>6 DEF NthSeq
  <2> HIDE DEF last
  <2>2. /\ hosting'.pc = "waiting" /\ ~hosting'.due /\ hosting'.renew = 0 /\ hosting'.last = last
           /\ hosting'.run = hosting.run
        /\ hosting'.next = hosting.next /\ hosting'.batches = hosting.batches
    BY <1>1, <2>1 DEF DirectTyped, HostRecord
  <2>3. /\ block'.ready /\ block'.gen = block.gen /\ block'.ring = block.ring /\ block'.bar = block.bar
           /\ block'.fence = block.fence
        /\ block'.batches = block.batches /\ ChildWords
    BY <1>1, <1>6 DEF DirectTyped, BlockRecord, ChildWords
  <2>4. UNCHANGED <<child, granted, cpring, orphan>> /\ hosting.pc = "flagging"
    BY <1>6
  <2>5. RingInv'
    <3>1. QuietHost
      BY <2>2 DEF QuietHost
    <3>2. QED
      BY <1>1, <2>4, <3>1, SameChild, SameDriver, QuietKeeps DEF CommonInv
  <2>6. last = NthSeq(hosting'.next, hosting'.batches - 1)
    BY <2>2 DEF last
  <2>7. Granting' /\ ChildShape(child)'
    BY <1>1, <2>2, <2>3, <2>4, <2>6, Scalars DEF CommonInv, Granting
  <2>8. Posted' /\ Engaged /\ Open' /\ ~Open /\ (Reported' <=> Reported) /\ Ticks(hosting) <= 1
        /\ Ticks(hosting') = 0 /\ Ticks(hosting) \in Nat
    BY <1>1, <2>2, <2>3, <2>4
       DEF Posted, Engaged, Open, Reported, ChildWords, Ticks, DirectPart, Echoes, Posts, Renewed
  <2>9. DirectPart'
    BY <1>1, <2>2, <2>3, <2>4, <2>8, Scalars DEF DirectPart, Echoes, Posts, Renewed, ChildWords
  <2>10. QED
    BY <1>2, <2>5, <2>7, <2>9 DEF DirectInv, CommonInv
<1>7. QED
  BY <1>3, <1>4, <1>5, <1>6 DEF HostGrant

LEMMA HostWaitDirect == ASSUME DirectInv, ~orphan, HostWait PROVE DirectInv'
<1>1. DirectTyped /\ CommonInv /\ DirectPart
  BY DEF DirectInv, CommonInv
<1>2. DirectTyped'
  BY <1>1, HostWaitTyped
<1>3. hosting.pc = "waiting" /\ hosting.due /\ hosting.renew = 1 /\ granted.lease /\ granted.ready
  BY <1>1 DEF HostWait, DirectPart, Echoes, Posts, Renewed, CommonInv, Granting, Ticks
<1>4. hosting' = [hosting EXCEPT !.due = FALSE, !.renew = 0] /\ granted' = [granted EXCEPT !.age = 0]
      /\ UNCHANGED <<block, child, cpring, orphan>>
  BY <1>3 DEF HostWait, HeartbeatLease
<1>5. /\ hosting'.pc = hosting.pc /\ hosting'.run = hosting.run /\ hosting'.next = hosting.next
         /\ hosting'.last = hosting.last
      /\ hosting'.batches = hosting.batches /\ ~hosting'.due /\ hosting'.renew = 0
      /\ granted'.lease = granted.lease /\ granted'.ready = granted.ready /\ granted'.age = 0
      /\ granted'.next = granted.next /\ granted'.write = granted.write
  BY <1>1, <1>4 DEF DirectTyped, HostRecord, DriverRecord
<1>6. RingInv'
  <2>1. QuietHost /\ QuietDriver
    BY <1>5 DEF QuietHost, QuietDriver
  <2>2. QED
    BY <1>1, <1>4, <2>1, SameChild, QuietKeeps DEF CommonInv
<1>7. Granting' /\ ChildShape(child)'
  BY <1>1, <1>4, <1>5 DEF CommonInv, Granting
<1>8. (Engaged' <=> Engaged) /\ (Open' <=> Open) /\ (Posted' <=> Posted) /\ (Reported' <=> Reported)
      /\ Ticks(hosting') = 0
  BY <1>4, <1>5 DEF Engaged, Open, Posted, Reported, Ticks
<1>9. DirectPart'
  BY <1>1, <1>3, <1>4, <1>5, <1>8, Scalars DEF DirectPart, Echoes, Posts, Renewed
<1>10. QED
  BY <1>2, <1>6, <1>7, <1>9 DEF DirectInv, CommonInv

(* A host that finds a whole run in the block has its own child's. *)
LEMMA ResultsDirect ==
  ASSUME DirectInv, hosting.pc = "waiting", block.done, ResultsGood
  PROVE  /\ child.grant = hosting.run /\ child.retired /\ child.submits = hosting.batches
         /\ child.pc = "idle"
<1>1. DirectTyped /\ CommonInv /\ DirectPart
  BY DEF DirectInv, CommonInv
<1>2. Engaged /\ child.pc = "idle" /\ child.gen = hosting.run
  BY <1>1 DEF DirectPart, Echoes, Posts, Renewed, Engaged
<1>3. child.submits = hosting.batches /\ child.retired
  BY <1>1, <1>2 DEF DirectPart, Echoes, Posts, Renewed, Reported, ResultsGood
<1>4. child.grant = hosting.run
  BY <1>1, <1>2, <1>3 DEF DirectPart, Echoes, Posts, Renewed, CommonInv, ChildShape
<1>5. QED
  BY <1>2, <1>3, <1>4

LEMMA HostResultsDirect == ASSUME DirectInv, ~orphan, HostResults PROVE DirectInv'
<1>1. DirectTyped /\ CommonInv /\ DirectPart
  BY DEF DirectInv, CommonInv
<1>2. CASE ~ResultsGood
  BY <1>2, QuitsDirect DEF HostResults, HostQuits
<1>3. CASE ResultsGood
  <2>1. HostGoes("waiting", "checked") /\ UNCHANGED <<block, cached, child, cpring, granted, orphan>>
        /\ block.done
    BY <1>3 DEF HostResults
  <2>2. HostMoves("waiting", "checked")
    BY <1>1, <2>1, HostMoving
  <2>3. DirectTyped' /\ RingInv'
    BY <1>1, <2>1, HostResultsTyped, HostGoesRing
  <2>4. /\ child.grant = hosting.run /\ child.retired /\ child.submits = hosting.batches
        /\ child.pc = "idle"
    BY <2>1, <2>2, <1>3, ResultsDirect DEF HostMoves
  <2>5. Granting' /\ ChildShape(child)'
    BY <1>1, <2>1, <2>2, <2>4, Scalars DEF CommonInv, Granting, HostMoves
  <2>6. Engaged /\ Engaged' /\ Open /\ Open' /\ (Posted' <=> Posted) /\ (Reported' <=> Reported)
        /\ Ticks(hosting) <= 1 /\ Ticks(hosting') = 0 /\ Ticks(hosting) \in Nat
    BY <2>1, <2>2 DEF Engaged, Open, Posted, Reported, Ticks, HostMoves
  <2>7. DirectPart'
    BY <1>1, <2>1, <2>2, <2>6, Scalars DEF DirectPart, Echoes, Posts, Renewed, HostMoves
  <2>8. QED
    BY <2>3, <2>5, <2>7 DEF DirectInv, CommonInv
<1>4. QED
  BY <1>2, <1>3

(* The lease ends with the program: back to closing, or from it. *)
LEMMA EndsDirect ==
  ASSUME DirectInv, DirectTyped', RingInv', UNCHANGED <<block, child>>, ~granted'.lease,
         hosting'.run = hosting.run, hosting'.next = hosting.next, hosting'.batches = hosting.batches,
         \/ hosting.pc = "checked" /\ hosting'.pc = "closing"
         \/ hosting.pc = "closing" /\ hosting'.pc = "start"
  PROVE  DirectInv'
<1>1. DirectTyped /\ CommonInv /\ DirectPart
  BY DEF DirectInv, CommonInv
<1>2. Granting' /\ ChildShape(child)'
  BY <1>1, Scalars DEF CommonInv, Granting
<1>3. ~Engaged' /\ (Open' <=> Open) /\ (Posted' <=> Posted) /\ (Reported' <=> Reported)
  BY <1>1 DEF Engaged, Open, Posted, Reported, DirectPart, Echoes, Posts, Renewed, CommonInv, Granting
<1>4. DirectPart'
  BY <1>1, <1>3, Scalars DEF DirectPart, Echoes, Posts, Renewed
<1>5. QED
  BY <1>2, <1>4 DEF DirectInv, CommonInv

LEMMA HostReleaseDirect == ASSUME DirectInv, ~orphan, HostRelease PROVE DirectInv'
<1>1. DirectTyped /\ CommonInv /\ DirectPart /\ granted \in DriverRecord
  BY DEF DirectInv, CommonInv, DirectTyped
<1>2. DirectTyped' /\ RingInv'
  BY <1>1, HostReleaseTyped, HostReleaseRing
<1>3. hosting.pc = "checked" /\ granted.lease
  BY <1>1 DEF HostRelease, DirectPart, Echoes, Posts, Renewed
<1>4. CASE /\ granted' = [RadeonCpAdoptFence(granted, hosting.last) EXCEPT !.lease = FALSE]
           /\ hosting' = [hosting EXCEPT !.pc = "closing", !.due = FALSE,
                                         !.ok = cpring.scratch = hosting.last]
           /\ UNCHANGED <<block, cached, child, orphan>>
  <2>1. hosting'.pc = "closing" /\ hosting'.run = hosting.run /\ hosting'.next = hosting.next
        /\ hosting'.batches = hosting.batches
    BY <1>1, <1>4 DEF DirectTyped, HostRecord
  <2>2. ~granted'.lease
    <3>1. hosting.last \in Seqs
      BY <1>1 DEF DirectTyped, HostRecord
    <3> DEFINE g == RadeonCpAdoptFence(granted, hosting.last)
    <3>2. g \in DriverRecord
      BY <1>1, <3>1, PassedTyped
    <3>3. granted' = [g EXCEPT !.lease = FALSE]
      BY <1>4
    <3> HIDE DEF g
    <3>4. QED
      BY <3>2, <3>3 DEF DriverRecord
  <2>3. QED
    BY <1>2, <1>3, <1>4, <2>1, <2>2, EndsDirect
<1>5. CASE RecoverRing(granted) /\ HostGoes("checked", "closing") /\ UNCHANGED <<block, cached, child, orphan>>
  BY <1>1, <1>5, HostMoving, Recovers, <1>2, <1>3, EndsDirect DEF HostMoves
<1>6. QED
  BY <1>3, <1>4, <1>5 DEF HostRelease

LEMMA HostCloseDirect == ASSUME DirectInv, ~orphan, HostClose PROVE DirectInv'
<1>1. DirectTyped /\ CommonInv /\ DirectPart /\ granted \in DriverRecord
  BY DEF DirectInv, CommonInv, DirectTyped
<1>2. DirectTyped' /\ RingInv'
  BY <1>1, HostCloseTyped, HostCloseRing
<1>3. HostMoves("closing", "start") /\ UNCHANGED <<block, child>>
  BY <1>1, HostMoving DEF HostClose
<1>4. ~granted'.lease
  BY <1>1, PassedTyped DEF HostClose, DriverRecord, RadeonCpAdoptFence
<1>5. QED
  BY <1>2, <1>3, <1>4, EndsDirect DEF HostMoves

(* The child at work, from the space to the fence, is alike in both forms.  *)
LEMMA WorkKeeps ==
  ASSUME DirectTyped, CommonInv, DirectTyped', RingInv', ChildShape(child'),
         UNCHANGED <<block, hosting, granted>>,
         child.pc \in WorkingPcs, child'.pc \in WorkingPcs \cup {"result"},
         child'.gen = child.gen, child'.grant = child.grant, child'.next = child.next,
         child'.batches = child.batches
  PROVE  CommonInv' /\ (DirectPart => DirectPart')
<1>1. Granting'
  BY Scalars DEF WorkingPcs, FillingPcs, NoChild, CommonInv, Granting
<1>2. DirectPart => DirectPart'
  <2> SUFFICES ASSUME DirectPart PROVE DirectPart'
    OBVIOUS
  <2>1. (Engaged' <=> Engaged) /\ (Open' <=> Open) /\ (Posted' <=> Posted) /\ Ticks(hosting') = Ticks(hosting)
    BY DEF Engaged, Open, Posted, Ticks
  <2>2. child'.pc \in Echoed /\ child.pc \in Echoed
        /\ child'.pc \notin {"mark", "idle", "validate", "clear", "echo", "done", "range"}
    BY DEF Echoed, WorkingPcs, FillingPcs
  <2>3. DirectPart'
    BY <2>1, <2>2, Scalars DEF DirectPart, Echoes, Posts, Renewed
  <2>4. QED
    BY <2>3
<1>3. QED
  BY <1>1, <1>2 DEF CommonInv

LEMMA WorkSame ==
  ASSUME CommonInv, \/ ChildReserve
                 \/ ChildWrite
                 \/ ChildCommit
                 \/ ChildRetire
  PROVE  /\ UNCHANGED <<block, cached, hosting, granted>> /\ child.pc \in WorkingPcs
            /\ child'.pc \in WorkingPcs \cup {"result"}
         /\ child'.gen = child.gen /\ child'.grant = child.grant /\ child'.next = child.next
            /\ child'.batches = child.batches
         /\ child'.stage # "ring_range"
<1>1. DirectTyped /\ child \in ChildRecord /\ (child.pc \in WorkingPcs => child.stage = "ok")
  BY DEF CommonInv, DirectTyped, ChildShape
<1>2. {"reserve", "write", "rest", "back", "fence"} \subseteq WorkingPcs
  BY DEF WorkingPcs, FillingPcs
<1>3. ASSUME NEW from \in WorkingPcs, NEW to \in WorkingPcs, ChildGoes(from, to)
      PROVE  /\ child.pc \in WorkingPcs /\ child'.pc \in WorkingPcs /\ child'.stage = child.stage
             /\ child'.gen = child.gen /\ child'.grant = child.grant /\ child'.next = child.next
                /\ child'.batches = child.batches
  BY <1>1, <1>3, ChildMoving DEF ChildSame
<1>4. ASSUME NEW from \in WorkingPcs, NEW stage, stage # "ring_range", ChildFails(from, stage)
      PROVE  /\ child.pc \in WorkingPcs /\ child'.pc = "result" /\ child'.stage # "ring_range"
             /\ child'.gen = child.gen /\ child'.grant = child.grant /\ child'.next = child.next
                /\ child'.batches = child.batches
             /\ UNCHANGED <<block, cached, hosting, granted>>
  BY <1>1, <1>4, ChildStopping DEF ChildSame, ChildFails
<1>5. CASE ChildReserve
  <2>1. CASE ChildGoes("reserve", "write") /\ UNCHANGED <<block, cached, hosting, granted>>
    BY <1>1, <1>2, <1>3, <2>1
  <2>2. CASE ChildFails("reserve", "reserve")
    BY <1>2, <1>4, <2>2
  <2>3. QED
    BY <1>5, <2>1, <2>2 DEF ChildReserve
<1>6. CASE ChildWrite
  <2>1. CASE child.pc = "write"
             /\ child' = [child EXCEPT !.pc = IF FirstRun < BatchUnits THEN "rest" ELSE "back"]
             /\ UNCHANGED <<block, cached, hosting, granted>>
    <3> DEFINE to == IF FirstRun < BatchUnits THEN "rest" ELSE "back"
    <3>1. to \in WorkingPcs /\ ChildGoes("write", to)
      BY <1>2, <2>1 DEF ChildGoes
    <3> HIDE DEF to
    <3>2. QED
      BY <1>1, <1>2, <1>3, <2>1, <3>1
  <2>2. CASE ChildGoes("rest", "back") /\ UNCHANGED <<block, cached, hosting, granted>>
    BY <1>1, <1>2, <1>3, <2>2
  <2>3. CASE ChildFails("back", "readback")
    BY <1>2, <1>4, <2>3
  <2>4. QED
    BY <1>6, <2>1, <2>2, <2>3 DEF ChildWrite
<1>7. CASE ChildCommit
  <2>1. UNCHANGED <<block, cached, hosting, granted>> /\ child.pc = "back"
    BY <1>7 DEF ChildCommit
  <2>2. CASE child' = [child EXCEPT !.pc = "result", !.stage = "wptr"]
    BY <1>1, <1>2, <2>1, <2>2, ChildStopping DEF ChildSame
  <2>3. CASE child' # [child EXCEPT !.pc = "result", !.stage = "wptr"]
    <3> DEFINE to == (child.wptr + BatchUnits) % RingUnits
               pc == IF child.batch + 1 < child.batches THEN "reserve" ELSE "fence"
               last == ChildSeq
    <3>1. child' = [child EXCEPT !.wptr = to, !.last = last, !.submits = @ + 1, !.batch = @ + 1, !.pc = pc]
          /\ pc \in WorkingPcs
      BY <1>2, <1>7, <2>3 DEF ChildCommit
    <3> HIDE DEF to, pc, last
    <3>2. QED
      BY <1>1, <1>2, <2>1, <3>1 DEF ChildRecord
  <2>4. QED
    BY <2>2, <2>3
<1>8. CASE ChildRetire
  <2>1. CASE ChildFails("fence", "fence")
    BY <1>2, <1>4, <2>1
  <2>2. CASE child.pc = "fence" /\ child' = [child EXCEPT !.pc = "result", !.retired = TRUE]
             /\ UNCHANGED <<block, cached, hosting, granted>>
    BY <1>1, <1>2, <2>2 DEF ChildRecord
  <2>3. QED
    BY <1>8, <2>1, <2>2 DEF ChildRetire
<1>9. QED
  BY <1>5, <1>6, <1>7, <1>8

LEMMA WorkRing ==
  ASSUME CommonInv, ~orphan, \/ ChildReserve
                          \/ ChildWrite
                          \/ ChildCommit
                          \/ ChildRetire
  PROVE  DirectTyped' /\ RingInv' /\ ChildShape(child')
<1>1. DirectTyped /\ ChildShape(child)
  BY DEF CommonInv
<1>2. CASE ChildReserve
  BY <1>1, <1>2, ChildReserveTyped, ChildReserveRing, ShapeCommon
<1>3. CASE ChildWrite
  BY <1>1, <1>3, ChildWriteTyped, ChildWriteRing, ShapeCommon
<1>4. CASE ChildCommit
  BY <1>1, <1>4, ChildCommitTyped, ChildCommitRing, ShapeCommon DEF ChildShape, ChildCommit, WorkingPcs, FillingPcs
<1>5. CASE ChildRetire
  BY <1>1, <1>5, ChildRetireTyped, ChildRetireRing, ShapeCommon
<1>6. QED
  BY <1>2, <1>3, <1>4, <1>5

LEMMA WorkDirect ==
  ASSUME DirectInv, ~orphan, \/ ChildReserve
                             \/ ChildWrite
                             \/ ChildCommit
                             \/ ChildRetire
  PROVE  DirectInv'
<1>1. DirectTyped /\ CommonInv /\ DirectPart
  BY DEF DirectInv, CommonInv
<1>2. QED
  BY <1>1, WorkSame, WorkRing, WorkKeeps DEF DirectInv

LEMMA ChildStartDirect == ASSUME DirectInv, ~orphan, ChildStart PROVE DirectInv'
<1>1. DirectTyped /\ CommonInv /\ DirectPart
  BY DEF DirectInv, CommonInv
<1>2. DirectTyped'
  BY <1>1, ChildStartTyped
<1>3. /\ child.pc = "idle" /\ hosting.pc = "arrival" /\ child'.pc = "validate" /\ child'.gen = 0
         /\ child'.grant = 0 /\ child'.submits = 0
      /\ child'.batch = 0 /\ child'.stage = "ok" /\ ~child'.retired
         /\ UNCHANGED <<block, hosting, cpring, granted, orphan>>
  BY DEF ChildStart, NoChild
<1>4. ~granted.lease /\ hosting.run > 0
  BY <1>1, <1>3 DEF CommonInv, Granting
<1>5. RingInv'
  BY <1>1, <1>3, <1>4, NoLeaseRing DEF CommonInv, RingInv
<1>6. ChildShape(child')
  BY <1>3 DEF ChildShape, ReadingPcs, WorkingPcs, FillingPcs
<1>7. Granting'
  BY <1>1, <1>3, <1>4, Scalars DEF CommonInv, Granting
<1>8. ~Engaged /\ ~Engaged' /\ ~Open /\ ~Open' /\ child'.pc \notin Echoed
  BY <1>3 DEF Engaged, Open, Echoed, WorkingPcs, FillingPcs
<1>9. DirectPart'
  BY <1>1, <1>3, <1>4, <1>8, Scalars DEF DirectPart, Echoes, Posts, Renewed
<1>10. QED
  BY <1>2, <1>5, <1>6, <1>7, <1>9 DEF DirectInv, CommonInv

LEMMA ChildValidateDirect == ASSUME DirectInv, ~orphan, ChildValidate PROVE DirectInv'
<1>1. DirectTyped /\ CommonInv /\ DirectPart
  BY DEF DirectInv, CommonInv
<1>2. DirectTyped'
  BY <1>1, ChildValidateTyped
<1>3. PICK to \in {"clear", "idle"} : ChildGoes("validate", to)
      /\ UNCHANGED <<block, hosting, cpring, granted, orphan>>
  <2> DEFINE to == IF Load("first", P0FlushRange({"first"})).magic THEN "clear" ELSE "idle"
  <2>1. to \in {"clear", "idle"}
    OBVIOUS
  <2>2. ChildGoes("validate", to) /\ UNCHANGED <<block, hosting, cpring, granted, orphan>>
    BY DEF ChildValidate
  <2> HIDE DEF to
  <2>3. QED
    BY <2>1, <2>2
<1>4. child.pc = "validate" /\ child'.pc = to /\ child'.stage = child.stage /\ child'.retired = child.retired
      /\ ChildSame
  BY <1>1, <1>3, ChildMoving
<1>5. RingInv'
  BY <1>1, <1>3, ChildGoesRing DEF FillingPcs
<1>6. ChildShape(child')
  BY <1>1, <1>3, ShapeGoes DEF CommonInv, ReadingPcs, WorkingPcs, FillingPcs
<1>7. Granting'
  BY <1>4, <1>1, <1>3, Scalars DEF NoChild, WorkingPcs, FillingPcs, CommonInv, Granting, ChildSame
<1>8. ~Engaged
  BY <1>1, <1>4 DEF DirectPart, Echoes, Posts, Renewed, Echoed, WorkingPcs, FillingPcs
<1>9. ~Engaged' /\ (Open' <=> Open) /\ (Posted' <=> Posted) /\ child'.pc \notin Echoed \cup {"echo"}
      /\ Ticks(hosting') = Ticks(hosting)
      /\ child'.pc \notin {"range", "mark", "done"} \cup WorkingPcs
  BY <1>3, <1>4, <1>8 DEF Engaged, Open, Posted, Echoed, WorkingPcs, FillingPcs
<1>10. DirectPart'
  BY <1>1, <1>3, <1>4, <1>9, Scalars DEF DirectPart, Echoes, Posts, Renewed, ChildSame
<1>11. QED
  BY <1>2, <1>5, <1>6, <1>7, <1>10 DEF DirectInv, CommonInv

LEMMA ChildClearDirect == ASSUME DirectInv, ~orphan, ChildClear PROVE DirectInv'
<1>1. DirectTyped /\ CommonInv /\ DirectPart
  BY DEF DirectInv, CommonInv
<1>2. DirectTyped'
  BY <1>1, ChildClearTyped
<1>3. ChildGoes("clear", "echo") /\ UNCHANGED <<hosting, cpring, granted, orphan>>
      /\ block' = ClearRegion(block)
  BY DEF ChildClear
<1>4. child.pc = "clear" /\ child'.pc = "echo" /\ child'.stage = child.stage /\ child'.retired = child.retired
      /\ ChildSame
  BY <1>1, <1>3, ChildMoving
<1>5. /\ block'.ready = block.ready /\ block'.gen = block.gen /\ block'.ring = block.ring
         /\ block'.bar = block.bar
      /\ block'.fence = block.fence /\ block'.batches = block.batches /\ ~block'.done
         /\ block'.echo = block.echo
  BY <1>1, <1>3 DEF ClearRegion, DirectTyped, BlockRecord
<1>6. RingInv'
  BY <1>1, <1>3, ChildGoesRing DEF FillingPcs
<1>7. ChildShape(child')
  BY <1>1, <1>3, ShapeGoes DEF CommonInv, ReadingPcs, WorkingPcs, FillingPcs
<1>8. Granting'
  BY <1>4, <1>1, <1>3, <1>5, Scalars DEF NoChild, WorkingPcs, FillingPcs, CommonInv, Granting, ChildSame
<1>9. ~Engaged
  BY <1>1, <1>4 DEF DirectPart, Echoes, Posts, Renewed, Echoed, WorkingPcs, FillingPcs
<1>10. ~Engaged' /\ (Open' <=> Open) /\ (Posted' <=> Posted) /\ child'.pc \notin Echoed
       /\ Ticks(hosting') = Ticks(hosting)
      /\ child'.pc \notin {"range", "mark", "done"} \cup WorkingPcs
  BY <1>3, <1>4, <1>5, <1>9 DEF Engaged, Open, Posted, Echoed, WorkingPcs, FillingPcs
<1>11. DirectPart'
  BY <1>1, <1>3, <1>4, <1>5, <1>10, Scalars DEF DirectPart, Echoes, Posts, Renewed, ChildSame
<1>12. QED
  BY <1>2, <1>6, <1>7, <1>8, <1>11 DEF DirectInv, CommonInv

LEMMA ChildEchoDirect == ASSUME DirectInv, ~orphan, ChildEcho PROVE DirectInv'
<1>1. DirectTyped /\ CommonInv /\ DirectPart
  BY DEF DirectInv, CommonInv
<1>2. DirectTyped'
  BY <1>1, ChildEchoTyped
<1>3. CASE ChildGoes("present", "poll") /\ block' = [block EXCEPT !.present = TRUE]
           /\ UNCHANGED <<cached, hosting, cpring, granted, orphan>>
  <2>1. child.pc = "present" /\ child'.pc = "poll" /\ child'.stage = child.stage
        /\ child'.retired = child.retired /\ ChildSame
    BY <1>1, <1>3, ChildMoving
  <2>2. /\ block'.ready = block.ready /\ block'.gen = block.gen /\ block'.ring = block.ring
           /\ block'.bar = block.bar
        /\ block'.fence = block.fence /\ block'.batches = block.batches /\ block'.done = block.done
           /\ block'.echo = block.echo
    BY <1>1, <1>3 DEF DirectTyped, BlockRecord
  <2>3. RingInv'
    BY <1>1, <1>3, ChildGoesRing DEF FillingPcs
  <2>4. ChildShape(child')
    BY <1>1, <1>3, ShapeGoes DEF CommonInv, ReadingPcs, WorkingPcs, FillingPcs
  <2>5. Granting'
    BY <2>1, <1>1, <1>3, <2>2, Scalars DEF NoChild, WorkingPcs, FillingPcs, CommonInv, Granting, ChildSame
  <2>6. (Engaged' <=> Engaged) /\ (Open' <=> Open) /\ (Posted' <=> Posted) /\ Ticks(hosting') = Ticks(hosting)
        /\ child'.pc \in Echoed /\ child.pc \in Echoed
        /\ child'.pc \notin {"range", "mark", "done", "idle", "validate", "clear"} \cup WorkingPcs
    BY <1>3, <2>1, <2>2 DEF Engaged, Open, Posted, Echoed, WorkingPcs, FillingPcs
  <2>7. DirectPart'
    BY <1>1, <1>3, <2>1, <2>2, <2>6, Scalars DEF DirectPart, Echoes, Posts, Renewed, ChildSame
  <2>8. QED
    BY <1>2, <2>3, <2>4, <2>5, <2>7 DEF DirectInv, CommonInv
<1>4. CASE ~(ChildGoes("present", "poll") /\ block' = [block EXCEPT !.present = TRUE] /\ UNCHANGED <<cached, hosting, cpring, granted, orphan>>)
  <2>1. /\ child.pc = "echo" /\ child' = [child EXCEPT !.pc = "present", !.gen = block.gen]
           /\ block' = [block EXCEPT !.echo = block.gen]
        /\ UNCHANGED <<hosting, cpring, granted, orphan>>
    <3>1. Load("first", P0FlushRange({"first"})) = FirstLine
      BY <1>1, FreshLoad
    <3>2. Load("first", P0FlushRange({"first"})).gen = block.gen
      BY <3>1 DEF FirstLine
    <3>3. QED
      BY <1>4, <3>2 DEF ChildEcho
  <2>2. /\ child'.pc = "present" /\ child'.gen = block.gen /\ child'.grant = child.grant
           /\ child'.submits = child.submits
        /\ child'.batch = child.batch /\ child'.stage = child.stage /\ child'.retired = child.retired
           /\ child'.last = child.last
        /\ child'.next = child.next /\ child'.batches = child.batches
    BY <1>1, <2>1 DEF DirectTyped, ChildRecord
  <2>3. /\ block'.ready = block.ready /\ block'.gen = block.gen /\ block'.ring = block.ring
           /\ block'.bar = block.bar
        /\ block'.fence = block.fence /\ block'.batches = block.batches /\ block'.done = block.done
           /\ block'.echo = block.gen
    BY <1>1, <2>1 DEF DirectTyped, BlockRecord
  <2>4. child'.pc \notin {"range", "mark", "done", "idle", "validate", "clear"} \cup WorkingPcs
        /\ child'.pc \notin FillingPcs
    BY <2>2 DEF WorkingPcs, FillingPcs
  <2>5. child.grant = 0 /\ child.submits = 0 /\ child.batch = 0 /\ child.stage = "ok" /\ ~child.retired
    BY <1>1, <2>1 DEF CommonInv, ChildShape, ReadingPcs
  <2>6. RingInv'
    <3>1. QuietChild
      BY <2>2, <2>4 DEF QuietChild
    <3>2. QED
      BY <1>1, <2>1, <3>1, SameHost, SameDriver, QuietKeeps DEF CommonInv
  <2>7. ChildShape(child')
    BY <2>2, <2>4, <2>5 DEF ChildShape
  <2>8. Granting'
    <3>1. child # NoChild
      BY <2>1 DEF NoChild
    <3>2. QED
      BY <1>1, <2>1, <2>2, <2>3, <2>4, <3>1, Scalars DEF CommonInv, Granting
  <2>9. (Engaged' <=> Engaged) /\ (Open' <=> Open) /\ (Posted' <=> Posted) /\ Ticks(hosting') = Ticks(hosting)
        /\ child'.pc \in Echoed
        /\ (Engaged => hosting.pc \notin {"opened", "announcing"})
    BY <2>1, <2>2, <2>3 DEF Engaged, Open, Posted, Echoed
  <2>10. DirectPart'
    BY <1>1, <2>1, <2>2, <2>3, <2>4, <2>5, <2>9, Scalars DEF DirectPart, Echoes, Posts, Renewed
  <2>11. QED
    BY <1>2, <2>6, <2>7, <2>8, <2>10 DEF DirectInv, CommonInv
<1>5. QED
  BY <1>3, <1>4

LEMMA ChildPollDirect == ASSUME DirectInv, ~orphan, ChildPoll PROVE DirectInv'
<1>1. DirectTyped /\ CommonInv /\ DirectPart
  BY DEF DirectInv, CommonInv
<1>2. DirectTyped'
  BY <1>1, ChildPollTyped
<1>3. UNCHANGED <<block, hosting, cpring, granted, orphan>> /\ child.pc = "poll"
  BY DEF ChildPoll, ChildGoes
<1>4. \/ block.ready /\ ChildGoes("poll", "range")
      \/ child' = child
      \/ child' = [child EXCEPT !.pc = "result", !.stage = "host_wait"]
  BY <1>1, FreshLoad DEF PollLines, FirstLine, ChildPoll
<1>5. child.grant = 0 /\ ~child.retired /\ child # NoChild
  BY <1>1, <1>3 DEF CommonInv, ChildShape, ReadingPcs, NoChild
<1>6. CASE child' = child
  <2>1. RingInv'
    BY <1>1, <1>3, <1>6, SameHost, SameChild, SameDriver, QuietKeeps DEF CommonInv
  <2>2. Granting' /\ ChildShape(child')
    BY <1>1, <1>3, <1>6 DEF CommonInv, Granting
  <2>3. (Engaged' <=> Engaged) /\ (Open' <=> Open) /\ (Posted' <=> Posted) /\ (Reported' <=> Reported)
        /\ Ticks(hosting') = Ticks(hosting)
    BY <1>3, <1>6 DEF Engaged, Open, Posted, Reported
  <2>4. DirectPart'
    BY <1>1, <1>3, <1>6, <2>3 DEF DirectPart, Echoes, Posts, Renewed
  <2>5. QED
    BY <1>2, <2>1, <2>2, <2>4 DEF DirectInv, CommonInv
<1>7. CASE child' = [child EXCEPT !.pc = "result", !.stage = "host_wait"]
  <2>1. child'.pc = "result" /\ child'.stage = "host_wait" /\ child'.retired = child.retired /\ ChildSame
    BY <1>1, <1>7, ChildStopping
  <2>2. RingInv'
    BY <1>1, <1>3, <1>7, ChildStopsRing
  <2>3. ChildShape(child')
    BY <1>1, <1>5, <1>7, ShapeStops DEF CommonInv
  <2>4. Granting'
    BY <2>1, <1>1, <1>3, <1>5, Scalars DEF WorkingPcs, FillingPcs, CommonInv, Granting, ChildSame
  <2>5. (Engaged' <=> Engaged) /\ (Open' <=> Open) /\ (Posted' <=> Posted) /\ Ticks(hosting') = Ticks(hosting)
        /\ child'.pc \in Echoed /\ child.pc \in Echoed
        /\ child'.pc \notin {"range", "mark", "done", "idle", "validate", "clear"} \cup WorkingPcs
    BY <1>3, <2>1 DEF Engaged, Open, Posted, Echoed, WorkingPcs, FillingPcs
  <2>6. DirectPart'
    BY <1>1, <1>3, <1>5, <2>1, <2>5, Scalars DEF DirectPart, Echoes, Posts, Renewed, ChildSame
  <2>7. QED
    BY <1>2, <2>2, <2>3, <2>4, <2>6 DEF DirectInv, CommonInv
<1>8. CASE block.ready /\ ChildGoes("poll", "range")
  <2>1. child'.pc = "range" /\ child'.stage = child.stage /\ child'.retired = child.retired /\ ChildSame
    BY <1>1, <1>8, ChildMoving
  <2>2. RingInv'
    BY <1>1, <1>3, <1>8, ChildGoesRing DEF FillingPcs
  <2>3. ChildShape(child')
    BY <1>1, <1>8, ShapeGoes DEF CommonInv, ReadingPcs, WorkingPcs, FillingPcs
  <2>4. Granting'
    BY <2>1, <1>1, <1>3, <1>5, Scalars DEF WorkingPcs, FillingPcs, CommonInv, Granting, ChildSame
  <2>5. (Engaged' <=> Engaged) /\ (Open' <=> Open) /\ (Posted' <=> Posted) /\ Ticks(hosting') = Ticks(hosting)
        /\ child'.pc \in Echoed /\ child.pc \in Echoed
        /\ child'.pc \notin {"mark", "done", "idle", "validate", "clear"} \cup WorkingPcs
    BY <1>3, <2>1 DEF Engaged, Open, Posted, Echoed, WorkingPcs, FillingPcs
  <2>6. child.gen = hosting.run => Open
    BY <1>1, <1>5, Scalars, <1>8 DEF CommonInv, Granting, DirectPart, Echoes, Posts, Renewed, Open
  <2>7. DirectPart'
    BY <1>1, <1>3, <1>5, <2>1, <2>5, <2>6, Scalars DEF DirectPart, Echoes, Posts, Renewed, ChildSame
  <2>8. QED
    BY <1>2, <2>2, <2>3, <2>4, <2>7 DEF DirectInv, CommonInv
<1>9. QED
  BY <1>4, <1>6, <1>7, <1>8

(* The child takes what the descriptors say. *)
LEMMA TakenFields ==
  ASSUME DirectTyped, ChildShape(child), child.pc = "range", NEW first \in FirstLines,
         NEW second \in SecondLines, TakesGrant(first, second)
  PROVE  /\ child'.gen = child.gen
         /\ \/ /\ first.ring = 0 \/ ~second.bar
               /\ child'.pc = "result" /\ child'.grant = 0 /\ child'.stage = "ring_range" /\ ~child'.retired
            \/ /\ first.ring # 0 /\ second.bar
               /\ child'.pc = "reserve" /\ child'.grant = first.ring /\ child'.stage = "ok" /\ ~child'.retired
               /\ child'.next = (IF second.fence = 0 THEN 1 ELSE second.fence)
                  /\ child'.batches = WantedBatches(second.batches)
<1>1. child.grant = 0 /\ ~child.retired /\ child.stage = "ok" /\ child \in ChildRecord
  BY DEF ChildShape, ReadingPcs, DirectTyped
<1>2. CASE first.ring = 0 \/ ~second.bar
  BY <1>2, <1>1 DEF TakesGrant, ChildRecord
<1>3. CASE ~(first.ring = 0 \/ ~second.bar)
  <2> DEFINE ring == first.ring
             next == IF second.fence = 0 THEN 1 ELSE second.fence
             batches == IF second.batches = 0 THEN BatchDefault ELSE second.batches
             w == cpring.wptr
  <2>1. child' = [child EXCEPT !.pc = "reserve", !.grant = ring, !.next = next, !.batches = batches, !.wptr = w] /\ ring # 0
    BY <1>3 DEF TakesGrant
  <2>2. second.bar /\ batches = WantedBatches(second.batches)
    BY <1>3 DEF SecondLines, WantedBatches
  <2> HIDE DEF next, batches, w
  <2>3. child'.gen = child.gen /\ child'.pc = "reserve" /\ child'.grant = ring /\ child'.stage = "ok"
        /\ ~child'.retired
        /\ child'.next = next /\ child'.batches = batches
    BY <1>1, <2>1 DEF ChildRecord
  <2>4. QED
    BY <2>1, <2>2, <2>3 DEF next
<1>4. QED
  BY <1>2, <1>3

LEMMA ChildDescriptorsDirect == ASSUME DirectInv, ~orphan, ChildDescriptors PROVE DirectInv'
<1>1. DirectTyped /\ CommonInv /\ DirectPart /\ block \in BlockRecord
  BY DEF DirectInv, CommonInv, DirectTyped
<1>2. DirectTyped' /\ TakesGrant(FirstLine, SecondLine)
  BY <1>1, ChildDescriptorsTyped
<1>3. UNCHANGED <<block, hosting, cpring, granted, orphan>> /\ child.pc = "range"
  BY DEF ChildDescriptors
<1>4. FirstLine \in FirstLines /\ SecondLine \in SecondLines
  BY <1>1, LinesTyped DEF LineNow
<1>5. FirstLine.ring = block.ring /\ SecondLine.bar = block.bar /\ SecondLine.fence = block.fence
      /\ SecondLine.batches = block.batches
  BY DEF FirstLine, SecondLine
<1>6. /\ child'.gen = child.gen
      /\ \/ /\ block.ring = 0 \/ ~block.bar
            /\ child'.pc = "result" /\ child'.grant = 0 /\ child'.stage = "ring_range" /\ ~child'.retired
         \/ /\ block.ring # 0 /\ block.bar
            /\ child'.pc = "reserve" /\ child'.grant = block.ring /\ child'.stage = "ok" /\ ~child'.retired
            /\ child'.next = (IF block.fence = 0 THEN 1 ELSE block.fence)
               /\ child'.batches = WantedBatches(block.batches)
  <2>1. ChildShape(child)
    BY <1>1 DEF CommonInv
  <2>2. QED
    BY <1>1, <1>2, <1>3, <1>4, <1>5, <2>1, TakenFields
<1>7. child # NoChild
  BY <1>3 DEF NoChild
<1>8. hosting.run > 0
  BY <1>1, <1>7, Scalars DEF CommonInv, Granting
<1>9. child.gen = hosting.run => Open /\ Posted
  BY <1>1, <1>3 DEF DirectPart, Echoes, Posts, Renewed
<1>10. Engaged => child.gen = hosting.run
  BY <1>1, <1>3 DEF DirectPart, Echoes, Posts, Renewed, Echoed
<1>11. granted.lease => Engaged
  BY <1>1 DEF Engaged, CommonInv, Granting
<1>12. child.gen = hosting.run =>
         child'.grant = hosting.run /\ child'.pc = "reserve" /\ child'.next = hosting.next
                                  /\ child'.batches = WantedBatches(hosting.batches)
  BY <1>6, <1>8, <1>9, Scalars DEF Posted
<1>13. RingInv'
  BY <1>1, <1>2, <1>3, <1>4, <1>10, <1>11, <1>12, TakingRing
<1>14. ChildShape(child')
  BY <1>1, <1>2, <1>3, <1>4, ShapeTakes DEF CommonInv
<1>15. Granting'
  <2>1. hosting.pc \in {"leasing", "acquired", "filling", "flagging"} => FALSE
    BY <1>9, <1>10 DEF Engaged, Open
  <2>2. block.ring = hosting.run => hosting.pc \in {"waiting", "checked", "closing", "start"}
    BY <1>1, Scalars, <2>1 DEF DirectPart, Echoes, Posts, Renewed, HostPcs
  <2>3. hosting.pc = "checked" /\ granted.lease => FALSE
    BY <1>1, <1>3 DEF CommonInv, Granting
  <2>4. child'.grant <= hosting.run
        /\ (child'.grant = hosting.run => hosting.pc \in {"waiting", "checked", "closing", "start"})
    BY <1>1, <1>6, <1>8, <2>2, Scalars DEF CommonInv, Granting
  <2>5. granted.lease => child'.grant = hosting.run /\ child'.next = hosting.next /\ child'.batches = WantedBatches(hosting.batches)
    BY <1>10, <1>11, <1>12
  <2>6. QED
    BY <1>1, <1>3, <1>8, <2>1, <2>3, <2>4, <2>5 DEF CommonInv, Granting
<1>16. (Engaged' <=> Engaged) /\ (Open' <=> Open) /\ (Posted' <=> Posted) /\ Ticks(hosting') = Ticks(hosting)
       /\ child'.pc \in Echoed /\ child.pc \in Echoed
       /\ child'.pc \notin {"mark", "done", "idle", "validate", "clear", "range"}
  BY <1>3, <1>6 DEF Engaged, Open, Posted, Echoed, WorkingPcs, FillingPcs
<1>17. DirectPart'
  BY <1>1, <1>3, <1>6, <1>9, <1>12, <1>16, Scalars DEF DirectPart, Echoes, Posts, Renewed
<1>18. QED
  BY <1>2, <1>13, <1>14, <1>15, <1>17 DEF DirectInv, CommonInv

LEMMA ChildPublishDirect == ASSUME DirectInv, ~orphan, ChildPublish PROVE DirectInv'
<1>1. DirectTyped /\ CommonInv /\ DirectPart /\ block \in BlockRecord
  BY DEF DirectInv, CommonInv, DirectTyped
<1>2. DirectTyped'
  BY <1>1, ChildPublishTyped
<1>3. CASE ChildGoes("result", "done") /\ block' = PpcPublishResults(block)
           /\ UNCHANGED <<cached, hosting, cpring, granted, orphan>>
  <2>1. child.pc = "result" /\ child'.pc = "done" /\ child'.stage = child.stage
        /\ child'.retired = child.retired /\ ChildSame
    BY <1>1, <1>3, ChildMoving
  <2>2. /\ block'.ready = block.ready /\ block'.gen = block.gen /\ block'.ring = block.ring
           /\ block'.bar = block.bar
        /\ block'.fence = block.fence /\ block'.batches = block.batches /\ block'.done = block.done
           /\ block'.echo = child.gen
        /\ block'.submits = child.submits /\ block'.retired = child.retired /\ block'.stage = child.stage
    BY <1>1, <1>3 DEF BlockRecord, PpcPublishResults
  <2>3. RingInv'
    BY <1>1, <1>3, ChildGoesRing DEF FillingPcs
  <2>4. ChildShape(child')
    BY <1>1, <1>3, ShapeGoes DEF CommonInv, ReadingPcs, WorkingPcs, FillingPcs
  <2>5. Granting'
    BY <2>1, <1>1, <1>3, <2>2, Scalars DEF NoChild, WorkingPcs, FillingPcs, CommonInv, Granting, ChildSame
  <2>6. (Engaged' <=> Engaged) /\ (Open' <=> Open) /\ (Posted' <=> Posted) /\ Ticks(hosting') = Ticks(hosting)
        /\ Reported'
        /\ child'.pc \in Echoed /\ child.pc \in Echoed
        /\ child'.pc \notin {"range", "mark", "idle", "validate", "clear"} \cup WorkingPcs
    BY <1>3, <2>1, <2>2 DEF Engaged, Open, Posted, Echoed, WorkingPcs, FillingPcs, Reported, ChildSame
  <2>7. DirectPart'
    BY <1>1, <1>3, <2>1, <2>2, <2>6, Scalars DEF DirectPart, Echoes, Posts, Renewed, ChildSame
  <2>8. QED
    BY <1>2, <2>3, <2>4, <2>5, <2>7 DEF DirectInv, CommonInv
<1>4. CASE ChildGoes("done", "idle") /\ block' = [block EXCEPT !.done = TRUE]
           /\ UNCHANGED <<cached, hosting, cpring, granted, orphan>>
  <2>1. child.pc = "done" /\ child'.pc = "idle" /\ child'.stage = child.stage /\ child'.retired = child.retired
        /\ ChildSame
    BY <1>1, <1>4, ChildMoving
  <2>2. /\ block'.ready = block.ready /\ block'.gen = block.gen /\ block'.ring = block.ring
           /\ block'.bar = block.bar
        /\ block'.fence = block.fence /\ block'.batches = block.batches /\ block'.done
           /\ block'.echo = block.echo
        /\ block'.submits = block.submits /\ block'.retired = block.retired /\ block'.stage = block.stage
    BY <1>1, <1>4 DEF BlockRecord
  <2>3. RingInv'
    BY <1>1, <1>4, ChildGoesRing DEF FillingPcs
  <2>4. ChildShape(child')
    BY <1>1, <1>4, ShapeGoes DEF CommonInv, ReadingPcs, WorkingPcs, FillingPcs
  <2>5. Granting'
    BY <2>1, <1>1, <1>4, <2>2, Scalars DEF NoChild, WorkingPcs, FillingPcs, CommonInv, Granting, ChildSame
  <2>6. (Engaged' <=> Engaged) /\ (Open' <=> Open) /\ (Posted' <=> Posted) /\ Ticks(hosting') = Ticks(hosting)
        /\ (Reported => Reported')
        /\ child.pc \in Echoed /\ child'.pc \notin Echoed
        /\ child'.pc \notin {"range", "mark", "done", "validate", "clear", "echo"} \cup WorkingPcs
    BY <1>4, <2>1, <2>2 DEF Engaged, Open, Posted, Echoed, WorkingPcs, FillingPcs, Reported, ChildSame
  <2>7. DirectPart'
    BY <1>1, <1>4, <2>1, <2>2, <2>6, Scalars DEF DirectPart, Echoes, Posts, Renewed, ChildSame
  <2>8. QED
    BY <1>2, <2>3, <2>4, <2>5, <2>7 DEF DirectInv, CommonInv
<1>5. QED
  BY <1>3, <1>4 DEF ChildPublish

LEMMA InitTyped ==
  ASSUME DirectInit
  PROVE  DirectTyped /\ RingInv /\ ~orphan /\ hosting = NoHost /\ child = NoChild /\ ~granted.lease
         /\ granted.age = 0
<1>1. hosting \in HostRecord /\ child \in ChildRecord /\ orphan \in BOOLEAN /\ hosting = NoHost
      /\ child = NoChild /\ ~orphan
  BY NoneTyped, Names DEF DirectInit
<1>2. CachedTyped(cached)
  BY ClearedGood DEF DirectInit
<1>3. block \in BlockRecord
  <2>1. FirstSeqs \subseteq Seqs /\ BatchCounts \subseteq Nat /\ 0 \in Nat
    BY DirectRingAssumption DEF Seqs
  <2>2. [magic : {TRUE}, ready : {TRUE}, gen : {0}, ring : {0}, bar : {TRUE},
                fence : FirstSeqs, batches : BatchCounts, present : {TRUE}, done : {TRUE},
                echo : {0}, stage : {"ok"}, submits : BatchCounts, last : {1},
                retired : {TRUE}] \subseteq BlockRecord
    BY <2>1, Names, ZenonT(60) DEF BlockRecord
  <2>3. QED
    BY <2>2, NoneTyped DEF DirectInit
<1>4. PICK seq \in FirstSeqs, at \in FirstPlaces :
       /\ granted = [lease |-> FALSE, age |-> 0, next |-> seq, write |-> at, ready |-> TRUE, own |-> 0]
       /\ cpring = [words |-> [p \in 0 .. RingUnits - 1 |-> Unwritten], rptr |-> at, wptr |-> at,
                    scratch |-> SeqSum(seq, SeqRange - 1)]
  BY DEF DirectInit
<1>5. seq \in NextSeqs /\ seq \in Seqs \ {0} /\ at \in Places
  BY <1>4, DirectRingAssumption DEF NextSeqs, Seqs, Places
<1>6. granted \in DriverRecord /\ ~granted.lease /\ granted.age = 0 /\ granted.next = seq /\ granted.write = at
  BY <1>4, <1>5, Names DEF DriverRecord
<1> DEFINE words == [p \in 0 .. RingUnits - 1 |-> Unwritten]
           s == SeqSum(seq, SeqRange - 1)
<1>7. words \in [Places -> Units]
  <2>1. Unwritten \in Units
    BY Names DEF Unwritten, Units
  <2>2. QED
    BY <2>1 DEF Places
<1>8. s \in Seqs
  BY <1>5, RingConsts, SubMod DEF SeqSum, Seqs
<1>9. cpring \in RingRecord /\ cpring.rptr = at /\ cpring.wptr = at /\ cpring.scratch = s
  <2>1. cpring = [words |-> words, rptr |-> at, wptr |-> at, scratch |-> s]
    BY <1>4
  <2> HIDE DEF words, s
  <2>2. QED
    BY <2>1, <1>5, <1>7, <1>8 DEF RingRecord
<1>10. RingInv
  BY <1>5, <1>6, <1>9, FirstRing DEF RingInv
<1>11. QED
  BY <1>1, <1>2, <1>3, <1>6, <1>9, <1>10 DEF DirectTyped

LEMMA InitBlock == ASSUME DirectInit PROVE block.ring = 0 /\ block.gen = 0 /\ block.echo = 0
<1>1. CASE block = Blank
  BY <1>1 DEF Blank
<1>2. CASE block \in [magic : {TRUE}, ready : {TRUE}, gen : {0}, ring : {0}, bar : {TRUE},
                        fence : FirstSeqs, batches : BatchCounts, present : {TRUE}, done : {TRUE},
                        echo : {0}, stage : {"ok"}, submits : BatchCounts, last : {1}, retired : {TRUE}]
  BY <1>2
<1>3. QED
  BY <1>1, <1>2 DEF DirectInit

LEMMA InitCommon == ASSUME DirectInit PROVE CommonInv
<1>1. DirectTyped /\ RingInv /\ hosting = NoHost /\ child = NoChild /\ ~granted.lease
  BY InitTyped
<1>2. hosting.pc = "start" /\ hosting.run = 0
  BY <1>1 DEF NoHost
<1>3. child.pc = "idle" /\ child.grant = 0 /\ ~child.retired
  BY <1>1 DEF NoChild
<1>4. ChildShape(child)
  BY <1>3 DEF ChildShape, ReadingPcs, WorkingPcs, FillingPcs
<1>5. block.ring = 0
  BY InitBlock
<1>6. Granting
  BY <1>1, <1>2, <1>3, <1>5 DEF Granting, WorkingPcs, FillingPcs
<1>7. QED
  BY <1>1, <1>4, <1>6 DEF CommonInv

(* Both forms begin alike.                                                  *)
LEMMA InitDirect == ASSUME DirectInit PROVE DirectInv
<1>1. CommonInv /\ hosting = NoHost /\ child = NoChild /\ ~granted.lease
  BY InitCommon, InitTyped
<1>2. hosting.pc = "start" /\ hosting.run = 0
  BY <1>1 DEF NoHost
<1>3. child.pc = "idle" /\ child.grant = 0 /\ child.gen = 0
  BY <1>1 DEF NoChild
<1>4. block.gen = 0 /\ block.echo = 0
  BY InitBlock
<1>5. ~Engaged /\ ~Open /\ child.pc \notin Echoed \cup WorkingPcs
  BY <1>1, <1>2, <1>3 DEF Engaged, Open, Echoed, WorkingPcs, FillingPcs
<1>6. DirectPart
  BY <1>2, <1>3, <1>4, <1>5 DEF DirectPart, Echoes, Posts, Renewed
<1>7. QED
  BY <1>1, <1>6 DEF DirectInv

(* Every step of DirectNext keeps DirectInv.                                *)
LEMMA StepDirect == ASSUME DirectInv, DirectNext PROVE DirectInv'
<1>1. ~orphan
  BY DEF DirectNext
<1>2. CASE OwnSubmit \/ FetchUnit \/ LeaseReclaim \/ HalfSecond
  BY <1>1, <1>2, OwnSubmitDirect, FetchUnitDirect, LeaseReclaimDirect, HalfSecondDirect
<1>3. CASE HostStart \/ HostPublish \/ HostArrival \/ HostAcquire \/ HostGrant
  BY <1>1, <1>3, HostStartDirect, HostPublishDirect, HostArrivalDirect, HostAcquireDirect, HostGrantDirect
<1>4. CASE HostWait \/ HostResults \/ HostRelease \/ HostClose
  BY <1>1, <1>4, HostWaitDirect, HostResultsDirect, HostReleaseDirect, HostCloseDirect
<1>5. CASE HostArrivalFails \/ HostWaitFails
  BY <1>1, <1>5, QuitsDirect DEF HostArrivalFails, HostWaitFails
<1>6. CASE ChildStart \/ ChildValidate \/ ChildClear \/ ChildEcho \/ ChildPoll \/ ChildDescriptors
  BY <1>1, <1>6, ChildStartDirect, ChildValidateDirect, ChildClearDirect, ChildEchoDirect, ChildPollDirect,
     ChildDescriptorsDirect
<1>7. CASE ChildReserve \/ ChildWrite \/ ChildCommit \/ ChildRetire
  BY <1>1, <1>7, WorkDirect
<1>8. CASE ChildPublish
  BY <1>1, <1>8, ChildPublishDirect
<1>9. QED
  BY <1>2, <1>3, <1>4, <1>5, <1>6, <1>7, <1>8 DEF DirectNext
------------------------------------------------------------------------------
(* phase2host and ppcphase2: OneInv, one lemma for each action.             *)

(* The scalars of the marker's exchange. *)
LEMMA CalmOne ==
  ASSUME DirectTyped, CommonInv, OnePart, DirectTyped', RingInv', UNCHANGED <<block, hosting, child, cached>>,
         granted'.lease => granted.lease /\ granted'.ready
  PROVE  OneInv'
<1>1. Granting' /\ ChildShape(child')
  BY DEF CommonInv, Granting
<1>2. (Open' <=> Open) /\ (Posted' <=> Posted) /\ HeldLine(cached, "first")' = HeldLine(cached, "first")
  BY DEF Open, Posted
<1>3. OnePart'
  <2>1. HostSide'
    BY <1>2 DEF OnePart, HostSide, ChildSide, Answering, LinesOld
  <2>2. ChildSide'
    BY <1>2 DEF OnePart, HostSide, ChildSide, Answering, LinesOld
  <2>3. Answering'
    BY <1>2 DEF OnePart, HostSide, ChildSide, Answering, LinesOld
  <2>4. LinesOld'
    BY <1>2 DEF OnePart, HostSide, ChildSide, Answering, LinesOld
  <2>5. QED
    BY <2>1, <2>2, <2>3, <2>4 DEF OnePart
<1>4. QED
  BY <1>1, <1>3 DEF OneInv, CommonInv

LEMMA DriverOne ==
  ASSUME OneInv, ~orphan, \/ OwnSubmit
                          \/ FetchUnit
                          \/ LeaseReclaim
  PROVE  OneInv'
<1>1. DirectTyped /\ CommonInv /\ OnePart /\ granted \in DriverRecord
  BY DEF OneInv, CommonInv, DirectTyped
<1>2. CASE OwnSubmit
  BY <1>1, <1>2, OwnSubmitTyped, OwnSubmitRing, CalmOne DEF OwnSubmit, DriverRecord
<1>3. CASE FetchUnit
  BY <1>1, <1>3, FetchUnitTyped, FetchUnitRing, CalmOne DEF FetchUnit
<1>4. CASE LeaseReclaim
  BY <1>1, <1>4, LeaseReclaimTyped, LeaseReclaimRing, Recovers, CalmOne DEF LeaseReclaim, RadeonCpAdoptFence
<1>5. QED
  BY <1>2, <1>3, <1>4

LEMMA HalfSecondOne == ASSUME OneInv, ~orphan, HalfSecond PROVE OneInv'
<1>1. DirectTyped /\ CommonInv /\ OnePart
  BY DEF OneInv, CommonInv
<1>2. DirectTyped' /\ RingInv'
  BY <1>1, HalfSecondTyped, HalfSecondRing
<1>3. /\ hosting'.pc = hosting.pc /\ hosting'.run = hosting.run /\ hosting'.batches = hosting.batches
         /\ hosting'.next = hosting.next
      /\ hosting'.last = hosting.last
      /\ granted'.lease = granted.lease /\ granted'.ready = granted.ready
      /\ UNCHANGED <<block, child, cached>>
  BY <1>1 DEF HalfSecond, DirectTyped, HostRecord, DriverRecord
<1>4. Granting' /\ ChildShape(child)'
  BY <1>1, <1>3 DEF CommonInv, Granting
<1>5. (Open' <=> Open) /\ (Posted' <=> Posted)
  BY <1>3 DEF Open, Posted
<1>6. OnePart'
  <2>1. HostSide'
    BY <1>1, <1>3, <1>5 DEF OnePart, HostSide, ChildSide, Answering, LinesOld
  <2>2. ChildSide'
    BY <1>1, <1>3, <1>5 DEF OnePart, HostSide, ChildSide, Answering, LinesOld
  <2>3. Answering'
    BY <1>1, <1>3, <1>5 DEF OnePart, HostSide, ChildSide, Answering, LinesOld
  <2>4. LinesOld'
    BY <1>1, <1>3, <1>5 DEF OnePart, HostSide, ChildSide, Answering, LinesOld
  <2>5. QED
    BY <2>1, <2>2, <2>3, <2>4 DEF OnePart
<1>7. QED
  BY <1>2, <1>4, <1>6 DEF OneInv, CommonInv

LEMMA QuitsOne ==
  ASSUME OneInv, ~orphan, NEW from, HostQuits(from), from \in {"arrival", "leasing", "waiting", "checked"}
  PROVE  OneInv'
<1>1. DirectTyped /\ CommonInv /\ OnePart
  BY DEF OneInv, CommonInv
<1>2. DirectTyped' /\ RingInv'
  BY <1>1, HostQuitsTyped, HostQuitsRing
<1>3. HostMoves(from, "closing") /\ UNCHANGED <<block, child, granted, cached>>
  BY <1>1, HostMoving DEF HostQuits
<1>4. Granting' /\ ChildShape(child)'
  BY <1>1, <1>3, Scalars DEF CommonInv, Granting, HostMoves
<1>5. (Open' <=> Open) /\ (Posted' <=> Posted)
  BY <1>1, <1>3, Scalars
     DEF Open, Posted, HostMoves, CommonInv, Granting, OnePart, HostSide, ChildSide, Answering, LinesOld
<1>6. from \in {"arrival", "leasing"} => ~granted.lease
  BY <1>1, <1>3 DEF CommonInv, Granting, HostMoves
<1>7. OnePart'
  <2>1. HostSide'
    BY <1>1, <1>3, <1>5, <1>6, Scalars DEF OnePart, HostSide, ChildSide, Answering, LinesOld, HostMoves
  <2>2. ChildSide'
    BY <1>1, <1>3, <1>5, <1>6, Scalars DEF OnePart, HostSide, ChildSide, Answering, LinesOld, HostMoves
  <2>3. Answering'
    BY <1>1, <1>3, <1>5, <1>6, Scalars DEF OnePart, HostSide, ChildSide, Answering, LinesOld, HostMoves
  <2>4. LinesOld'
    BY <1>1, <1>3, <1>5, <1>6, Scalars DEF OnePart, HostSide, ChildSide, Answering, LinesOld, HostMoves
  <2>5. QED
    BY <2>1, <2>2, <2>3, <2>4 DEF OnePart
<1>8. QED
  BY <1>2, <1>4, <1>7 DEF OneInv, CommonInv

LEMMA OneHostStartOne == ASSUME OneInv, ~orphan, OneHostStart PROVE OneInv'
<1>1. DirectTyped /\ CommonInv /\ OnePart
  BY DEF OneInv, CommonInv
<1>2. DirectTyped'
  BY <1>1, OneHostStartTyped
<1>3. /\ hosting.pc = "start" /\ hosting'.pc = "arrival" /\ hosting'.run = hosting.run + 1
         /\ hosting'.batches = BatchDefault
      /\ ~granted.lease /\ UNCHANGED <<child, cached, cpring, granted, orphan>>
      /\ ~block'.ready /\ block'.ring = 0 /\ block'.stage = "ok"
  BY DEF OneHostStart, NoHost, Blank
<1>4. RingInv'
  BY <1>1, <1>3, NoLeaseRing DEF CommonInv, RingInv
<1>5. Granting' /\ ChildShape(child)'
  BY <1>1, <1>3, Scalars DEF CommonInv, Granting
<1>6. ~Open' /\ "ok" # Marker /\ HeldLine(cached, "first")' = HeldLine(cached, "first")
  BY <1>3 DEF Open, Marker
<1>7. child.gen <= hosting.run /\ (cached["first"] # {} => HeldLine(cached, "first").ring <= hosting.run)
      /\ (cached["first"] # {} => HeldLine(cached, "first").ring \in Nat)
  BY <1>1, <1>3 DEF OnePart, HostSide, ChildSide, Answering, LinesOld, DirectTyped, CachedTyped, FirstLines
<1>8. OnePart'
  <2>1. HostSide'
    BY <1>1, <1>3, <1>6, <1>7, Scalars DEF OnePart, HostSide, ChildSide, Answering, LinesOld
  <2>2. ChildSide'
    BY <1>1, <1>3, <1>6, <1>7, Scalars DEF OnePart, HostSide, ChildSide, Answering, LinesOld
  <2>3. Answering'
    BY <1>1, <1>3, <1>6, <1>7, Scalars DEF OnePart, HostSide, ChildSide, Answering, LinesOld
  <2>4. LinesOld'
    BY <1>1, <1>3, <1>6, <1>7, Scalars DEF OnePart, HostSide, ChildSide, Answering, LinesOld
  <2>5. QED
    BY <2>1, <2>2, <2>3, <2>4 DEF OnePart
<1>9. QED
  BY <1>2, <1>4, <1>5, <1>8 DEF OneInv, CommonInv

LEMMA OneHostArrivalOne == ASSUME OneInv, ~orphan, OneHostArrival PROVE OneInv'
<1>1. DirectTyped /\ CommonInv /\ OnePart
  BY DEF OneInv, CommonInv
<1>2. CASE block.stage # Marker
  BY <1>2, QuitsOne DEF OneHostArrival
<1>3. CASE block.stage = Marker
  <2>1. HostGoes("arrival", "leasing") /\ UNCHANGED <<block, cached, child, cpring, granted, orphan>>
    BY <1>3 DEF OneHostArrival
  <2>2. DirectTyped' /\ RingInv'
    BY <1>1, <2>1, OneHostArrivalTyped, HostGoesRing
  <2>3. HostMoves("arrival", "leasing")
    BY <1>1, <2>1, HostMoving
  <2>4. child.pc \in {"poll", "result"} /\ child.grant = 0 /\ ~granted.lease
    BY <1>1, <1>3, <2>3 DEF OnePart, HostSide, ChildSide, Answering, LinesOld, HostMoves, CommonInv, Granting
  <2>5. Granting' /\ ChildShape(child)'
    BY <1>1, <2>1, <2>3, <2>4, Scalars DEF CommonInv, Granting, HostMoves, WorkingPcs, FillingPcs
  <2>6. ~Open' /\ ~Open /\ (Posted' <=> Posted) /\ child.pc \in Idlers
    BY <2>1, <2>3, <2>4 DEF Open, Posted, HostMoves, Idlers
  <2>7. OnePart'
    <3>1. HostSide'
      BY <1>1, <2>1, <2>3, <2>4, <2>6, Scalars DEF OnePart, HostSide, ChildSide, Answering, LinesOld, HostMoves
    <3>2. ChildSide'
      BY <1>1, <2>1, <2>3, <2>4, <2>6, Scalars DEF OnePart, HostSide, ChildSide, Answering, LinesOld, HostMoves
    <3>3. Answering'
      BY <1>1, <2>1, <2>3, <2>4, <2>6, Scalars DEF OnePart, HostSide, ChildSide, Answering, LinesOld, HostMoves
    <3>4. LinesOld'
      BY <1>1, <2>1, <2>3, <2>4, <2>6, Scalars DEF OnePart, HostSide, ChildSide, Answering, LinesOld, HostMoves
    <3>5. QED
      BY <3>1, <3>2, <3>3, <3>4 DEF OnePart
  <2>8. QED
    BY <2>2, <2>5, <2>7 DEF OneInv, CommonInv
<1>4. QED
  BY <1>2, <1>3

LEMMA OneAcquireOne == ASSUME OneInv, ~orphan, OneAcquire PROVE OneInv'
<1>1. DirectTyped /\ CommonInv /\ OnePart /\ HostAcquire
  BY DEF OneInv, CommonInv, OneAcquire
<1>2. CASE HostQuits("leasing")
  BY <1>2, QuitsOne
<1>3. CASE ~HostQuits("leasing")
  <2>1. DirectTyped' /\ RingInv'
    BY <1>1, HostAcquireTyped, HostAcquireRing
  <2>2. /\ hosting.pc = "leasing" /\ hosting'.pc = "acquired" /\ hosting'.run = hosting.run
        /\ hosting'.next = granted.next /\ hosting'.batches = hosting.batches
        /\ ~granted.lease /\ granted.ready /\ granted'.lease /\ granted'.ready
        /\ granted.next # 0 /\ granted.next + hosting.batches - 1 <= SeqRange
        /\ UNCHANGED <<block, child, cached>>
    BY <1>1, <1>3 DEF HostAcquire, DirectTyped, HostRecord, DriverRecord, NextSeqs
  <2>3. ~Open /\ ~Open'
    BY <2>2 DEF Open
  <2>4. Granting' /\ ChildShape(child)'
    BY <1>1, <2>2, Scalars DEF CommonInv, Granting
  <2>5. OnePart'
    <3>1. HostSide'
      BY <1>1, <2>2, <2>3, Scalars DEF OnePart, HostSide, ChildSide, Answering, LinesOld
    <3>2. ChildSide'
      BY <1>1, <2>2, <2>3, Scalars DEF OnePart, HostSide, ChildSide, Answering, LinesOld
    <3>3. Answering'
      BY <1>1, <2>2, <2>3, Scalars DEF OnePart, HostSide, ChildSide, Answering, LinesOld
    <3>4. LinesOld'
      BY <1>1, <2>2, <2>3, Scalars DEF OnePart, HostSide, ChildSide, Answering, LinesOld
    <3>5. QED
      BY <3>1, <3>2, <3>3, <3>4 DEF OnePart
  <2>6. QED
    BY <2>1, <2>4, <2>5 DEF OneInv, CommonInv
<1>4. QED
  BY <1>2, <1>3

LEMMA OnePublishOne == ASSUME OneInv, ~orphan, OnePublishFirst \/ OnePublishSecond PROVE OneInv'
<1>1. DirectTyped /\ CommonInv /\ OnePart /\ block \in BlockRecord
  BY DEF OneInv, CommonInv, DirectTyped
<1>2. CASE OnePublishFirst
  <2>1. DirectTyped' /\ HostGoes("acquired", "filling") /\ UNCHANGED <<cached, child, cpring, granted, orphan>>
    BY <1>1, <1>2, OnePublishFirstTyped DEF OnePublishFirst
  <2>2. RingInv' /\ HostMoves("acquired", "filling")
    BY <1>1, <2>1, HostGoesRing, HostMoving
  <2>3. ~block'.ready /\ block'.ring = hosting.run /\ block'.stage = block.stage
    BY <1>1, <1>2 DEF OnePublishFirst, BlockRecord
  <2>4. Granting' /\ ChildShape(child)'
    BY <1>1, <2>1, <2>2, <2>3, Scalars DEF CommonInv, Granting, HostMoves
  <2>5. ~Open /\ ~Open'
    BY <2>2 DEF Open, HostMoves
  <2>6. OnePart'
    <3>1. HostSide'
      BY <1>1, <2>1, <2>2, <2>3, <2>5, Scalars DEF OnePart, HostSide, ChildSide, Answering, LinesOld, HostMoves
    <3>2. ChildSide'
      BY <1>1, <2>1, <2>2, <2>3, <2>5, Scalars DEF OnePart, HostSide, ChildSide, Answering, LinesOld, HostMoves
    <3>3. Answering'
      BY <1>1, <2>1, <2>2, <2>3, <2>5, Scalars DEF OnePart, HostSide, ChildSide, Answering, LinesOld, HostMoves
    <3>4. LinesOld'
      BY <1>1, <2>1, <2>2, <2>3, <2>5, Scalars DEF OnePart, HostSide, ChildSide, Answering, LinesOld, HostMoves
    <3>5. QED
      BY <3>1, <3>2, <3>3, <3>4 DEF OnePart
  <2>7. QED
    BY <2>1, <2>2, <2>4, <2>6 DEF OneInv, CommonInv
<1>3. CASE OnePublishSecond
  <2>1. DirectTyped' /\ HostGoes("filling", "flagging") /\ UNCHANGED <<cached, child, cpring, granted, orphan>>
    BY <1>1, <1>3, OnePublishSecondTyped DEF OnePublishSecond
  <2>2. RingInv' /\ HostMoves("filling", "flagging")
    BY <1>1, <2>1, HostGoesRing, HostMoving
  <2>3. /\ block'.ready = block.ready /\ block'.ring = block.ring /\ block'.bar /\ block'.fence = hosting.next
        /\ block'.batches = BatchDefault /\ ~block'.retired /\ block'.stage = "ok"
    BY <1>1, <1>3 DEF OnePublishSecond, BlockRecord
  <2>4. Granting' /\ ChildShape(child)'
    BY <1>1, <2>1, <2>2, <2>3, Scalars DEF CommonInv, Granting, HostMoves
  <2>5. ~Open /\ ~Open' /\ "ok" # Marker
    BY <2>2 DEF Open, HostMoves, Marker
  <2>6. Posted'
    BY <1>1, <2>2, <2>3
       DEF Posted, HostMoves, OnePart, HostSide, ChildSide, Answering, LinesOld, CommonInv, Granting
  <2>7. OnePart'
    <3>1. HostSide'
      BY <1>1, <2>1, <2>2, <2>3, <2>5, <2>6, Scalars
         DEF OnePart, HostSide, ChildSide, Answering, LinesOld, HostMoves
    <3>2. ChildSide'
      BY <1>1, <2>1, <2>2, <2>3, <2>5, <2>6, Scalars
         DEF OnePart, HostSide, ChildSide, Answering, LinesOld, HostMoves
    <3>3. Answering'
      BY <1>1, <2>1, <2>2, <2>3, <2>5, <2>6, Scalars
         DEF OnePart, HostSide, ChildSide, Answering, LinesOld, HostMoves
    <3>4. LinesOld'
      BY <1>1, <2>1, <2>2, <2>3, <2>5, <2>6, Scalars
         DEF OnePart, HostSide, ChildSide, Answering, LinesOld, HostMoves
    <3>5. QED
      BY <3>1, <3>2, <3>3, <3>4 DEF OnePart
  <2>8. QED
    BY <2>1, <2>2, <2>4, <2>7 DEF OneInv, CommonInv
<1>4. QED
  BY <1>2, <1>3

LEMMA PublishHostDoneOne == ASSUME OneInv, ~orphan, PublishHostDone PROVE OneInv'
<1>1. DirectTyped /\ CommonInv /\ OnePart /\ block \in BlockRecord
  BY DEF OneInv, CommonInv, DirectTyped
<1>2. DirectTyped'
  BY <1>1, PublishHostDoneTyped
<1> DEFINE last == NthSeq(hosting.next, BatchDefault - 1)
<1>3. hosting' = [hosting EXCEPT !.pc = "waiting", !.due = FALSE, !.last = last] /\ hosting.pc = "flagging"
      /\ block' = [block EXCEPT !.ready = TRUE] /\ UNCHANGED <<cached, child, cpring, granted, orphan>>
  BY DEF PublishHostDone, NthSeq
<1> HIDE DEF last
<1>4. /\ hosting'.pc = "waiting" /\ hosting'.last = last /\ hosting'.run = hosting.run
      /\ hosting'.next = hosting.next /\ hosting'.batches = hosting.batches
  BY <1>1, <1>3 DEF DirectTyped, HostRecord
<1>5. /\ block'.ready /\ block'.ring = block.ring /\ block'.bar = block.bar /\ block'.fence = block.fence
      /\ block'.batches = block.batches /\ block'.stage = block.stage /\ block'.retired = block.retired
  BY <1>1, <1>3 DEF BlockRecord
<1>6. RingInv'
  <2>1. QuietHost
    BY <1>4 DEF QuietHost
  <2>2. QED
    BY <1>1, <1>3, <2>1, SameChild, SameDriver, QuietKeeps DEF CommonInv
<1>7. hosting.batches = BatchDefault
  BY <1>1, <1>3 DEF OnePart, HostSide
<1>8. last = NthSeq(hosting'.next, hosting'.batches - 1)
  BY <1>4, <1>7 DEF last
<1>9. Granting' /\ ChildShape(child)'
  BY <1>1, <1>3, <1>4, <1>5, <1>8, Scalars DEF CommonInv, Granting
<1>10. Posted /\ Posted' /\ Open' /\ ~Open /\ child.pc \in Idlers /\ child.grant = 0 /\ ~block'.retired
       /\ child.pc # "range"
  BY <1>1, <1>3, <1>4, <1>5 DEF Open, Posted, OnePart, HostSide, ChildSide, Answering, LinesOld, Idlers
<1>11. OnePart'
  <2>1. HostSide'
    BY <1>1, <1>3, <1>4, <1>5, <1>10, Scalars DEF OnePart, HostSide, ChildSide, Answering, LinesOld
  <2>2. ChildSide'
    BY <1>1, <1>3, <1>4, <1>5, <1>10, Scalars DEF OnePart, HostSide, ChildSide, Answering, LinesOld
  <2>3. Answering'
    BY <1>1, <1>3, <1>4, <1>5, <1>10, Scalars DEF OnePart, HostSide, ChildSide, Answering, LinesOld
  <2>4. LinesOld'
    BY <1>1, <1>3, <1>4, <1>5, <1>10, Scalars DEF OnePart, HostSide, ChildSide, Answering, LinesOld
  <2>5. QED
    BY <2>1, <2>2, <2>3, <2>4 DEF OnePart
<1>12. QED
  BY <1>2, <1>6, <1>9, <1>11 DEF OneInv, CommonInv

LEMMA OneHostWaitOne == ASSUME OneInv, ~orphan, OneHostWait PROVE OneInv'
<1>1. DirectTyped /\ CommonInv /\ OnePart
  BY DEF OneInv, CommonInv
<1>2. DirectTyped'
  BY <1>1, OneHostWaitTyped
<1>3. /\ hosting'.pc = hosting.pc /\ hosting'.run = hosting.run /\ hosting'.next = hosting.next
         /\ hosting'.last = hosting.last
      /\ hosting'.batches = hosting.batches /\ UNCHANGED <<block, cached, child, cpring, granted, orphan>>
  BY <1>1 DEF OneHostWait, DirectTyped, HostRecord
<1>4. RingInv'
  <2>1. QuietHost
    BY <1>3 DEF QuietHost
  <2>2. QED
    BY <1>1, <1>3, <2>1, SameChild, SameDriver, QuietKeeps DEF CommonInv
<1>5. Granting' /\ ChildShape(child)'
  BY <1>1, <1>3 DEF CommonInv, Granting
<1>6. (Open' <=> Open) /\ (Posted' <=> Posted)
  BY <1>3 DEF Open, Posted
<1>7. OnePart'
  <2>1. HostSide'
    BY <1>1, <1>3, <1>6 DEF OnePart, HostSide, ChildSide, Answering, LinesOld
  <2>2. ChildSide'
    BY <1>1, <1>3, <1>6 DEF OnePart, HostSide, ChildSide, Answering, LinesOld
  <2>3. Answering'
    BY <1>1, <1>3, <1>6 DEF OnePart, HostSide, ChildSide, Answering, LinesOld
  <2>4. LinesOld'
    BY <1>1, <1>3, <1>6 DEF OnePart, HostSide, ChildSide, Answering, LinesOld
  <2>5. QED
    BY <2>1, <2>2, <2>3, <2>4 DEF OnePart
<1>8. QED
  BY <1>2, <1>4, <1>5, <1>7 DEF OneInv, CommonInv

LEMMA OneResultsOne == ASSUME OneInv, ~orphan, OneResults PROVE OneInv'
<1>1. DirectTyped /\ CommonInv /\ OnePart /\ HostResults
  BY DEF OneInv, CommonInv, OneResults
<1>2. CASE ~ResultsGood
  BY <1>1, <1>2, QuitsOne DEF HostResults, HostQuits
<1>3. CASE ResultsGood
  <2>1. HostGoes("waiting", "checked") /\ UNCHANGED <<block, cached, child, cpring, granted, orphan>>
    BY <1>1, <1>3 DEF HostResults
  <2>2. HostMoves("waiting", "checked")
    BY <1>1, <2>1, HostMoving
  <2>3. DirectTyped' /\ RingInv'
    BY <1>1, <2>1, HostResultsTyped, HostGoesRing
  <2>4. (Open' <=> Open) /\ (Posted' <=> Posted) /\ Open
    BY <2>1, <2>2 DEF Open, Posted, HostMoves
  <2>5. child.pc \in {"done", "idle"} /\ child.retired /\ child.submits = hosting.batches
    BY <1>1, <1>3, <2>4 DEF OnePart, HostSide, ChildSide, Answering, LinesOld, ResultsGood
  <2>6. child.grant = hosting.run
    BY <1>1, <2>4, <2>5 DEF OnePart, HostSide, ChildSide, Answering, LinesOld, CommonInv, ChildShape
  <2>7. Granting' /\ ChildShape(child)'
    BY <1>1, <2>1, <2>2, <2>5, <2>6, Scalars DEF CommonInv, Granting, HostMoves, WorkingPcs, FillingPcs
  <2>8. OnePart'
    <3>1. HostSide'
      BY <1>1, <2>1, <2>2, <2>4, Scalars DEF OnePart, HostSide, ChildSide, Answering, LinesOld, HostMoves
    <3>2. ChildSide'
      BY <1>1, <2>1, <2>2, <2>4, Scalars DEF OnePart, HostSide, ChildSide, Answering, LinesOld, HostMoves
    <3>3. Answering'
      BY <1>1, <2>1, <2>2, <2>4, Scalars DEF OnePart, HostSide, ChildSide, Answering, LinesOld, HostMoves
    <3>4. LinesOld'
      BY <1>1, <2>1, <2>2, <2>4, Scalars DEF OnePart, HostSide, ChildSide, Answering, LinesOld, HostMoves
    <3>5. QED
      BY <3>1, <3>2, <3>3, <3>4 DEF OnePart
  <2>9. QED
    BY <2>3, <2>7, <2>8 DEF OneInv, CommonInv
<1>4. QED
  BY <1>2, <1>3

LEMMA EndsOne ==
  ASSUME OneInv, DirectTyped', RingInv', UNCHANGED <<block, child, cached>>, ~granted'.lease,
         hosting'.run = hosting.run, hosting'.next = hosting.next, hosting'.batches = hosting.batches,
         \/ hosting.pc = "checked" /\ hosting'.pc = "closing"
         \/ hosting.pc = "closing" /\ hosting'.pc = "start"
  PROVE  OneInv'
<1>1. DirectTyped /\ CommonInv /\ OnePart
  BY DEF OneInv, CommonInv
<1>2. Granting' /\ ChildShape(child)'
  BY <1>1, Scalars DEF CommonInv, Granting
<1>3. (Open' <=> Open) /\ (Posted' <=> Posted) /\ HeldLine(cached, "first")' = HeldLine(cached, "first")
  BY <1>1 DEF Open, Posted, OnePart, HostSide, ChildSide, Answering, LinesOld, CommonInv, Granting
<1>4. OnePart'
  <2>1. HostSide'
    BY <1>1, <1>3, Scalars DEF OnePart, HostSide, ChildSide, Answering, LinesOld
  <2>2. ChildSide'
    BY <1>1, <1>3, Scalars DEF OnePart, HostSide, ChildSide, Answering, LinesOld
  <2>3. Answering'
    BY <1>1, <1>3, Scalars DEF OnePart, HostSide, ChildSide, Answering, LinesOld
  <2>4. LinesOld'
    BY <1>1, <1>3, Scalars DEF OnePart, HostSide, ChildSide, Answering, LinesOld
  <2>5. QED
    BY <2>1, <2>2, <2>3, <2>4 DEF OnePart
<1>5. QED
  BY <1>2, <1>4 DEF OneInv, CommonInv

LEMMA OneReleaseOne == ASSUME OneInv, ~orphan, OneRelease PROVE OneInv'
<1>1. DirectTyped /\ CommonInv /\ OnePart /\ granted \in DriverRecord /\ HostRelease
  BY DEF OneInv, CommonInv, DirectTyped, OneRelease
<1>2. DirectTyped' /\ RingInv'
  BY <1>1, HostReleaseTyped, HostReleaseRing
<1>3. hosting.pc = "checked"
  BY <1>1 DEF HostRelease
<1>4. CASE HostQuits("checked")
  BY <1>4, QuitsOne
<1>5. CASE /\ granted' = [RadeonCpAdoptFence(granted, hosting.last) EXCEPT !.lease = FALSE]
           /\ hosting' = [hosting EXCEPT !.pc = "closing", !.due = FALSE,
                                         !.ok = cpring.scratch = hosting.last]
           /\ UNCHANGED <<block, cached, child, orphan>>
  <2>1. hosting'.pc = "closing" /\ hosting'.run = hosting.run /\ hosting'.next = hosting.next
        /\ hosting'.batches = hosting.batches
    BY <1>1, <1>5 DEF DirectTyped, HostRecord
  <2>2. ~granted'.lease
    <3>1. hosting.last \in Seqs
      BY <1>1 DEF DirectTyped, HostRecord
    <3> DEFINE g == RadeonCpAdoptFence(granted, hosting.last)
    <3>2. g \in DriverRecord
      BY <1>1, <3>1, PassedTyped
    <3>3. granted' = [g EXCEPT !.lease = FALSE]
      BY <1>5
    <3> HIDE DEF g
    <3>4. QED
      BY <3>2, <3>3 DEF DriverRecord
  <2>3. QED
    BY <1>2, <1>3, <1>5, <2>1, <2>2, EndsOne
<1>6. CASE RecoverRing(granted) /\ HostGoes("checked", "closing") /\ UNCHANGED <<block, cached, child, orphan>>
  BY <1>1, <1>6, HostMoving, Recovers, <1>2, <1>3, EndsOne DEF HostMoves
<1>7. QED
  BY <1>1, <1>4, <1>5, <1>6 DEF HostRelease

LEMMA OneCloseOne == ASSUME OneInv, ~orphan, OneClose PROVE OneInv'
<1>1. DirectTyped /\ CommonInv /\ OnePart /\ granted \in DriverRecord /\ HostClose
  BY DEF OneInv, CommonInv, DirectTyped, OneClose
<1>2. DirectTyped' /\ RingInv'
  BY <1>1, HostCloseTyped, HostCloseRing
<1>3. HostMoves("closing", "start") /\ UNCHANGED <<block, child, cached>>
  BY <1>1, HostMoving DEF HostClose
<1>4. ~granted'.lease
  BY <1>1, PassedTyped DEF HostClose, DriverRecord, RadeonCpAdoptFence
<1>5. QED
  BY <1>2, <1>3, <1>4, EndsOne DEF HostMoves

LEMMA WorkOne ==
  ASSUME OneInv, ~orphan, \/ OneReserve
                          \/ OneWrite
                          \/ OneCommit
                          \/ OneRetire
  PROVE  OneInv'
<1>1. DirectTyped /\ CommonInv /\ OnePart
  BY DEF OneInv, CommonInv
<1>2. \/ ChildReserve
      \/ ChildWrite
      \/ ChildCommit
      \/ ChildRetire
  BY DEF OneReserve, OneWrite, OneCommit, OneRetire
<1>3. /\ UNCHANGED <<block, cached, hosting, granted>> /\ child.pc \in WorkingPcs
         /\ child'.pc \in WorkingPcs \cup {"result"}
      /\ child'.gen = child.gen /\ child'.grant = child.grant /\ child'.next = child.next
         /\ child'.batches = child.batches
      /\ child'.stage # "ring_range"
  BY <1>1, <1>2, WorkSame
<1>4. DirectTyped' /\ RingInv' /\ ChildShape(child')
  BY <1>1, <1>2, WorkRing
<1>5. CommonInv'
  BY <1>1, <1>3, <1>4, WorkKeeps
<1>6. (Open' <=> Open) /\ (Posted' <=> Posted) /\ HeldLine(cached, "first")' = HeldLine(cached, "first")
  BY <1>3 DEF Open, Posted
<1>7. child.pc \notin {"poll", "result", "done", "idle"} \cup Idlers \cup {"range"}
      /\ child'.pc \notin {"clear", "echo", "present", "range", "done", "idle", "poll"}
      /\ (child'.pc = "result" => child'.pc \in Idlers)
  BY <1>3 DEF Idlers, WorkingPcs, FillingPcs
<1>8. OnePart'
  <2>1. HostSide'
    BY <1>1, <1>3, <1>6, <1>7, Scalars DEF OnePart, HostSide, ChildSide, Answering, LinesOld
  <2>2. ChildSide'
    BY <1>1, <1>3, <1>6, <1>7, Scalars DEF OnePart, HostSide, ChildSide, Answering, LinesOld
  <2>3. Answering'
    BY <1>1, <1>3, <1>6, <1>7, Scalars DEF OnePart, HostSide, ChildSide, Answering, LinesOld
  <2>4. LinesOld'
    BY <1>1, <1>3, <1>6, <1>7, Scalars DEF OnePart, HostSide, ChildSide, Answering, LinesOld
  <2>5. QED
    BY <2>1, <2>2, <2>3, <2>4 DEF OnePart
<1>9. QED
  BY <1>5, <1>8 DEF OneInv

LEMMA OneStartOne == ASSUME OneInv, ~orphan, OneStart PROVE OneInv'
<1>1. DirectTyped /\ CommonInv /\ OnePart
  BY DEF OneInv, CommonInv
<1>2. DirectTyped'
  BY <1>1, OneStartTyped
<1>3. /\ child.pc = "idle" /\ hosting.pc = "arrival" /\ block.stage # Marker
      /\ child'.pc = "validate" /\ child'.gen = hosting.run /\ child'.grant = 0 /\ child'.submits = 0
      /\ child'.batch = 0 /\ child'.stage = "ok" /\ ~child'.retired
         /\ UNCHANGED <<block, cached, hosting, cpring, granted, orphan>>
  BY DEF OneStart, NoChild
<1>4. ~granted.lease /\ hosting.run > 0
  BY <1>1, <1>3 DEF CommonInv, Granting
<1>5. RingInv'
  BY <1>1, <1>3, <1>4, NoLeaseRing DEF CommonInv, RingInv
<1>6. ChildShape(child')
  BY <1>3 DEF ChildShape, ReadingPcs, WorkingPcs, FillingPcs
<1>7. Granting'
  BY <1>1, <1>3, <1>4, Scalars DEF CommonInv, Granting
<1>8. ~Open /\ ~Open' /\ (Posted' <=> Posted) /\ HeldLine(cached, "first")' = HeldLine(cached, "first")
  BY <1>3 DEF Open, Posted
<1>9. OnePart'
  <2>1. HostSide'
    BY <1>1, <1>3, <1>4, <1>8, Scalars DEF OnePart, HostSide, ChildSide, Answering, LinesOld
  <2>2. ChildSide'
    BY <1>1, <1>3, <1>4, <1>8, Scalars DEF OnePart, HostSide, ChildSide, Answering, LinesOld
  <2>3. Answering'
    BY <1>1, <1>3, <1>4, <1>8, Scalars DEF OnePart, HostSide, ChildSide, Answering, LinesOld
  <2>4. LinesOld'
    BY <1>1, <1>3, <1>4, <1>8, Scalars DEF OnePart, HostSide, ChildSide, Answering, LinesOld
  <2>5. QED
    BY <2>1, <2>2, <2>3, <2>4 DEF OnePart
<1>10. QED
  BY <1>2, <1>5, <1>6, <1>7, <1>9 DEF OneInv, CommonInv

(* What a load of the first line leaves in the cache is no newer than the block. *)
LEMMA LineKept ==
  ASSUME DirectTyped, CommonInv, OnePart, NEW c, CachedTyped(c),
         c["first"] = {} \/ c["first"] = cached["first"]
  PROVE  /\ Load("first", c).ring <= hosting.run
         /\ hosting.pc = "arrival" => Load("first", c).ring < hosting.run
         /\ Loaded("first", c)["first"] # {} /\ HeldLine(Loaded("first", c), "first") = Load("first", c)
         /\ c["first"] = {} => Load("first", c) = FirstLine
<1>1. block \in BlockRecord /\ "first" \in Lines
  BY DEF DirectTyped, Lines
<1>2. c["first"] = {} => Load("first", c) = LineNow("first")
  BY <1>1, Loading
<1>3. c["first"] # {} => Load("first", c) = HeldLine(c, "first")
  BY <1>1, Loading
<1>4. Loaded("first", c)["first"] # {} /\ HeldLine(Loaded("first", c), "first") = Load("first", c)
  BY <1>1, Loading
<1>5. LineNow("first") = FirstLine /\ FirstLine.ring = block.ring
  BY DEF LineNow, FirstLine
<1>6. c["first"] = cached["first"] => HeldLine(c, "first") = HeldLine(cached, "first")
  BY DEF HeldLine
<1>7. block.ring <= hosting.run /\ (hosting.pc = "arrival" => block.ring = 0 /\ hosting.run > 0)
  BY DEF OnePart, HostSide, CommonInv, Granting
<1>8. CASE c["first"] = {}
  BY <1>2, <1>4, <1>5, <1>7, <1>8, Scalars
<1>9. CASE c["first"] # {}
  BY <1>3, <1>4, <1>6, <1>9 DEF OnePart, LinesOld
<1>10. QED
  BY <1>8, <1>9

LEMMA OneValidateOne == ASSUME OneInv, ~orphan, OneValidate PROVE OneInv'
<1>1. DirectTyped /\ CommonInv /\ OnePart /\ CachedTyped(cached)
  BY DEF OneInv, CommonInv, DirectTyped
<1>2. DirectTyped'
  BY <1>1, OneValidateTyped
<1>3. PICK to \in {"mark", "idle"} : ChildGoes("validate", to)
      /\ UNCHANGED <<block, hosting, cpring, granted, orphan>>
  <2> DEFINE to == IF Load("first", cached).magic THEN "mark" ELSE "idle"
  <2>1. to \in {"mark", "idle"}
    OBVIOUS
  <2>2. ChildGoes("validate", to) /\ UNCHANGED <<block, hosting, cpring, granted, orphan>>
    BY DEF OneValidate
  <2> HIDE DEF to
  <2>3. QED
    BY <2>1, <2>2
<1>4. child.pc = "validate" /\ child'.pc = to /\ child'.stage = child.stage /\ child'.retired = child.retired
      /\ ChildSame
  BY <1>1, <1>3, ChildMoving
<1>5. RingInv'
  BY <1>1, <1>3, ChildGoesRing DEF FillingPcs
<1>6. ChildShape(child')
  BY <1>1, <1>3, ShapeGoes DEF CommonInv, ReadingPcs, WorkingPcs, FillingPcs
<1>7. child # NoChild /\ to \notin WorkingPcs
      /\ child.pc \notin Idlers \cup WorkingPcs \cup {"range", "result", "poll"}
  BY <1>4 DEF NoChild, WorkingPcs, FillingPcs, Idlers
<1>8. Granting'
  BY <1>1, <1>3, <1>4, <1>7, Scalars DEF CommonInv, Granting, ChildSame
<1>9. ~Open /\ ~Open' /\ (Posted' <=> Posted)
  BY <1>1, <1>3, <1>7 DEF Open, Posted, OnePart, HostSide, ChildSide, Answering, LinesOld
<1>10. /\ cached'["first"] # {} /\ HeldLine(cached', "first").ring <= hosting.run
       /\ hosting.pc = "arrival" => HeldLine(cached', "first").ring < hosting.run
  BY <1>1, LineKept DEF OneValidate
<1>11. OnePart'
  <2>1. HostSide'
    BY <1>1, <1>3, <1>4, <1>7, <1>9, <1>10, Scalars
       DEF OnePart, HostSide, ChildSide, Answering, LinesOld, ChildSame
  <2>2. ChildSide'
    BY <1>1, <1>3, <1>4, <1>7, <1>9, <1>10, Scalars
       DEF OnePart, HostSide, ChildSide, Answering, LinesOld, ChildSame
  <2>3. Answering'
    BY <1>1, <1>3, <1>4, <1>7, <1>9, <1>10, Scalars
       DEF OnePart, HostSide, ChildSide, Answering, LinesOld, ChildSame
  <2>4. LinesOld'
    BY <1>1, <1>3, <1>4, <1>7, <1>9, <1>10, Scalars
       DEF OnePart, HostSide, ChildSide, Answering, LinesOld, ChildSame
  <2>5. QED
    BY <2>1, <2>2, <2>3, <2>4 DEF OnePart
<1>12. QED
  BY <1>2, <1>5, <1>6, <1>8, <1>11 DEF OneInv, CommonInv

LEMMA OneMarkOne == ASSUME OneInv, ~orphan, OneMark PROVE OneInv'
<1>1. DirectTyped /\ CommonInv /\ OnePart /\ block \in BlockRecord
  BY DEF OneInv, CommonInv, DirectTyped
<1>2. DirectTyped'
  BY <1>1, OneMarkTyped
<1>3. ChildGoes("mark", "poll") /\ UNCHANGED <<hosting, cpring, granted, orphan>>
      /\ cached' = Loaded("second", cached)
  BY DEF OneMark
<1>4. child.pc = "mark" /\ child'.pc = "poll" /\ child'.stage = child.stage /\ child'.retired = child.retired
      /\ ChildSame
  BY <1>1, <1>3, ChildMoving
<1>5. /\ block'.ready = block.ready /\ block'.ring = block.ring /\ block'.bar = block.bar
         /\ block'.fence = block.fence
      /\ block'.batches = block.batches /\ block'.retired = block.retired
  BY <1>1 DEF OneMark, BlockRecord
<1>6. RingInv'
  BY <1>1, <1>3, ChildGoesRing DEF FillingPcs
<1>7. ChildShape(child')
  BY <1>1, <1>3, ShapeGoes DEF CommonInv, ReadingPcs, WorkingPcs, FillingPcs
<1>8. child # NoChild /\ child'.pc \notin WorkingPcs
      /\ child.pc \notin Idlers \cup WorkingPcs \cup {"range", "result", "poll"}
  BY <1>4 DEF NoChild, WorkingPcs, FillingPcs, Idlers
<1>9. Granting'
  BY <1>1, <1>3, <1>4, <1>5, <1>8, Scalars DEF CommonInv, Granting, ChildSame
<1>10. ~Open /\ ~Open' /\ (Posted' <=> Posted)
  BY <1>1, <1>3, <1>5, <1>8 DEF Open, Posted, OnePart, HostSide, ChildSide, Answering, LinesOld
<1>11. cached'["first"] = cached["first"] /\ HeldLine(cached', "first") = HeldLine(cached, "first")
  BY <1>1, <1>3, StaleLoad DEF Lines, HeldLine
<1>12. child.grant = 0
  BY <1>1, <1>4 DEF CommonInv, ChildShape, ReadingPcs
<1>13. OnePart'
  <2>1. HostSide'
    BY <1>1, <1>3, <1>4, <1>5, <1>8, <1>10, <1>11, <1>12, Scalars
       DEF OnePart, HostSide, ChildSide, Answering, LinesOld, ChildSame
  <2>2. ChildSide'
    BY <1>1, <1>3, <1>4, <1>5, <1>8, <1>10, <1>11, <1>12, Scalars
       DEF OnePart, HostSide, ChildSide, Answering, LinesOld, ChildSame
  <2>3. Answering'
    BY <1>1, <1>3, <1>4, <1>5, <1>8, <1>10, <1>11, <1>12, Scalars
       DEF OnePart, HostSide, ChildSide, Answering, LinesOld, ChildSame
  <2>4. LinesOld'
    BY <1>1, <1>3, <1>4, <1>5, <1>8, <1>10, <1>11, <1>12, Scalars
       DEF OnePart, HostSide, ChildSide, Answering, LinesOld, ChildSame
  <2>5. QED
    BY <2>1, <2>2, <2>3, <2>4 DEF OnePart
<1>14. QED
  BY <1>2, <1>6, <1>7, <1>9, <1>13 DEF OneInv, CommonInv

LEMMA OnePollOne == ASSUME OneInv, ~orphan, OnePoll PROVE OneInv'
<1>1. DirectTyped /\ CommonInv /\ OnePart
  BY DEF OneInv, CommonInv
<1>2. DirectTyped'
  BY <1>1, OnePollTyped
<1>3. UNCHANGED <<block, hosting, cpring, granted, orphan>> /\ child.pc = "poll"
  BY DEF OnePoll, ChildGoes
<1> DEFINE copies == P0FlushRange(Flushed)
<1>4. CachedTyped(copies) /\ copies["first"] = {} /\ copies["second"] = {}
  BY <1>1, Flushing DEF DirectTyped, Lines, Flushed
<1>5. Load("first", copies) = FirstLine /\ cached' = Loaded("first", copies) /\ cached'["second"] = {}
  BY <1>1, FreshLoad DEF Flushed, Lines, OnePoll
<1>6. \/ block.ready /\ ChildGoes("poll", "range")
      \/ child' = child
      \/ child' = [child EXCEPT !.pc = "result", !.stage = "reserve"]
  BY <1>5 DEF FirstLine, OnePoll
<1> HIDE DEF copies
<1>7. /\ cached'["first"] # {} /\ HeldLine(cached', "first") = FirstLine
         /\ HeldLine(cached', "first").ring <= hosting.run
      /\ hosting.pc = "arrival" => HeldLine(cached', "first").ring < hosting.run
  BY <1>1, <1>4, <1>5, LineKept
<1>8. child.grant = 0 /\ ~child.retired /\ child # NoChild /\ child.stage = "ok"
  BY <1>1, <1>3 DEF CommonInv, ChildShape, ReadingPcs, NoChild
<1>9. (Posted' <=> Posted) /\ (Open' <=> Open)
  BY <1>3 DEF Open, Posted
<1>10. CASE child' = child
  <2>1. RingInv'
    BY <1>1, <1>3, <1>10, SameHost, SameChild, SameDriver, QuietKeeps DEF CommonInv
  <2>2. Granting' /\ ChildShape(child')
    BY <1>1, <1>3, <1>10 DEF CommonInv, Granting
  <2>3. OnePart'
    <3>1. HostSide'
      BY <1>1, <1>3, <1>7, <1>9, <1>10 DEF OnePart, HostSide, ChildSide, Answering, LinesOld
    <3>2. ChildSide'
      BY <1>1, <1>3, <1>7, <1>9, <1>10 DEF OnePart, HostSide, ChildSide, Answering, LinesOld
    <3>3. Answering'
      BY <1>1, <1>3, <1>7, <1>9, <1>10 DEF OnePart, HostSide, ChildSide, Answering, LinesOld
    <3>4. LinesOld'
      BY <1>1, <1>3, <1>7, <1>9, <1>10 DEF OnePart, HostSide, ChildSide, Answering, LinesOld
    <3>5. QED
      BY <3>1, <3>2, <3>3, <3>4 DEF OnePart
  <2>4. QED
    BY <1>2, <2>1, <2>2, <2>3 DEF OneInv, CommonInv
<1>11. CASE child' = [child EXCEPT !.pc = "result", !.stage = "reserve"]
  <2>1. child'.pc = "result" /\ child'.stage = "reserve" /\ child'.retired = child.retired /\ ChildSame
    BY <1>1, <1>11, ChildStopping
  <2>2. RingInv'
    BY <1>1, <1>3, <1>11, ChildStopsRing
  <2>3. ChildShape(child')
    BY <1>1, <1>8, <1>11, ShapeStops DEF CommonInv
  <2>4. child'.pc \notin WorkingPcs /\ child'.pc \in Idlers
    BY <2>1 DEF WorkingPcs, FillingPcs, Idlers
  <2>5. Granting'
    BY <1>1, <1>3, <1>8, <2>1, <2>4, Scalars DEF CommonInv, Granting, ChildSame
  <2>6. OnePart'
    <3>1. HostSide'
      BY <1>1, <1>3, <1>7, <1>8, <1>9, <2>1, <2>4, Scalars
         DEF OnePart, HostSide, ChildSide, Answering, LinesOld, ChildSame
    <3>2. ChildSide'
      BY <1>1, <1>3, <1>7, <1>8, <1>9, <2>1, <2>4, Scalars
         DEF OnePart, HostSide, ChildSide, Answering, LinesOld, ChildSame
    <3>3. Answering'
      BY <1>1, <1>3, <1>7, <1>8, <1>9, <2>1, <2>4, Scalars
         DEF OnePart, HostSide, ChildSide, Answering, LinesOld, ChildSame
    <3>4. LinesOld'
      BY <1>1, <1>3, <1>7, <1>8, <1>9, <2>1, <2>4, Scalars
         DEF OnePart, HostSide, ChildSide, Answering, LinesOld, ChildSame
    <3>5. QED
      BY <3>1, <3>2, <3>3, <3>4 DEF OnePart
  <2>7. QED
    BY <1>2, <2>2, <2>3, <2>5, <2>6 DEF OneInv, CommonInv
<1>12. CASE block.ready /\ ChildGoes("poll", "range")
  <2>1. child'.pc = "range" /\ child'.stage = child.stage /\ child'.retired = child.retired /\ ChildSame
    BY <1>1, <1>12, ChildMoving
  <2>2. RingInv'
    BY <1>1, <1>3, <1>12, ChildGoesRing DEF FillingPcs
  <2>3. ChildShape(child')
    BY <1>1, <1>12, ShapeGoes DEF CommonInv, ReadingPcs, WorkingPcs, FillingPcs
  <2>4. child'.pc \notin WorkingPcs /\ hosting.run > 0
    BY <1>1, <1>8, <2>1, Scalars DEF WorkingPcs, FillingPcs, CommonInv, Granting
  <2>5. Granting'
    BY <1>1, <1>3, <1>8, <2>1, <2>4, Scalars DEF CommonInv, Granting, ChildSame
  <2>6. Open /\ Posted
    BY <1>1, <1>12, <2>4 DEF Open, OnePart, HostSide, ChildSide, Answering, LinesOld
  <2>7. HeldLine(cached', "first").ring = hosting.run
    BY <1>7, <2>6 DEF FirstLine, Posted
  <2>8. OnePart'
    <3>1. HostSide'
      BY <1>1, <1>3, <1>5, <1>7, <1>8, <1>9, <2>1, <2>4, <2>6, <2>7, Scalars
         DEF OnePart, HostSide, ChildSide, Answering, LinesOld, ChildSame, Open
    <3>2. ChildSide'
      BY <1>1, <1>3, <1>5, <1>7, <1>8, <1>9, <2>1, <2>4, <2>6, <2>7, Scalars
         DEF OnePart, HostSide, ChildSide, Answering, LinesOld, ChildSame, Open
    <3>3. Answering'
      BY <1>1, <1>3, <1>5, <1>7, <1>8, <1>9, <2>1, <2>4, <2>6, <2>7, Scalars
         DEF OnePart, HostSide, ChildSide, Answering, LinesOld, ChildSame, Open
    <3>4. LinesOld'
      BY <1>1, <1>3, <1>5, <1>7, <1>8, <1>9, <2>1, <2>4, <2>6, <2>7, Scalars
         DEF OnePart, HostSide, ChildSide, Answering, LinesOld, ChildSame, Open
    <3>5. QED
      BY <3>1, <3>2, <3>3, <3>4 DEF OnePart
  <2>9. QED
    BY <1>2, <2>2, <2>3, <2>5, <2>8 DEF OneInv, CommonInv
<1>13. QED
  BY <1>6, <1>10, <1>11, <1>12

LEMMA OneDescriptorsOne == ASSUME OneInv, ~orphan, OneDescriptors PROVE OneInv'
<1>1. DirectTyped /\ CommonInv /\ OnePart /\ block \in BlockRecord /\ CachedTyped(cached) /\ ChildShape(child)
  BY DEF OneInv, CommonInv, DirectTyped
<1> DEFINE first == Load("first", cached)
           second == Load("second", cached)
<1>2. DirectTyped' /\ TakesGrant(first, second)
  BY <1>1, OneDescriptorsTyped
<1>3. UNCHANGED <<block, hosting, cpring, granted, orphan>> /\ child.pc = "range"
      /\ cached' = Loaded("second", cached)
  BY DEF OneDescriptors
<1>4. first \in FirstLines /\ second \in SecondLines
  BY <1>1, StaleLoad DEF Lines
<1>5. cached'["first"] = cached["first"] /\ HeldLine(cached', "first") = HeldLine(cached, "first")
  BY <1>1, <1>3, StaleLoad DEF Lines, HeldLine
<1>6. first.ring <= hosting.run /\ (hosting.pc = "arrival" => first.ring < hosting.run) /\ first.ring \in Nat
  BY <1>1, <1>4, LineKept DEF FirstLines
<1>7. Open => first.ring = hosting.run /\ second = SecondLine
  <2> SUFFICES ASSUME Open PROVE first.ring = hosting.run /\ second = SecondLine
    OBVIOUS
  <2>1. cached["second"] = {} /\ cached["first"] # {} /\ HeldLine(cached, "first").ring = hosting.run
    BY <1>1, <1>3 DEF OnePart, HostSide, ChildSide, Answering, LinesOld
  <2>2. "first" \in Lines /\ "second" \in Lines /\ "first" # "second" /\ LineNow("second") = SecondLine
    BY DEF Lines, LineNow
  <2>3. first = HeldLine(cached, "first")
    BY <1>1, <2>1, <2>2, StaleLoad
  <2>4. second = SecondLine
    BY <1>1, <2>1, <2>2, StaleLoad
  <2>5. QED
    BY <2>1, <2>3, <2>4
<1>8. SecondLine.bar = block.bar /\ SecondLine.fence = block.fence /\ SecondLine.batches = block.batches
  BY DEF SecondLine
<1> HIDE DEF first, second
<1>9. /\ child'.gen = child.gen
      /\ \/ /\ first.ring = 0 \/ ~second.bar
            /\ child'.pc = "result" /\ child'.grant = 0 /\ child'.stage = "ring_range" /\ ~child'.retired
         \/ /\ first.ring # 0 /\ second.bar
            /\ child'.pc = "reserve" /\ child'.grant = first.ring /\ child'.stage = "ok" /\ ~child'.retired
            /\ child'.next = (IF second.fence = 0 THEN 1 ELSE second.fence)
               /\ child'.batches = WantedBatches(second.batches)
  BY <1>1, <1>2, <1>3, <1>4, TakenFields
<1>10. child # NoChild /\ child.pc \notin {"poll", "result", "done", "idle"} \cup Idlers
  BY <1>3 DEF NoChild, Idlers
<1>11. hosting.run > 0
  BY <1>1, <1>10, Scalars DEF CommonInv, Granting
<1>12. Open => Posted /\ ~block.retired
  BY <1>1, <1>10 DEF OnePart, HostSide, ChildSide, Answering, LinesOld
<1>13. Open => child'.grant = hosting.run /\ child'.pc = "reserve" /\ child'.next = hosting.next /\ child'.batches = WantedBatches(hosting.batches)
  BY <1>7, <1>8, <1>9, <1>11, <1>12, Scalars DEF Posted
<1>14. hosting.pc \in {"start", "arrival", "waiting", "checked", "closing"}
  BY <1>1, Scalars, <1>10 DEF OnePart, HostSide, ChildSide, Answering, LinesOld, HostPcs
<1>15. granted.lease => Open
  BY <1>1, <1>11, <1>14 DEF CommonInv, Granting, OnePart, HostSide, ChildSide, Answering, LinesOld, Open
<1>16. RingInv'
  BY <1>1, <1>2, <1>3, <1>4, <1>13, <1>15, TakingRing
<1>17. ChildShape(child')
  BY <1>1, <1>2, <1>3, <1>4, ShapeTakes
<1>18. child'.grant <= hosting.run /\ (child'.grant = hosting.run => hosting.pc # "arrival")
  BY <1>1, <1>6, <1>9, <1>11, Scalars
<1>19. hosting.pc = "checked" /\ granted.lease => FALSE
  BY <1>1, <1>3 DEF CommonInv, Granting
<1>20. Granting'
  BY <1>1, <1>3, <1>11, <1>13, <1>14, <1>15, <1>18, <1>19 DEF CommonInv, Granting
<1>21. (Open' <=> Open) /\ (Posted' <=> Posted)
  BY <1>3 DEF Open, Posted
<1>22. child'.pc \in {"result"} \cup WorkingPcs /\ child'.pc \in {"result", "reserve"}
       /\ (child'.pc = "result" => child'.pc \in Idlers)
  BY <1>9 DEF WorkingPcs, FillingPcs, Idlers
<1>23. hosting.pc = "arrival" => block.stage # Marker
  BY <1>1, <1>10 DEF OnePart, HostSide, ChildSide, Answering, LinesOld
<1>24. child.gen = hosting.run => Open
  BY <1>1, <1>3 DEF OnePart, HostSide, ChildSide, Answering, LinesOld
<1>25. OnePart'
  <2>1. HostSide'
    BY <1>1, <1>3, <1>5, <1>9, <1>12, <1>13, <1>14, <1>21, <1>22, <1>23, <1>24, Scalars
       DEF OnePart, HostSide, ChildSide, Answering, LinesOld
  <2>2. ChildSide'
    BY <1>1, <1>3, <1>5, <1>9, <1>12, <1>13, <1>14, <1>21, <1>22, <1>23, <1>24, Scalars
       DEF OnePart, HostSide, ChildSide, Answering, LinesOld
  <2>3. Answering'
    BY <1>1, <1>3, <1>5, <1>9, <1>12, <1>13, <1>14, <1>21, <1>22, <1>23, <1>24, Scalars
       DEF OnePart, HostSide, ChildSide, Answering, LinesOld
  <2>4. LinesOld'
    BY <1>1, <1>3, <1>5, <1>9, <1>12, <1>13, <1>14, <1>21, <1>22, <1>23, <1>24, Scalars
       DEF OnePart, HostSide, ChildSide, Answering, LinesOld
  <2>5. QED
    BY <2>1, <2>2, <2>3, <2>4 DEF OnePart
<1>26. QED
  BY <1>2, <1>16, <1>17, <1>20, <1>25 DEF OneInv, CommonInv

LEMMA OnePublishing ==
  ASSUME OneInv, ~orphan, OnePublish, NEW from, NEW to, ChildGoes(from, to),
         UNCHANGED <<cached, hosting, cpring, granted, orphan>>,
         (from = "result" /\ to = "done") \/ (from = "done" /\ to = "idle")
  PROVE  OneInv'
<1>1. DirectTyped /\ CommonInv /\ OnePart /\ block \in BlockRecord /\ child \in ChildRecord
  BY DEF OneInv, CommonInv, DirectTyped
<1>2. DirectTyped'
  BY <1>1, OnePublishTyped
<1>3. from = child.pc
  BY DEF ChildGoes
<1>4. child.pc = from /\ child'.pc = to /\ child'.stage = child.stage /\ child'.retired = child.retired
      /\ ChildSame
  BY <1>1, <1>3, ChildMoving
<1>5. /\ block'.ready = block.ready /\ block'.ring = block.ring /\ block'.bar = block.bar
      /\ block'.fence = block.fence /\ block'.batches = block.batches
      /\ from = "result" =>
           block'.submits = child.submits /\ block'.retired = child.retired /\ block'.stage = child.stage
      /\ from = "done" =>
           block'.submits = block.submits /\ block'.retired = block.retired /\ block'.stage = block.stage
  <2>1. CASE from = "result"
    BY <1>3, <2>1, <1>1 DEF OnePublish, ChildGoes, BlockRecord
  <2>2. CASE from = "done"
    BY <1>3, <2>2, <1>1 DEF OnePublish, ChildGoes, BlockRecord
  <2>3. QED
    BY <1>3, <2>1, <2>2
<1>6. RingInv'
  <2>1. to \notin FillingPcs
    BY <1>3 DEF FillingPcs
  <2>2. QED
    BY <1>1, <1>3, <2>1, ChildGoesRing
<1>7. ChildShape(child')
  BY <1>1, <1>3, ShapeGoes DEF CommonInv, ReadingPcs, WorkingPcs, FillingPcs
<1>8. child # NoChild /\ child'.pc \notin WorkingPcs /\ child'.pc \in Idlers
      /\ child.pc \notin {"poll", "range", "idle"} \cup WorkingPcs
      /\ child'.pc \in {"done", "idle"}
  BY <1>3, <1>4 DEF NoChild, WorkingPcs, FillingPcs, Idlers
<1>9. Granting'
  BY <1>1, <1>3, <1>4, <1>5, <1>8, Scalars DEF CommonInv, Granting, ChildSame
<1>10. (Open' <=> Open) /\ (Posted' <=> Posted) /\ HeldLine(cached, "first")' = HeldLine(cached, "first")
  BY <1>3, <1>5 DEF Open, Posted
<1>11. child.stage # Marker
  BY <1>1 DEF ChildRecord, Stages, Marker
<1>12. child.retired => child.grant # 0
  BY <1>1 DEF CommonInv, ChildShape
<1>13. OnePart'
  <2>1. HostSide'
    BY <1>1, <1>3, <1>4, <1>5, <1>8, <1>10, <1>11, <1>12, Scalars
       DEF OnePart, HostSide, ChildSide, Answering, LinesOld, ChildSame
  <2>2. ChildSide'
    BY <1>1, <1>3, <1>4, <1>5, <1>8, <1>10, <1>11, <1>12, Scalars
       DEF OnePart, HostSide, ChildSide, Answering, LinesOld, ChildSame
  <2>3. Answering'
    BY <1>1, <1>3, <1>4, <1>5, <1>8, <1>10, <1>11, <1>12, Scalars
       DEF OnePart, HostSide, ChildSide, Answering, LinesOld, ChildSame
  <2>4. LinesOld'
    BY <1>1, <1>3, <1>4, <1>5, <1>8, <1>10, <1>11, <1>12, Scalars
       DEF OnePart, HostSide, ChildSide, Answering, LinesOld, ChildSame
  <2>5. QED
    BY <2>1, <2>2, <2>3, <2>4 DEF OnePart
<1>14. QED
  BY <1>2, <1>6, <1>7, <1>9, <1>13 DEF OneInv, CommonInv

LEMMA OnePublishOneShot == ASSUME OneInv, ~orphan, OnePublish PROVE OneInv'
<1>1. CASE ChildGoes("result", "done") /\ UNCHANGED <<cached, hosting, cpring, granted, orphan>>
  BY <1>1, OnePublishing
<1>2. CASE ChildGoes("done", "idle") /\ UNCHANGED <<cached, hosting, cpring, granted, orphan>>
  BY <1>2, OnePublishing
<1>3. QED
  BY <1>1, <1>2 DEF OnePublish

LEMMA InitOne == ASSUME DirectInit PROVE OneInv
<1>1. CommonInv /\ hosting = NoHost /\ child = NoChild /\ ~granted.lease
  BY InitCommon, InitTyped
<1>2. hosting.pc = "start" /\ hosting.run = 0
  BY <1>1 DEF NoHost
<1>3. child.pc = "idle" /\ child.grant = 0 /\ child.gen = 0 /\ child.stage = "ok"
  BY <1>1 DEF NoChild
<1>4. block.stage = "ok" /\ "ok" # Marker
  <2>1. CASE block = Blank
    BY <2>1 DEF Blank, Marker
  <2>2. CASE block \in [magic : {TRUE}, ready : {TRUE}, gen : {0}, ring : {0}, bar : {TRUE},
                        fence : FirstSeqs, batches : BatchCounts, present : {TRUE}, done : {TRUE},
                        echo : {0}, stage : {"ok"}, submits : BatchCounts, last : {1}, retired : {TRUE}]
    BY <2>2 DEF Marker
  <2>3. QED
    BY <2>1, <2>2 DEF DirectInit
<1>5. ~Open
  BY <1>2 DEF Open
<1>6. cached["first"] = {}
  BY DEF DirectInit, Lines
<1>7. OnePart
  BY <1>2, <1>3, <1>4, <1>5, <1>6 DEF OnePart, HostSide, ChildSide, Answering, LinesOld
<1>8. QED
  BY <1>1, <1>7 DEF OneInv

(* Every step of OneShotNext keeps OneInv.                                  *)
LEMMA StepOne == ASSUME OneInv, OneShotNext PROVE OneInv'
<1>1. ~orphan
  BY DEF OneShotNext
<1>2. CASE OwnSubmit \/ FetchUnit \/ LeaseReclaim \/ HalfSecond
  BY <1>1, <1>2, DriverOne, HalfSecondOne
<1>3. CASE OneHostStart \/ OneHostArrival \/ OneAcquire \/ OnePublishFirst \/ OnePublishSecond
           \/ PublishHostDone
  BY <1>1, <1>3, OneHostStartOne, OneHostArrivalOne, OneAcquireOne, OnePublishOne, PublishHostDoneOne
<1>4. CASE OneHostWait \/ OneResults \/ OneRelease \/ OneClose
  BY <1>1, <1>4, OneHostWaitOne, OneResultsOne, OneReleaseOne, OneCloseOne
<1>5. CASE OneWaitFails
  BY <1>1, <1>5, QuitsOne DEF OneWaitFails, HostWaitFails
<1>6. CASE OneStart \/ OneValidate \/ OneMark \/ OnePoll \/ OneDescriptors
  BY <1>1, <1>6, OneStartOne, OneValidateOne, OneMarkOne, OnePollOne, OneDescriptorsOne
<1>7. CASE OneReserve \/ OneWrite \/ OneCommit \/ OneRetire
  BY <1>1, <1>7, WorkOne
<1>8. CASE OnePublish
  BY <1>1, <1>8, OnePublishOneShot
<1>9. QED
  BY <1>2, <1>3, <1>4, <1>5, <1>6, <1>7, <1>8 DEF OneShotNext
------------------------------------------------------------------------------
(* What the runs check follows from the invariants.                         *)

(* The child's batch has room: its units lie behind those that are pending. *)
LEMMA OverwritesNothing == ASSUME CommonInv PROVE NothingOverwritten
<1> SUFFICES ASSUME ~orphan, child.pc \in {"write", "rest", "back"}, granted.lease,
                    NEW p \in RingPlaces(child.wptr, BatchUnits), p \in FetchPending
             PROVE  FALSE
  BY DEF NothingOverwritten
<1>1. cpring \in RingRecord /\ granted.ready
  BY DEF CommonInv, DirectTyped, Granting
<1>2. RingAgrees(cpring, granted, hosting, child)
  BY <1>1 DEF CommonInv, RingInv
<1>3. child.wptr = cpring.wptr /\ PendingUnits(cpring) + BatchUnits < RingUnits
  BY <1>2 DEF RingAgrees, Laying, FillingPcs
<1> DEFINE r == cpring.rptr
           w == cpring.wptr
           n == PendingUnits(cpring)
<1>4. PICK i \in 0 .. 3 : p = (w + i) % RingUnits
  BY <1>3, RingConsts DEF RingPlaces
<1>5. PICK j \in 0 .. n - 1 : p = (r + j) % RingUnits
  BY DEF FetchPending, RingPlaces, PendingUnits
<1>6. r \in Places /\ w \in Places
  BY <1>1 DEF RingRecord
<1>7. n \in 0 .. RingUnits - 1 /\ n = (IF w >= r THEN w - r ELSE w - r + RingUnits)
  BY <1>1, Distance
<1>8. n + 4 < RingUnits
  BY <1>3, RingConsts
<1> HIDE DEF r, w, n
<1>9. i \in 0 .. RingUnits /\ j \in 0 .. RingUnits
  BY <1>4, <1>5, <1>7, RingConsts
<1>10. p = (IF w + i < RingUnits THEN w + i ELSE w + i - RingUnits)
  BY <1>4, <1>6, <1>9, PlaceIs
<1>11. p = (IF r + j < RingUnits THEN r + j ELSE r + j - RingUnits)
  BY <1>5, <1>6, <1>9, PlaceIs
<1>12. QED
  BY <1>4, <1>5, <1>6, <1>7, <1>8, <1>10, <1>11, RingConsts DEF Places

(* Pending units are written and followed by the rest of their batch.       *)
LEMMA PendingWhole == ASSUME CommonInv PROVE PendingIsWritten
<1> SUFFICES ASSUME ~orphan, granted.ready, NEW p \in FetchPending
             PROVE  /\ cpring.words[p] # Unwritten
                    /\ cpring.words[p][2] < BatchUnits =>
                         /\ (p + 1) % RingUnits \in FetchPending
                         /\ cpring.words[(p + 1) % RingUnits] = <<cpring.words[p][1], cpring.words[p][2] + 1>>
  BY DEF PendingIsWritten
<1>1. cpring \in RingRecord /\ WholeUnits(cpring)
  BY DEF CommonInv, DirectTyped, RingInv, RingAgrees
<1> DEFINE r == cpring.rptr
           n == PendingUnits(cpring)
<1>2. PICK i \in 0 .. n - 1 : p = (r + i) % RingUnits
  BY DEF FetchPending, RingPlaces, PendingUnits
<1>3. cpring.words[p] = UnitAt(cpring, i)
  BY <1>2 DEF UnitAt
<1>4. UnitAt(cpring, i)[2] \in 1 .. BatchUnits
  BY <1>1, <1>2 DEF WholeUnits
<1>5. Unwritten[2] = 0
  BY DEF Unwritten
<1>6. cpring.words[p] # Unwritten
  BY <1>3, <1>4, <1>5, RingConsts
<1>7. ASSUME cpring.words[p][2] < BatchUnits
      PROVE  (p + 1) % RingUnits \in FetchPending
             /\ cpring.words[(p + 1) % RingUnits] = <<cpring.words[p][1], cpring.words[p][2] + 1>>
  <2>1. i + 1 < n /\ UnitAt(cpring, i + 1) = <<UnitAt(cpring, i)[1], UnitAt(cpring, i)[2] + 1>>
    BY <1>1, <1>2, <1>3, <1>7 DEF WholeUnits
  <2>2. r \in Places /\ n \in 0 .. RingUnits - 1
    BY <1>1, Distance DEF RingRecord
  <2> DEFINE k == i + 1
             one == 1
  <2>3. k \in 0 .. n - 1 /\ k \in 0 .. RingUnits /\ i \in 0 .. RingUnits /\ one \in 0 .. RingUnits /\ one = 1
        /\ k = i + one
    BY <1>2, <2>1, <2>2, RingConsts
  <2>4. (p + 1) % RingUnits = (r + k) % RingUnits
    <3> HIDE DEF r, n, k, one
    <3>1. p = (IF r + i < RingUnits THEN r + i ELSE r + i - RingUnits) /\ p \in Places
      BY <1>2, <2>2, <2>3, PlaceIs
    <3>2. (p + one) % RingUnits = (IF p + one < RingUnits THEN p + one ELSE p + one - RingUnits)
      BY <2>3, <3>1, PlaceIs
    <3>3. (r + k) % RingUnits = (IF r + k < RingUnits THEN r + k ELSE r + k - RingUnits)
      BY <2>2, <2>3, PlaceIs
    <3>4. r \in Nat /\ i \in Nat /\ r < RingUnits /\ i < RingUnits
      BY <1>2, <2>2, <2>3, RingConsts DEF Places
    <3>5. (p + one) % RingUnits = (r + k) % RingUnits
      BY <2>3, <3>1, <3>2, <3>3, <3>4, RingConsts
    <3>6. QED
      BY <2>3, <3>5
  <2>5. (r + k) % RingUnits \in FetchPending
    BY <2>3 DEF FetchPending, RingPlaces, PendingUnits
  <2>6. cpring.words[(r + k) % RingUnits] = UnitAt(cpring, k)
    BY DEF UnitAt
  <2>7. QED
    BY <1>3, <2>1, <2>4, <2>5, <2>6
<1>8. QED
  BY <1>6, <1>7

(* What the host accepts is executed.                                       *)
LEMMA AcceptedResults == ASSUME CommonInv PROVE AcceptedIsDone
<1> SUFFICES ASSUME ~orphan, hosting.pc = "checked", granted.lease
             PROVE  /\ cpring.scratch = hosting.last /\ cpring.rptr = cpring.wptr
                    /\ child.grant = hosting.run /\ child.submits = hosting.batches
  BY DEF AcceptedIsDone
<1>1. cpring \in RingRecord /\ granted.ready
  BY DEF CommonInv, DirectTyped, Granting
<1>2. RingAgrees(cpring, granted, hosting, child)
  BY <1>1 DEF CommonInv, RingInv
<1>3. child.grant = hosting.run /\ child.retired /\ child.submits = hosting.batches
      /\ hosting.last = NthSeq(hosting.next, hosting.batches - 1)
  BY DEF CommonInv, Granting
<1>4. PendingUnits(cpring) = 0 /\ cpring.scratch = hosting.last
  BY <1>2, <1>3 DEF RingAgrees, AllExecuted
<1>5. cpring.rptr \in Places /\ cpring.wptr \in Places
  BY <1>1 DEF RingRecord
<1>6. cpring.rptr = cpring.wptr
  BY <1>1, <1>4, <1>5, Distance, RingConsts DEF Places
<1>7. QED
  BY <1>3, <1>4, <1>6

LEMMA HandshakeFrom == ASSUME DirectInv PROVE HandshakeSound
BY AcceptedResults DEF DirectInv, DirectPart, Renewed, HandshakeSound, HeartbeatHolds

LEMMA OneShotFrom == ASSUME OneInv PROVE OneShotSound
<1>1. CommonInv /\ OnePart
  BY DEF OneInv
<1>2. child.gen = hosting.run => child.stage # "ring_range"
  BY <1>1 DEF OnePart, LinesOld
<1>3. ASSUME granted.lease, child.pc \in {"reserve", "write", "rest", "back", "fence"}
      PROVE  child.grant = hosting.run /\ child.next = hosting.next /\ child.batches = hosting.batches
  BY <1>3, <1>1 DEF WorkingPcs, FillingPcs, CommonInv, Granting, OnePart, HostSide, WantedBatches
<1>4. QED
  BY <1>1, <1>2, <1>3, AcceptedResults DEF OneShotSound, GrantReadWhole

LEMMA SharedFrom == ASSUME CommonInv PROVE RingShared
BY OverwritesNothing, PendingWhole DEF RingShared

(* A poll that gives up is a look at memory. *)
LEMMA GivesUp ==
  ASSUME DirectTyped, DirectNext \/ OneShotNext, child.pc = "poll", child'.pc = "result"
  PROVE  ~block.ready
<1>1. child \in ChildRecord
  BY DEF DirectTyped
<1>2. CASE ChildPoll
  <2>1. Load("first", P0FlushRange(PollLines)) = FirstLine
    BY FreshLoad DEF PollLines
  <2>2. Load("first", P0FlushRange(PollLines)).ready = block.ready
    BY <2>1 DEF FirstLine
  <2>3. CASE block.ready
    <3>1. ChildGoes("poll", "range")
      BY <1>2, <2>2, <2>3 DEF ChildPoll
    <3>2. child'.pc = "range"
      BY <3>1, ChildMoving
    <3>3. QED
      BY <3>2
  <2>4. QED
    BY <2>3 DEF DirectTyped, BlockRecord
<1>3. CASE OnePoll
  <2>1. Load("first", P0FlushRange(Flushed)) = FirstLine
    BY FreshLoad DEF Flushed, Lines
  <2>2. Load("first", P0FlushRange(Flushed)).ready = block.ready
    BY <2>1 DEF FirstLine
  <2>3. CASE block.ready
    <3>1. ChildGoes("poll", "range")
      BY <1>3, <2>2, <2>3 DEF OnePoll
    <3>2. child'.pc = "range"
      BY <3>1, ChildMoving
    <3>3. QED
      BY <3>2
  <2>4. QED
    BY <2>3 DEF DirectTyped, BlockRecord
<1>4. CASE child' = child
  BY <1>4
<1>5. ASSUME NEW from, from # "poll", NEW to, ChildGoes(from, to) PROVE FALSE
  BY <1>5 DEF ChildGoes
<1>6. ASSUME NEW from, from # "poll", NEW stage, ChildFails(from, stage) PROVE FALSE
  BY <1>6 DEF ChildFails
<1>7. CASE \/ OwnSubmit
           \/ FetchUnit
           \/ LeaseReclaim
           \/ HalfSecond
  BY <1>4, <1>7 DEF OwnSubmit, FetchUnit, LeaseReclaim, HalfSecond
<1>8. CASE HostStart \/ HostPublish \/ HostArrival \/ HostArrivalFails \/ HostAcquire \/ HostGrant
  BY <1>4, <1>8
     DEF HostStart, HostPublish, HostArrival, HostArrivalFails, HostAcquire, HostGrant, PublishHead,
         PublishTail, HostQuits
<1>9. CASE HostWait \/ HostWaitFails \/ HostResults \/ HostRelease \/ HostClose
  BY <1>4, <1>9 DEF HostWait, HostWaitFails, HostResults, HostRelease, HostClose, HostQuits
<1>10. CASE ChildStart \/ ChildClear \/ ChildEcho \/ ChildDescriptors
  BY <1>10 DEF ChildStart, ChildClear, ChildEcho, ChildDescriptors, ChildGoes, ChildFails
<1>11. CASE ChildReserve \/ ChildWrite \/ ChildCommit \/ ChildRetire \/ ChildPublish \/ ChildValidate
  BY <1>11
     DEF ChildReserve, ChildWrite, ChildCommit, ChildRetire, ChildPublish, ChildGoes, ChildFails, ChildValidate
<1>12. CASE OneHostStart \/ OneHostArrival \/ OneAcquire \/ OnePublishFirst \/ OnePublishSecond
            \/ PublishHostDone
  BY <1>4, <1>12
     DEF OneHostStart, OneHostArrival, OneAcquire, HostAcquire, OnePublishFirst, OnePublishSecond,
         PublishHostDone, HostQuits
<1>13. CASE OneHostWait \/ OneWaitFails \/ OneResults \/ OneRelease \/ OneClose
  BY <1>4, <1>13
     DEF OneHostWait, OneWaitFails, HostWaitFails, OneResults, HostResults, OneRelease, HostRelease, OneClose,
         HostClose, HostQuits
<1>14. CASE OneStart \/ OneValidate \/ OneMark \/ OneDescriptors \/ OnePublish
  BY <1>14 DEF OneStart, OneValidate, OneMark, OneDescriptors, OnePublish, ChildGoes
<1>15. CASE OneReserve \/ OneWrite \/ OneCommit \/ OneRetire
  BY <1>15
     DEF OneReserve, OneWrite, OneCommit, OneRetire, ChildReserve, ChildWrite, ChildCommit, ChildRetire,
         ChildGoes, ChildFails
<1>16. CASE DirectNext
  BY <1>2, <1>7, <1>8, <1>9, <1>10, <1>11, <1>16 DEF DirectNext
<1>17. CASE OneShotNext
  BY <1>3, <1>7, <1>12, <1>13, <1>14, <1>15, <1>17 DEF OneShotNext
<1>18. QED
  BY <1>16, <1>17

------------------------------------------------------------------------------
(* Nothing changes.                                                         *)
LEMMA SameCommon == ASSUME CommonInv, UNCHANGED directvars PROVE CommonInv'
<1>1. DirectTyped'
  BY DEF CommonInv, DirectTyped, directvars
<1>2. ChildShape(child)' /\ RingInv'
  BY DEF CommonInv, RingInv, directvars
<1>3. Granting'
  BY DEF CommonInv, Granting, directvars
<1>4. QED
  BY <1>1, <1>2, <1>3 DEF CommonInv

LEMMA SameDirect == ASSUME DirectInv, UNCHANGED directvars PROVE DirectInv'
<1>1. CommonInv'
  BY SameCommon DEF DirectInv
<1>2. Echoes' /\ Renewed'
  BY DEF DirectInv, DirectPart, Echoes, Renewed, Engaged, directvars
<1>3. Posts'
  BY DEF DirectInv, DirectPart, Posts, Posted, Open, Engaged, Reported, directvars
<1>4. QED
  BY <1>1, <1>2, <1>3 DEF DirectInv, DirectPart

LEMMA SameOne == ASSUME OneInv, UNCHANGED directvars PROVE OneInv'
<1>1. CommonInv'
  BY SameCommon DEF OneInv
<1>2. HostSide' /\ ChildSide'
  BY DEF OneInv, OnePart, HostSide, ChildSide, Posted, Open, directvars
<1>3. Answering' /\ LinesOld'
  BY DEF OneInv, OnePart, Answering, LinesOld, Open, directvars
<1>4. QED
  BY <1>1, <1>2, <1>3 DEF OneInv, OnePart

------------------------------------------------------------------------------
(* phase3host and ppcphase3, for every ring, every range of fence numbers   *)
(* and any number of runs: nothing pending is overwritten and the driver    *)
(* goes on where the child stopped; an accepted result is of a child that   *)
(* used this lease, its batches all executed; and the 2D path never takes   *)
(* the lease from a host that waits (phase3host.c, ppcphase3.c,             *)
(* RadeonCpAdoptFence, LeaseReclaim).                                       *)
THEOREM DirectRingSound == DirectSpec => [](RingShared /\ HandshakeSound)
<1>1. DirectInv => RingShared /\ HandshakeSound
  BY SharedFrom, HandshakeFrom DEF DirectInv
<1>2. DirectInit => DirectInv
  BY InitDirect
<1>3. DirectInv /\ [DirectNext]_directvars => DirectInv'
  <2> SUFFICES ASSUME DirectInv, [DirectNext]_directvars PROVE DirectInv'
    OBVIOUS
  <2>1. CASE UNCHANGED directvars
    BY <2>1, SameDirect
  <2>2. QED
    BY <2>1, StepDirect
<1>4. QED
  BY <1>1, <1>2, <1>3, PTL DEF DirectSpec

(* phase2host and ppcphase2, alike: what HOST_DONE announces is read whole, *)
(* though the child's cache may still have an older copy of its lines       *)
(* (phase2host.c, ppcphase2.c).                                             *)
THEOREM OneShotRingSound == OneShotSpec => [](RingShared /\ OneShotSound)
<1>1. OneInv => RingShared /\ OneShotSound
  BY SharedFrom, OneShotFrom DEF OneInv
<1>2. DirectInit => OneInv
  BY InitOne
<1>3. OneInv /\ [OneShotNext]_directvars => OneInv'
  <2> SUFFICES ASSUME OneInv, [OneShotNext]_directvars PROVE OneInv'
    OBVIOUS
  <2>1. CASE UNCHANGED directvars
    BY <2>1, SameOne
  <2>2. QED
    BY <2>1, StepOne
<1>4. QED
  BY <1>1, <1>2, <1>3, PTL DEF OneShotSpec
==============================================================================
