------------------------------ MODULE DirectRing -------------------------------
(***************************************************************************)
(* The PowerPC writes the command processor's ring itself: phase3host, on  *)
(* the 68k, takes the engine lease and publishes the ring in a control     *)
(* block in video memory, and ppcphase3 submits fenced batches and answers *)
(* in the same block.  The two processors share no lock and no cache: the  *)
(* 68k's accesses to video memory are uncached, the PowerPC's stores reach *)
(* it and its loads may be served from its cache.                          *)
(*                                                                         *)
(* The unit of the ring is CP_RING_ALIGNMENT dwords, what the command      *)
(* processor fetches at once.  Usage: the child is started while the host  *)
(* waits for it, one at a time (ppcphase3.c, "after Work:phase3host prints *)
(* the address").  What follows a ring write without the lease is not      *)
(* modelled: a behaviour ends there.                                       *)
(***************************************************************************)
EXTENDS Integers

CONSTANTS
  RingUnits,     \* CP_RING_DWORDS in units, a power of 2
  SeqRange,      \* fence numbers are taken modulo this, 2^32 in the code
  FirstPlaces,   \* where the ring stands when the first host starts
  FirstSeqs,     \* NextFence of the driver when the first host starts
  BatchCounts,   \* the host's --batches
  BatchDefault,  \* P3_BATCH_COUNT
  ExpiryTicks,   \* RADEON_LEASE_EXPIRY_SECS in ticks of half a second
  MaxHosts,      \* bound on the runs of the host
  MaxChildren,   \* bound on the runs of the child
  MaxOwn         \* bound on the driver's own submissions

ASSUME DirectRingAssumption ==
  /\ RingUnits \in Nat /\ RingUnits > 4 /\ SeqRange \in Nat /\ SeqRange > 8
  /\ FirstPlaces \subseteq 0 .. RingUnits - 1
  /\ FirstSeqs \subseteq 1 .. SeqRange - 1 /\ BatchCounts \subseteq Nat
  /\ {BatchDefault, ExpiryTicks, MaxHosts, MaxChildren, MaxOwn} \subseteq Nat
  /\ ExpiryTicks >= 5                                        \* 10 in the code
  /\ \A n \in BatchCounts \cup {BatchDefault} : 2 * (n + 3) <= SeqRange   \* 100000 and 2^32

VARIABLES
  block,    \* the control block: host-owned and child-owned words
  cached,   \* the child's copy of each line of host-owned words, if any
  hosting,  \* phase3host
  child,    \* ppcphase3
  cpring,   \* ring memory, CP_RB_RPTR, CP_RB_WPTR and SCRATCH_REG0
  granted,  \* the driver: LeaseActive and its age, NextFence, WritePointer
  orphan    \* history: the child wrote the ring without the lease, or what
            \*   it wrote was given up with the lease

directvars == <<block, cached, hosting, child, cpring, granted, orphan>>
------------------------------------------------------------------------------
BatchUnits == 4                   \* P2_PADDED_DWORDS
OwnUnits == 2                     \* a command and the fence tail
Unwritten == <<0, 0>>             \* fetched, or never written
SeqSum(seq, n) == (seq + n) % SeqRange
SeqAfter(seq) == IF SeqSum(seq, 1) = 0 THEN 1 ELSE SeqSum(seq, 1)
(* (LONG)(current - fence) >= 0.                                            *)
SeqPassed(current, fence) == (current - fence) % SeqRange < SeqRange \div 2
RingPlaces(from, n) == {(from + i) % RingUnits : i \in 0 .. n - 1}
FetchPending == RingPlaces(cpring.rptr, (cpring.wptr - cpring.rptr) % RingUnits)

(* The words of seq's batch at its place, its tail in the last unit.        *)
WriteBatch(words, at, seq, from, to) ==
  [p \in DOMAIN words |->
     LET k == 1 + ((p - at) % RingUnits) IN IF k \in from .. to THEN <<seq, k>> ELSE words[p]]

Lines == {"first", "second"}
FirstLine == [magic |-> block.magic, ready |-> block.ready, gen |-> block.gen, ring |-> block.ring]
SecondLine == [bar |-> block.bar, fence |-> block.fence, batches |-> block.batches]
LineNow(l) == IF l = "first" THEN FirstLine ELSE SecondLine
(* A load of the child and the copy of the line it leaves.                  *)
Load(l, copies) == IF copies[l] = {} THEN LineNow(l) ELSE CHOOSE x \in copies[l] : TRUE
Loaded(l, copies) == [copies EXCEPT ![l] = {Load(l, copies)}]
(* P0FlushRange: dcbf over the lines.                                       *)
P0FlushRange(lines) == [l \in Lines |-> IF l \in lines THEN {} ELSE cached[l]]

NoChild ==
  [pc |-> "idle", gen |-> 0, grant |-> 0, next |-> 0, batches |-> 0, batch |-> 0, wptr |-> 0,
   stage |-> "ok", submits |-> 0, last |-> 0, retired |-> FALSE, runs |-> 0]
NoHost ==
  [pc |-> "start", run |-> 0, batches |-> 0, next |-> 0, last |-> 0, renew |-> 0, due |-> FALSE, ok |-> FALSE]

Blank ==
  [magic |-> FALSE, ready |-> FALSE, gen |-> 0, ring |-> 0, bar |-> FALSE, fence |-> 0, batches |-> 0,
   present |-> FALSE, done |-> FALSE, echo |-> 0, stage |-> "ok", submits |-> 0, last |-> 0,
   retired |-> FALSE]

(* Video memory keeps what an earlier run left, up to a finished exchange.  *)
DirectInit ==
  /\ block \in {Blank}
          \cup [magic : {TRUE}, ready : {TRUE}, gen : {0}, ring : {0}, bar : {TRUE},
                fence : FirstSeqs, batches : BatchCounts, present : {TRUE}, done : {TRUE},
                echo : {0}, stage : {"ok"}, submits : BatchCounts, last : {1}, retired : {TRUE}]
  /\ cached = [l \in Lines |-> {}]
  /\ hosting = NoHost /\ child = NoChild /\ orphan = FALSE
  /\ \E seq \in FirstSeqs, at \in FirstPlaces :
       /\ granted = [lease |-> FALSE, age |-> 0, next |-> seq, write |-> at, ready |-> TRUE, own |-> 0]
       /\ cpring = [words |-> [p \in 0 .. RingUnits - 1 |-> Unwritten], rptr |-> at, wptr |-> at,
                    scratch |-> SeqSum(seq, SeqRange - 1)]
------------------------------------------------------------------------------
(* The driver and the command processor.                                    *)

(* RadeonCpSubmit: OwnUnits at the driver's write pointer, if they fit.     *)
OwnSubmit ==
  /\ granted.ready /\ ~granted.lease /\ granted.own < MaxOwn
  /\ (cpring.rptr - granted.write - 1) % RingUnits >= OwnUnits
  /\ LET to == (granted.write + OwnUnits) % RingUnits IN
     /\ cpring' = [cpring EXCEPT
          !.words = WriteBatch(@, (granted.write - BatchUnits + OwnUnits) % RingUnits,
                               granted.next, BatchUnits - OwnUnits + 1, BatchUnits),
          !.wptr = to]
     /\ granted' = [granted EXCEPT !.write = to, !.own = @ + 1, !.next = SeqAfter(@)]
  /\ UNCHANGED <<block, cached, hosting, child, orphan>>

(* The command processor fetches a unit; the tail writes the fence number.  *)
FetchUnit ==
  /\ granted.ready /\ cpring.rptr # cpring.wptr
  /\ LET word == cpring.words[cpring.rptr] IN
     cpring' = [cpring EXCEPT !.rptr = (@ + 1) % RingUnits, !.words[cpring.rptr] = Unwritten,
                              !.scratch = IF word[2] = BatchUnits THEN word[1] ELSE @]
  /\ UNCHANGED <<block, cached, hosting, child, granted, orphan>>

(* RadeonCpAdoptFence: the driver's state after a lease.                    *)
RadeonCpAdoptFence(g, lastFence) ==
  IF lastFence = 0 THEN g
  ELSE [g EXCEPT !.next = SeqAfter(lastFence), !.write = cpring.rptr]

(* RecoverEngine: the ring starts anew, or the command processor is off.    *)
RecoverRing(g) ==
  \/ /\ granted' = [g EXCEPT !.next = 1, !.write = 0, !.lease = FALSE]
     /\ cpring' = [words |-> [p \in DOMAIN cpring.words |-> Unwritten], rptr |-> 0, wptr |-> 0,
                   scratch |-> SeqRange - 3]
  \/ granted' = [g EXCEPT !.ready = FALSE, !.lease = FALSE] /\ UNCHANGED cpring

(* LeaseBlocks of a 2D callback finds the lease expired: LeaseReclaim.      *)
LeaseReclaim ==
  /\ granted.lease /\ granted.age > ExpiryTicks
  /\ RecoverRing(RadeonCpAdoptFence(granted, 0))
  /\ UNCHANGED <<block, cached, hosting, child, orphan>>

(* Half a second passes; the host's task runs at least once in each.        *)
HalfSecond ==
  /\ ~hosting.due
  /\ hosting.pc \in {"acquired", "filling", "flagging", "waiting", "checked"}
  /\ hosting' = [hosting EXCEPT !.due = TRUE, !.renew = IF @ > 1 THEN @ ELSE @ + 1]
  /\ granted' = [granted EXCEPT !.age = IF @ > ExpiryTicks THEN @ ELSE @ + 1]
  /\ UNCHANGED <<block, cached, child, cpring, orphan>>
------------------------------------------------------------------------------
(* phase3host.                                                              *)
HostGoes(from, to) == hosting.pc = from /\ hosting' = [hosting EXCEPT !.pc = to, !.due = FALSE]
HostQuits(from) == HostGoes(from, "closing") /\ UNCHANGED <<block, cached, child, cpring, granted, orphan>>

(* Up to the first publication: the probe batch retires and the segment is  *)
(* there, or the program ends.                                              *)
HostStart ==
  /\ hosting.pc = "start" /\ hosting.run < MaxHosts
  /\ granted.ready /\ ~granted.lease
  /\ \E n \in BatchCounts :
       hosting' = [NoHost EXCEPT !.pc = "opened", !.run = hosting.run + 1, !.batches = n]
  /\ UNCHANGED <<block, cached, child, cpring, granted, orphan>>

(* PublishHostPayload stores the words in order: up to HOST_READY ...       *)
PublishHead(from, to) ==
  /\ HostGoes(from, to)
  /\ block' = [block EXCEPT !.magic = TRUE, !.ready = FALSE]
  /\ UNCHANGED <<cached, child, cpring, granted, orphan>>

(* ... and the rest.                                                        *)
PublishTail(from, to, ring, fence) ==
  /\ HostGoes(from, to)
  /\ block' = [block EXCEPT !.gen = hosting.run, !.ring = ring, !.bar = ring # 0, !.fence = fence,
                            !.batches = hosting.batches]
  /\ UNCHANGED <<cached, child, cpring, granted, orphan>>

HostPublish == PublishHead("opened", "announcing") \/ PublishTail("announcing", "arrival", 0, 0)

\* Mutant: what an earlier run left counts as this run's.
ArrivedAny == block.present

(* The test that ends the wait for the child.                               *)
Arrived == block.echo = hosting.run /\ block.present /\ ~block.done

HostArrival == Arrived /\ HostGoes("arrival", "leasing") /\ UNCHANGED <<block, cached, child, cpring, granted, orphan>>
(* Two minutes pass, or a child that is done has never been present.        *)
HostArrivalFails == ~Arrived /\ HostQuits("arrival")

(* Radeon3DAcquireLease: the ring is drained, the lease is live.  A run in  *)
(* whose middle the numbers wrap is left out: two of its batches have 1.    *)
HostAcquire ==
  \/ HostQuits("leasing")
  \/ /\ hosting.pc = "leasing" /\ hosting' = [hosting EXCEPT !.pc = "acquired", !.next = granted.next]
     /\ granted.ready /\ ~granted.lease /\ cpring.rptr = cpring.wptr
     /\ granted.next + hosting.batches - 1 <= SeqRange
     /\ granted' = [granted EXCEPT !.lease = TRUE, !.age = 0]
     /\ UNCHANGED <<block, cached, child, cpring, orphan>>

(* The descriptors, unless the child gave up meanwhile; then HOST_READY.    *)
HostGrant ==
  \/ /\ hosting.pc = "acquired"
     /\ IF block.echo = hosting.run /\ block.done
        THEN HostQuits("acquired")
        ELSE PublishHead("acquired", "filling")
  \/ PublishTail("filling", "flagging", hosting.run, hosting.next)
  \/ /\ hosting.pc = "flagging"
     /\ block' = [block EXCEPT !.ready = TRUE]
     /\ hosting' = [hosting EXCEPT
          !.pc = "waiting", !.due = FALSE, !.renew = 0,
          !.last = LET n == SeqSum(hosting.next, hosting.batches - 1) IN IF n = 0 THEN 1 ELSE n]
     /\ UNCHANGED <<cached, child, cpring, granted, orphan>>

(* Radeon3DHeartbeatLease.                                                  *)
HeartbeatLease(g) == IF g.ready /\ g.lease THEN [g EXCEPT !.age = 0] ELSE g

(* A turn of the wait for DONE, which renews the lease every half second.   *)
HostWait ==
  /\ hosting.pc = "waiting" /\ ~block.done
  /\ hosting.due
  /\ LET renews == hosting.renew > 0 IN
     /\ hosting' = [hosting EXCEPT !.due = FALSE, !.renew = IF renews THEN 0 ELSE @]
     /\ granted' = IF renews THEN HeartbeatLease(granted) ELSE granted
  /\ UNCHANGED <<block, cached, child, cpring, orphan>>
HostWaitFails == ~block.done /\ HostQuits("waiting")

(* What the child published must be a whole run.                            *)
ResultsGood ==
  block.stage = "ok" /\ block.submits = hosting.batches /\ block.last = hosting.last /\ block.retired

HostResults ==
  /\ hosting.pc = "waiting" /\ block.done
  /\ HostGoes("waiting", IF ResultsGood THEN "checked" ELSE "closing")
  /\ UNCHANGED <<block, cached, child, cpring, granted, orphan>>

(* Radeon3DReleaseLease, and the comparison of SCRATCH_REG0.                *)
HostRelease ==
  /\ hosting.pc = "checked"
  /\ IF ~granted.lease
     THEN HostQuits("checked")
     ELSE \/ /\ SeqPassed(cpring.scratch, hosting.last)
             /\ granted' = [RadeonCpAdoptFence(granted, hosting.last) EXCEPT !.lease = FALSE]
             /\ hosting' = [hosting EXCEPT !.pc = "closing", !.due = FALSE,
                                           !.ok = cpring.scratch = hosting.last]
             /\ UNCHANGED <<block, cached, child, cpring, orphan>>
          \/ /\ ~SeqPassed(cpring.scratch, hosting.last)
             /\ RecoverRing(granted) /\ HostGoes("checked", "closing")
             /\ UNCHANGED <<block, cached, child, orphan>>

(* The segment is freed and the session closed, which ends a lease it still *)
(* has: the pointers stay.  The program may be run again.                   *)
HostClose ==
  /\ HostGoes("closing", "start")
  /\ granted' = [RadeonCpAdoptFence(granted, 0) EXCEPT !.lease = FALSE]
  /\ orphan' = (granted.lease /\ child.grant = hosting.run /\ (child.submits > 0 \/ cpring.wptr # granted.write))
  /\ UNCHANGED <<block, cached, child, cpring>>
------------------------------------------------------------------------------
(* ppcphase3.                                                               *)
ChildGoes(from, to) == child.pc = from /\ child' = [child EXCEPT !.pc = to]
ChildFails(from, stage) ==
  /\ child.pc = from /\ child' = [child EXCEPT !.pc = "result", !.stage = stage]
  /\ UNCHANGED <<block, cached, hosting, cpring, granted, orphan>>

ChildStart ==
  /\ child.pc = "idle" /\ child.runs < MaxChildren /\ hosting.pc = "arrival"
  /\ child' = [NoChild EXCEPT !.pc = "validate", !.runs = child.runs + 1]
  /\ cached' = [l \in Lines |-> {}]
  /\ UNCHANGED <<block, hosting, cpring, granted, orphan>>

ChildValidate ==
  /\ LET copies == P0FlushRange({"first"}) IN
     /\ cached' = Loaded("first", copies)
     /\ ChildGoes("validate", IF Load("first", copies).magic THEN "clear" ELSE "idle")
  /\ UNCHANGED <<block, hosting, cpring, granted, orphan>>

(* The child's own words, but for PRESENT.                                  *)
ClearRegion(b) ==
  [b EXCEPT !.done = FALSE, !.stage = "ok", !.submits = 0, !.last = 0, !.retired = FALSE]

ChildClear ==
  /\ ChildGoes("clear", "echo") /\ block' = ClearRegion(block)
  /\ UNCHANGED <<cached, hosting, cpring, granted, orphan>>

(* The generation is read, echoed, and the child says it is present.        *)
ChildEcho ==
  \/ /\ child.pc = "echo"
     /\ LET copies == P0FlushRange({"first"})  gen == Load("first", copies).gen IN
        /\ cached' = Loaded("first", copies)
        /\ child' = [child EXCEPT !.pc = "present", !.gen = gen]
        /\ block' = [block EXCEPT !.echo = gen]
     /\ UNCHANGED <<hosting, cpring, granted, orphan>>
  \/ /\ ChildGoes("present", "poll") /\ block' = [block EXCEPT !.present = TRUE]
     /\ UNCHANGED <<cached, hosting, cpring, granted, orphan>>

\* Mutant: the polls are served from the cache.
PollLinesNone == {}

PollLines == {"first"}

(* A poll of HOST_READY, the last of which gives up.                        *)
ChildPoll ==
  /\ child.pc = "poll"
  /\ LET copies == P0FlushRange(PollLines) IN
     /\ cached' = Loaded("first", copies)
     /\ IF Load("first", copies).ready THEN ChildGoes("poll", "range")
        ELSE child' = child \/ child' = [child EXCEPT !.pc = "result", !.stage = "host_wait"]
  /\ UNCHANGED <<block, hosting, cpring, granted, orphan>>

(* The lines are invalidated again and the descriptors read, then WPTR.     *)
ChildDescriptors ==
  /\ child.pc = "range"
  /\ LET fresh == P0FlushRange({"first", "second"})
         ring == Load("first", fresh).ring  rest == Load("second", fresh) IN
     /\ cached' = Loaded("second", Loaded("first", fresh))
     /\ child' = IF ring = 0 \/ ~rest.bar THEN [child EXCEPT !.pc = "result", !.stage = "ring_range"]
                 ELSE [child EXCEPT !.pc = "reserve", !.grant = ring,
                         !.next = IF rest.fence = 0 THEN 1 ELSE rest.fence,
                         !.batches = IF rest.batches = 0 THEN BatchDefault ELSE rest.batches,
                         !.wptr = cpring.wptr]
  /\ UNCHANGED <<block, hosting, cpring, granted, orphan>>

ChildSeq ==
  LET n == SeqSum(child.next, child.batch) IN IF n = 0 THEN 1 ELSE n

\* Mutant: the space is not awaited.
ReservedAlways == TRUE

(* Space: available = (rptr - wptr - 1) & mask.                             *)
Reserved == (cpring.rptr - child.wptr - 1) % RingUnits >= BatchUnits

ChildReserve ==
  \/ Reserved /\ ChildGoes("reserve", "write") /\ UNCHANGED <<block, cached, hosting, cpring, granted, orphan>>
  \/ ~Reserved /\ ChildFails("reserve", "reserve")

FirstRun == IF RingUnits - child.wptr < BatchUnits THEN RingUnits - child.wptr ELSE BatchUnits

(* The stream is written up to the ring's end and from its start, and its   *)
(* last dword read back.                                                    *)
ChildWrite ==
  \/ /\ child.pc = "write" /\ child' = [child EXCEPT !.pc = IF FirstRun < BatchUnits THEN "rest" ELSE "back"]
     /\ cpring' = [cpring EXCEPT !.words = WriteBatch(@, child.wptr, ChildSeq, 1, FirstRun)]
     /\ orphan' = ~granted.lease
     /\ UNCHANGED <<block, cached, hosting, granted>>
  \/ /\ ChildGoes("rest", "back")
     /\ cpring' = [cpring EXCEPT !.words = WriteBatch(@, child.wptr, ChildSeq, FirstRun + 1, BatchUnits)]
     /\ orphan' = ~granted.lease
     /\ UNCHANGED <<block, cached, hosting, granted>>
  \/ ChildFails("back", "readback")

(* CP_RB_WPTR is written and read back: the batch is the processor's.       *)
ChildCommit ==
  /\ child.pc = "back"
  /\ LET to == (child.wptr + BatchUnits) % RingUnits IN
     /\ cpring' = [cpring EXCEPT !.wptr = to]
     /\ orphan' = ~granted.lease
     /\ \/ child' = [child EXCEPT !.wptr = to, !.last = ChildSeq, !.submits = @ + 1, !.batch = @ + 1,
                                  !.pc = IF child.batch + 1 < child.batches THEN "reserve" ELSE "fence"]
        \/ child' = [child EXCEPT !.pc = "result", !.stage = "wptr"]
  /\ UNCHANGED <<block, cached, hosting, granted>>

(* The poll of SCRATCH_REG0 for the last batch.                             *)
ChildRetire ==
  \/ /\ child.pc = "fence" /\ SeqPassed(cpring.scratch, child.last)
     /\ child' = [child EXCEPT !.pc = "result", !.retired = TRUE]
     /\ UNCHANGED <<block, cached, hosting, cpring, granted, orphan>>
  \/ ~SeqPassed(cpring.scratch, child.last) /\ ChildFails("fence", "fence")

(* PpcPublishResults: the results, and DONE when they are in memory.        *)
PpcPublishResults(b) ==
  [b EXCEPT !.submits = child.submits, !.last = child.last, !.retired = child.retired,
            !.stage = child.stage, !.echo = child.gen]
ChildPublish ==
  \/ /\ ChildGoes("result", "done") /\ block' = PpcPublishResults(block)
     /\ UNCHANGED <<cached, hosting, cpring, granted, orphan>>
  \/ /\ ChildGoes("done", "idle") /\ block' = [block EXCEPT !.done = TRUE]
     /\ UNCHANGED <<cached, hosting, cpring, granted, orphan>>
------------------------------------------------------------------------------
DirectNext ==
  /\ ~orphan
  /\ \/ OwnSubmit \/ FetchUnit \/ LeaseReclaim \/ HalfSecond
     \/ HostStart \/ HostPublish \/ HostArrival \/ HostArrivalFails \/ HostAcquire \/ HostGrant
     \/ HostWait \/ HostWaitFails \/ HostResults \/ HostRelease \/ HostClose
     \/ ChildStart \/ ChildValidate \/ ChildClear \/ ChildEcho \/ ChildPoll \/ ChildDescriptors
     \/ ChildReserve \/ ChildWrite \/ ChildCommit \/ ChildRetire \/ ChildPublish

DirectSpec == DirectInit /\ [][DirectNext]_directvars
------------------------------------------------------------------------------
(* Types: fence numbers and pointers are in their ranges.                   *)
DirectTypeOK ==
  /\ {cpring.rptr, cpring.wptr, granted.write, child.wptr} \subseteq 0 .. RingUnits - 1
  /\ {cpring.scratch, child.next, child.last, hosting.last, block.last} \subseteq 0 .. SeqRange - 1
  /\ granted.next \in 1 .. SeqRange - 1 /\ granted.age \in 0 .. ExpiryTicks + 1
  /\ child.submits <= child.batch /\ orphan \in BOOLEAN

(* Nothing the command processor is still to fetch is overwritten: neither  *)
(* by the child's next store, across the end of the ring, nor by the        *)
(* driver's next submission once the lease is over.                         *)
NothingOverwritten ==
  ~orphan /\ child.pc \in {"write", "rest", "back"} /\ granted.lease =>
    RingPlaces(child.wptr, BatchUnits) \cap FetchPending = {}

(* Between CP_RB_RPTR and CP_RB_WPTR there is only what somebody wrote, and *)
(* batches are whole: the driver and the child agree where the ring goes on *)
(* through every grant and release.                                         *)
PendingIsWritten ==
  ~orphan /\ granted.ready =>
    \A p \in FetchPending :
      /\ cpring.words[p] # Unwritten
      /\ LET next == (p + 1) % RingUnits IN
         cpring.words[p][2] < BatchUnits =>
           next \in FetchPending /\ cpring.words[next] = <<cpring.words[p][1], cpring.words[p][2] + 1>>

(* A host that accepts a result got it from a child that used its lease and *)
(* whose batches are all executed, whatever an earlier run left in the      *)
(* block: the fence it adopts is in SCRATCH_REG0.                           *)
AcceptedIsDone ==
  ~orphan /\ hosting.pc = "checked" /\ granted.lease =>
    /\ cpring.scratch = hosting.last /\ cpring.rptr = cpring.wptr
    /\ child.grant = hosting.run /\ child.submits = hosting.batches

(* The heartbeat holds the lease for as long as the host waits: the 2D path *)
(* never takes it from a child whose host is alive.                         *)
HeartbeatHolds == hosting.pc \in {"waiting", "checked"} => granted.lease

RingShared == NothingOverwritten /\ PendingIsWritten
HandshakeSound == AcceptedIsDone /\ HeartbeatHolds

(* The child gives up only when HOST_READY is not there: its polls are not  *)
(* served from its cache for ever.                                          *)
GivesUpUnready ==
  [][child.pc = "poll" /\ child'.pc = "result" => ~block.ready]_directvars
==============================================================================
