--------------------------------- MODULE Pools ---------------------------------
(***************************************************************************)
(* Render surfaces of the sessions of radeon3d_service.c: the table of the *)
(* auxiliary pool, which callers change under ServiceLock and the cleanup  *)
(* of a closed session changes under no lock, and the submissions that     *)
(* draw to a surface while its session gives it back.                      *)
(*                                                                         *)
(* A session is driven by one task.  Every call holds BoardLock, which the *)
(* sections of several steps here do not need: they are the ones that      *)
(* another session's cleanup can come between.                             *)
(***************************************************************************)
EXTENDS Integers, Sequences, FiniteSets, SequencesExt

CONSTANTS
  PoolSession,                  \* the sessions that may be open
  AUX_POOL_ALIGNMENT,
  AUX_SURFACE_PITCH_ALIGNMENT,
  AuxSurfaceBytes,              \* size of the pool, RADEON3D_AUX_POOL_BYTES
  MAX_AUX_SURFACES,             \* entries of AuxSurfaceBlocks
  RowBytes, Heights,            \* what clients ask for
  MaxFence,                     \* bound on the fences of the board
  MaxInFlight                   \* bound on the ring, in submissions

ASSUME PoolsAssumption ==
  /\ {AUX_POOL_ALIGNMENT, AUX_SURFACE_PITCH_ALIGNMENT} \subseteq Nat \ {0}
  /\ AuxSurfaceBytes \in Nat /\ AuxSurfaceBytes % AUX_POOL_ALIGNMENT = 0
  /\ AUX_POOL_ALIGNMENT <= AuxSurfaceBytes
  /\ {MAX_AUX_SURFACES, MaxFence, MaxInFlight} \subseteq Nat
  /\ RowBytes \subseteq Nat /\ Heights \subseteq Nat

VARIABLES
  blocks,   \* AuxSurfaceBlocks; an entry of no bytes is free
  client,   \* the sessions, with where their task is
  inFlight, \* submissions that the engine has not finished, oldest first
  fences,   \* fences given out
  overtaken \* history: two tasks were freeing entries at once

poolvars == <<blocks, client, inFlight, fences, overtaken>>
------------------------------------------------------------------------------
Entry == 1 .. MAX_AUX_SURFACES
AlignUp(n, alignment) == ((n + alignment - 1) \div alignment) * alignment
Intersects(a, b) == a.at < b.at + b.bytes /\ b.at < a.at + a.bytes

NoBlock == [at |-> 0, bytes |-> 0]

(* What the task of a session works on: the block it looks for or frees,    *)
(* the entry it is at, and, while looking, whether this pass moved the      *)
(* candidate and whether no entry was freed since the first (history).      *)
NoWork == [at |-> 0, bytes |-> 0, entry |-> 1, moved |-> FALSE, quiet |-> TRUE, extent |-> 0]

ClosedSession ==
  [pc |-> "closed", lastFence |-> 0, current |-> FALSE, closing |-> FALSE,
   surfaces |-> <<>>, work |-> NoWork]

PoolsInit ==
  /\ blocks = [i \in Entry |-> NoBlock]
  /\ client = [s \in PoolSession |-> ClosedSession]
  /\ inFlight = <<>> /\ fences = 0 /\ overtaken = FALSE

(* A session may begin a call when no other one is inside its locks.        *)
Calls(s) ==
  /\ client[s].pc = "open"
  /\ \A t \in PoolSession :
       client[t].closing \/ client[t].pc \notin {"scan", "take", "find", "clear"}

SurfaceOpen(s) ==
  /\ client[s].pc = "closed"
  /\ client' = [client EXCEPT ![s] = [ClosedSession EXCEPT !.pc = "open", !.current = TRUE]]
  /\ UNCHANGED <<blocks, inFlight, fences, overtaken>>
------------------------------------------------------------------------------
(* Radeon3DAllocSurface: the pitch is padded, the size is rounded to whole  *)
(* pages, and a size the pool could never hold is refused at once.          *)
AllocSurface(s) ==
  /\ Calls(s) /\ client[s].current
  /\ \E row \in RowBytes, height \in Heights :
       LET bytes == AlignUp(row, AUX_SURFACE_PITCH_ALIGNMENT) * height
       IN /\ bytes # 0 /\ bytes <= AuxSurfaceBytes - (AUX_POOL_ALIGNMENT - 1)
          /\ client' = [client EXCEPT ![s].pc = "scan",
               ![s].work = [NoWork EXCEPT !.bytes = AlignUp(bytes, AUX_POOL_ALIGNMENT),
                                          !.extent = bytes]]
  /\ UNCHANGED <<blocks, inFlight, fences, overtaken>>

(* The candidate is pushed past a block that it overlaps.                   *)
Past(work, block) ==
  IF block.bytes # 0 /\ Intersects(work, block)
  THEN [work EXCEPT !.at = block.at + block.bytes, !.moved = TRUE]
  ELSE work

\* Mutant: one pass over the table is enough.
PassDoneOnce(work) == TRUE

PassDone(work) == ~work.moved

\* Mutant: only the candidate's first byte has to be inside the pool.
FitsFirst(work) == work.at <= AuxSurfaceBytes

Fits(work) == work.at <= AuxSurfaceBytes /\ work.bytes <= AuxSurfaceBytes - work.at

(* One entry of a pass of AuxPoolAlloc; a pass begins by asking whether     *)
(* the candidate still is inside the pool.                                  *)
ScanBlock(s) ==
  LET work == client[s].work IN
  /\ client[s].pc = "scan"
  /\ \/ /\ work.entry = 1 /\ ~Fits(work)
        /\ client' = [client EXCEPT ![s].pc = "open", ![s].work = NoWork]
     \/ /\ work.entry \in Entry
        /\ work.entry = 1 => Fits(work)
        /\ LET seen == Past([work EXCEPT !.moved = (work.entry # 1 /\ @)], blocks[work.entry])
           IN client' = [client EXCEPT ![s].work = [seen EXCEPT !.entry = @ + 1]]
     \/ /\ work.entry \notin Entry
        /\ client' = IF PassDone(work) THEN [client EXCEPT ![s].pc = "take"]
                     ELSE [client EXCEPT ![s].work.entry = 1]
  /\ UNCHANGED <<blocks, inFlight, fences, overtaken>>

(* The first free entry takes the block; with none the call fails.          *)
TakeEntry(s) ==
  LET work == client[s].work
      surface == [at |-> work.at, bytes |-> work.bytes, extent |-> work.extent]
      free == {i \in Entry : blocks[i].bytes = 0} IN
  /\ client[s].pc = "take"
  /\ \/ /\ free = {}
        /\ client' = [client EXCEPT ![s].pc = "open", ![s].work = NoWork]
        /\ UNCHANGED blocks
     \/ \E i \in free :
        /\ \A j \in free : i <= j
        /\ blocks' = [blocks EXCEPT ![i] = [at |-> work.at, bytes |-> work.bytes]]
        /\ client' = [client EXCEPT ![s].pc = "open", ![s].work = NoWork,
                                    ![s].surfaces = Append(@, surface)]
  /\ UNCHANGED <<inFlight, fences, overtaken>>
------------------------------------------------------------------------------
(* Submissions.  A session draws to its own surfaces, with a fence or, by   *)
(* Radeon3DDispatchIndirect with NO_FENCE, without.                         *)
Work(s, fence, surface) == [by |-> s, fence |-> fence, target |-> surface]

\* Mutant: the session keeps the fence of its first submission.
WorkFencedFirst(c, fence) == IF c.lastFence = 0 THEN [c EXCEPT !.lastFence = fence] ELSE c

WorkFenced(c, fence) == [c EXCEPT !.lastFence = fence]

SubmitFenced(s) ==
  /\ Calls(s) /\ client[s].current
  /\ fences < MaxFence /\ Len(inFlight) < MaxInFlight
  /\ \E surface \in ToSet(client[s].surfaces) :
       inFlight' = Append(inFlight, Work(s, fences + 1, surface))
  /\ fences' = fences + 1
  /\ client' = [client EXCEPT ![s] = WorkFenced(@, fences + 1)]
  /\ UNCHANGED <<blocks, overtaken>>

DispatchUnfenced(s) ==
  /\ Calls(s) /\ client[s].current /\ Len(inFlight) < MaxInFlight
  /\ \E surface \in ToSet(client[s].surfaces) :
       inFlight' = Append(inFlight, Work(s, 0, surface))
  /\ UNCHANGED <<blocks, client, fences, overtaken>>

(* The engine finishes work in order.                                       *)
FinishWork ==
  /\ inFlight # <<>> /\ inFlight' = Tail(inFlight)
  /\ UNCHANGED <<blocks, client, fences, overtaken>>

(* RadeonCpWaitFence: all up to the fence is done.                          *)
WaitedFor(fence) ==
  LET fenced == {i \in DOMAIN inFlight : inFlight[i].fence = fence}
  IN IF fence = 0 \/ fenced = {} THEN inFlight
     ELSE SubSeq(inFlight, 1 + CHOOSE i \in fenced : TRUE, Len(inFlight))

\* Mutant: the wait is left out.
(* The session waits for its last fence, unless it may not use the board    *)
(* any more, and forgets it.  A wait that fails recovers: the engine is     *)
(* reset, and every session loses the board.                                *)
WaitedLast(s) ==
  LET last == client[s].lastFence
      pending == last # 0 /\ \E i \in DOMAIN inFlight : inFlight[i].fence = last
      forgotten == [client EXCEPT ![s].lastFence = 0] IN
  IF ~client[s].current THEN {[client |-> client, inFlight |-> inFlight]}
  ELSE {[client |-> forgotten, inFlight |-> WaitedFor(last)]} \cup
       (IF pending
        THEN {[client |-> [t \in PoolSession |-> [forgotten[t] EXCEPT !.current = FALSE]],
               inFlight |-> <<>>]}
        ELSE {})

(* The block of a surface to free.                                          *)
Freeing(surface) == [NoWork EXCEPT !.at = surface.at, !.bytes = surface.bytes]

(* Radeon3DReleaseSurface: the wait, then under ServiceLock the surface     *)
(* leaves its session and its block is freed.                               *)
ReleaseSurface(s) ==
  /\ Calls(s)
  /\ \E waited \in WaitedLast(s), i \in DOMAIN client[s].surfaces :
       /\ inFlight' = waited.inFlight
       /\ client' = [waited.client EXCEPT ![s].pc = "find",
                       ![s].work = Freeing(client[s].surfaces[i]),
                       ![s].surfaces = RemoveAt(@, i)]
  /\ UNCHANGED <<blocks, fences, overtaken>>

(* Radeon3DClose: the wait, and the session is taken off the list.          *)
SurfaceClose(s) ==
  /\ Calls(s)
  /\ \E waited \in WaitedLast(s) :
       /\ inFlight' = waited.inFlight
       /\ client' = [waited.client EXCEPT ![s].pc = "cleanup", ![s].closing = TRUE]
  /\ UNCHANGED <<blocks, fences, overtaken>>

(* FreeDeviceSurfaces, with no lock: the surfaces in the order they were    *)
(* made, until there is none.                                               *)
CleanupSurface(s) ==
  /\ client[s].pc = "cleanup"
  /\ client' = IF client[s].surfaces = <<>> THEN [client EXCEPT ![s] = ClosedSession]
               ELSE [client EXCEPT ![s].pc = "find", ![s].work = Freeing(Head(client[s].surfaces)),
                                   ![s].surfaces = Tail(@)]
  /\ UNCHANGED <<blocks, inFlight, fences, overtaken>>

IsEntry(block, work) == block.at = work.at /\ block.bytes = work.bytes

PoolAfter(s) == IF client[s].closing THEN "cleanup" ELSE "open"

(* What is freed now, a task that looks for a place may have passed.        *)
Disturbed(c) ==
  [t \in PoolSession |-> IF c[t].pc = "scan" THEN [c[t] EXCEPT !.work.quiet = FALSE] ELSE c[t]]

(* AuxPoolFree: the first entry that says offset and size; its offset is    *)
(* cleared first.                                                           *)
FindEntry(s) ==
  LET found == {i \in Entry : IsEntry(blocks[i], client[s].work)} IN
  /\ client[s].pc = "find"
  /\ \/ /\ found = {}
        /\ client' = [client EXCEPT ![s].pc = PoolAfter(s), ![s].work = NoWork]
        /\ UNCHANGED <<blocks, overtaken>>
     \/ \E i \in found :
        /\ \A j \in found : i <= j
        /\ blocks' = [blocks EXCEPT ![i].at = 0]
        /\ client' = Disturbed([client EXCEPT ![s].pc = "clear", ![s].work.entry = i])
        /\ overtaken' = (overtaken \/ \E t \in PoolSession : client[t].pc = "clear")
  /\ UNCHANGED <<inFlight, fences>>

(* Then its size, which makes it free.                                      *)
ClearEntry(s) ==
  /\ client[s].pc = "clear"
  /\ blocks' = [blocks EXCEPT ![client[s].work.entry].bytes = 0]
  /\ client' = Disturbed([client EXCEPT ![s].pc = PoolAfter(s), ![s].work = NoWork])
  /\ UNCHANGED <<inFlight, fences, overtaken>>

PoolsNext ==
  \/ FinishWork
  \/ \E s \in PoolSession :
       \/ SurfaceOpen(s) \/ AllocSurface(s) \/ ScanBlock(s) \/ TakeEntry(s)
       \/ SubmitFenced(s) \/ DispatchUnfenced(s)
       \/ ReleaseSurface(s) \/ SurfaceClose(s) \/ CleanupSurface(s)
       \/ FindEntry(s) \/ ClearEntry(s)

PoolsSpec == PoolsInit /\ [][PoolsNext]_poolvars
------------------------------------------------------------------------------
(* Properties.                                                              *)

(* Every entry, session and submission has its type, a session that looks   *)
(* for a place has no entry past the table, and surfaces have an entry each *)
(* as long as no two tasks free entries at the same time.                   *)
PoolsTypeOK ==
  /\ blocks \in [Entry -> [at : 0 .. AuxSurfaceBytes - 1, bytes : 0 .. AuxSurfaceBytes]]
  /\ \A s \in PoolSession :
       /\ client[s].pc \in {"closed", "open", "scan", "take", "cleanup", "find", "clear"}
       /\ client[s].lastFence \in 0 .. MaxFence
       /\ client[s].work.entry \in 1 .. MAX_AUX_SURFACES + 1
       /\ ~overtaken => Len(client[s].surfaces) <= MAX_AUX_SURFACES
  /\ Len(inFlight) <= MaxInFlight /\ fences \in 0 .. MaxFence /\ overtaken \in BOOLEAN

Surfaces == {p \in PoolSession \X Entry : p[2] \in DOMAIN client[p[1]].surfaces}
SurfaceAt(p) == client[p[1]].surfaces[p[2]]
Same(a, b) == a.at = b.at /\ a.bytes = b.bytes

(* No two surfaces share memory and each is inside the pool with all its    *)
(* rows, whatever was allocated, released or cleaned up under no lock in    *)
(* between, as long as no two tasks free entries at the same time.          *)
SurfacesDisjoint ==
  ~overtaken =>
    /\ \A p, q \in Surfaces : p # q => ~Intersects(SurfaceAt(p), SurfaceAt(q))
    /\ \A p \in Surfaces : /\ SurfaceAt(p).at + SurfaceAt(p).bytes <= AuxSurfaceBytes
                            /\ SurfaceAt(p).extent <= SurfaceAt(p).bytes

(* "Callers hold ServiceLock", says the comment above AuxPoolAlloc: then no *)
(* two tasks change the table at once, and surfaces are disjoint always.    *)
SurfacesAlwaysDisjoint ==
  \A p, q \in Surfaces : p # q => ~Intersects(SurfaceAt(p), SurfaceAt(q))

(* An entry is used by exactly one surface, or by the task that is freeing  *)
(* it: no memory of the pool is lost.                                       *)
PoolNotLeaked ==
  ~overtaken => \A i \in Entry : blocks[i].bytes # 0 =>
    \/ \E p \in Surfaces : Same(blocks[i], SurfaceAt(p))
    \/ \E s \in PoolSession :
         \/ client[s].pc = "find" /\ Same(blocks[i], client[s].work)
         \/ client[s].pc = "clear" /\ client[s].work.entry = i

(* A first fit passes over no place that is free, when nothing is freed     *)
(* while it looks: a call that fails had no room.                           *)
FirstFit ==
  \A s \in PoolSession :
    LET work == client[s].work IN
    client[s].pc = "scan" /\ work.quiet =>
      \A at \in {n \in 0 .. work.at - 1 : n % AUX_POOL_ALIGNMENT = 0} :
        \E i \in Entry : blocks[i].bytes # 0 /\
          Intersects([at |-> at, bytes |-> work.bytes], blocks[i])

(* Fenced work that is not finished draws to a surface that its session     *)
(* still has: memory is not given to others while it is drawn to.           *)
FencedWorkKeepsTarget ==
  \A i \in DOMAIN inFlight : inFlight[i].fence # 0 =>
    inFlight[i].target \in ToSet(client[inFlight[i].by].surfaces)

==============================================================================
