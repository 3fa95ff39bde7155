------------------------------ MODULE Service --------------------------------
(***************************************************************************)
(* Sessions, locks and the life of the board in radeon3d_service.c and     *)
(* radeon9200.c.  Client tasks open and close sessions and make calls      *)
(* through LockServiceBoard and UnlockServiceBoard; other tasks attach and *)
(* detach the board or draw through Picasso96 with the board lock held.    *)
(* BoardLock and ServiceLock are Exec semaphores.  A section under         *)
(* ServiceLock that takes no other lock is one step; InitRadeonFeatures    *)
(* holds it over several.                                                  *)
(*                                                                         *)
(* Of what a call does under the board lock the model keeps the stream     *)
(* segment pool and recovery, which invalidates every session.             *)
(***************************************************************************)
EXTENDS Integers, FiniteSets

CONSTANTS
  Task,          \* the tasks of the machine
  Device,        \* the memory a session structure can be allocated in
  Segment,       \* indices of the stream segments
  MaxOpens,      \* bound: sessions opened, before the last opens are begun
  MaxAttach,     \* bound: times a board is attached
  MaxGeneration, \* bound: the last generation in which a recovery starts
  NoTask, NoDevice

ASSUME ServiceAssumption ==
  /\ NoTask \notin Task /\ NoDevice \notin Device
  /\ IsFiniteSet(Task) /\ IsFiniteSet(Device)
  /\ {MaxOpens, MaxAttach, MaxGeneration} \subseteq Nat

VARIABLES
  boardLock,     \* owner of bi->BoardLock
  serviceLock,   \* owner of base->ServiceLock
  board,         \* base->BoardInfo is set
  state,         \* base->ServiceState
  cp,            \* data->CpState: none, or its Ready flag
  recoveryTried, \* data->AccelRecoveryTried
  generation,    \* base->ServiceGeneration
  sessions,      \* base->ServiceSessions
  pins,          \* times rtg.library is held open for sessions
  mask,          \* base->StreamSegmentMask
  device,        \* the session structures
  task,          \* where each task is
  nextHandle,    \* base->ServiceNextHandle, counted from 1
  attaches       \* counter for its bound

lockVars    == <<boardLock, serviceLock>>
boardVars   == <<board, state, cp, recoveryTried, generation>>
sessionVars == <<sessions, pins, mask>>
boundVars   == <<nextHandle, attaches>>
vars == <<lockVars, boardVars, sessionVars, boundVars, device, task>>

(* A session structure.  list: which list links it, none when its memory is *)
(* free.  Its Handle is never used for another session.                     *)
NoSession ==
  [list |-> "none", handle |-> 0, generation |-> 0, calls |-> 0,
   closing |-> FALSE, cleanupDone |-> FALSE, cleanupReady |-> FALSE,
   pin |-> FALSE, segments |-> {}]

(* A task: dev and handle are the session pointer it holds and the handle   *)
(* it was given; cleanup and pin the locals cleanup and ownerPin; then,     *)
(* where it goes on.                                                        *)
Idle ==
  [pc |-> "idle", op |-> "none", handle |-> 0, dev |-> NoDevice,
   cleanup |-> FALSE, pin |-> FALSE, then |-> "idle"]
------------------------------------------------------------------------------
At(t, pc) == task[t].pc = pc
Goto(t, pc) == task' = [task EXCEPT ![t].pc = pc]

(* Exec semaphores nest. *)
ServiceLockFree(t) == serviceLock \in {NoTask, t}
BoardLockFree(t)   == boardLock \in {NoTask, t}

(* FindDevice: the listed session with this handle. *)
Found(handle) ==
  {d \in Device : device[d].list = "service" /\ device[d].handle = handle}

IsUsableDevice(d) ==
  /\ device[d].generation = generation
  /\ state = "READY"
  /\ board /\ cp = "ready"

\* Mutant: every retired session is freed.
ReapAll == {d \in Device : device[d].list = "retired"}

(* ReapRetiredDevicesLocked frees these. *)
Reaped == {d \in Device : device[d].list = "retired" /\ device[d].cleanupReady}

Init ==
  /\ boardLock = NoTask /\ serviceLock = NoTask
  /\ board = FALSE /\ state = "EMPTY" /\ cp = "none" /\ recoveryTried = FALSE
  /\ generation = 1
  /\ sessions = 0 /\ pins = 0 /\ mask = {}
  /\ device = [d \in Device |-> NoSession]
  /\ task = [t \in Task |-> Idle]
  /\ nextHandle = 1 /\ attaches = 0
------------------------------------------------------------------------------
(* Radeon3DOpen: the owner pin is taken before any lock. *)
OpenPin(t) ==
  /\ At(t, "idle") /\ nextHandle <= MaxOpens
  /\ pins' = pins + 1
  /\ Goto(t, "open")
  /\ UNCHANGED <<lockVars, boardVars, sessions, mask, device, boundVars>>

(* AllocMem fails: the pin is given back. *)
OpenNoMemory(t) ==
  /\ At(t, "open")
  /\ pins' = pins - 1
  /\ task' = [task EXCEPT ![t] = Idle]
  /\ UNCHANGED <<lockVars, boardVars, sessions, mask, device, boundVars>>

(* Otherwise, under ServiceLock, retired sessions are reaped and the new    *)
(* one is listed, in memory that was free before; a service that is not     *)
(* ready gives the memory and the pin back.                                 *)
OpenSession(t) ==
  LET serving == state = "READY" /\ board /\ cp = "ready"
      reaped == [d \in Device |-> IF d \in Reaped THEN NoSession ELSE device[d]] IN
  /\ At(t, "open") /\ ServiceLockFree(t)
  /\ task' = [task EXCEPT ![t] = Idle]
  /\ \/ /\ serving
        /\ \E d \in Device :
             /\ device[d].list = "none"
             /\ device' = [reaped EXCEPT ![d] =
                  [NoSession EXCEPT !.list = "service", !.handle = nextHandle,
                                    !.generation = generation, !.pin = TRUE]]
        /\ nextHandle' = nextHandle + 1
        /\ sessions' = sessions + 1
        /\ UNCHANGED pins
     \/ /\ ~serving
        /\ device' = reaped
        /\ pins' = pins - 1
        /\ UNCHANGED <<sessions, nextHandle>>
  /\ UNCHANGED <<lockVars, boardVars, mask, attaches>>

\* Mutant: ServiceLock is kept while BoardLock is waited for.
LockServiceBoardNested(t, op, handle) ==
  /\ At(t, "idle") /\ ServiceLockFree(t)
  /\ \E d \in Found(handle) :
       /\ IsUsableDevice(d)
       /\ device' = [device EXCEPT ![d].calls = @ + 1]
       /\ task' = [task EXCEPT ![t] = [Idle EXCEPT !.pc = "lock", !.op = op,
            !.handle = handle, !.dev = d,
            !.then = IF op = "close" THEN "retire" ELSE "idle"]]
       /\ serviceLock' = t
  /\ UNCHANGED <<boardLock, boardVars, sessionVars, boundVars>>

(* LockServiceBoard, first part: find the session, count the call.  A       *)
(* caller may pass any handle it was ever given, one already closed too.    *)
LockServiceBoard(t, op, handle) ==
  /\ At(t, "idle") /\ ServiceLockFree(t)
  /\ \/ \E d \in Found(handle) :
          /\ IsUsableDevice(d)
          /\ device' = [device EXCEPT ![d].calls = @ + 1]
          /\ task' = [task EXCEPT ![t] = [Idle EXCEPT !.pc = "lock", !.op = op,
               !.handle = handle, !.dev = d,
               !.then = IF op = "close" THEN "retire" ELSE "idle"]]
     \/ /\ op = "close"
        /\ \A d \in Found(handle) : ~IsUsableDevice(d)
        /\ task' = [task EXCEPT ![t] =
             [Idle EXCEPT !.pc = "retire", !.op = op, !.handle = handle]]
        /\ UNCHANGED device
  /\ UNCHANGED <<lockVars, boardVars, sessionVars, boundVars>>

Call(t) ==
  \E op \in {"call", "close"}, handle \in 1 .. nextHandle - 1 : LockServiceBoard(t, op, handle)

ObtainBoardLock(t) ==
  /\ At(t, "lock") /\ BoardLockFree(t)
  /\ boardLock' = t
  /\ Goto(t, "revalidate")
  /\ UNCHANGED <<serviceLock, boardVars, sessionVars, boundVars, device>>

\* Mutant: OwnerBase is not cleared when the last call takes it over.
DropCallKeepsPin(t) ==
  LET d == task[t].dev
      last == device[d].closing /\ device[d].calls = 1 IN
  /\ device' = [device EXCEPT ![d].calls = @ - 1, ![d].cleanupDone = @ \/ last]
  /\ task' = [task EXCEPT ![t].pc = "cleanup",
       ![t].pin = last /\ device[d].pin,
       ![t].cleanup = last /\ ~device[d].cleanupDone]

(* The end of a call, in both places that have it: the call is not counted  *)
(* any more, and the last one of a closing session takes over its cleanup.  *)
DropCall(t) ==
  LET d == task[t].dev
      last == device[d].closing /\ device[d].calls = 1 IN
  /\ device' = [device EXCEPT
       ![d].calls = @ - 1,
       ![d].pin = @ /\ ~last,
       ![d].cleanupDone = @ \/ last]
  /\ task' = [task EXCEPT ![t].pc = "cleanup",
       ![t].pin = last /\ device[d].pin,
       ![t].cleanup = last /\ ~device[d].cleanupDone]

\* Mutant: what was checked before the board lock is not checked again.
NoRevalidate(t) ==
  /\ At(t, "revalidate") /\ ServiceLockFree(t)
  /\ Goto(t, "body") /\ UNCHANGED <<boardLock, device>>
  /\ serviceLock' = NoTask
  /\ UNCHANGED <<boardVars, sessionVars, boundVars>>

\* Mutant: a call refused here is dropped here and by UnlockServiceBoard.
RevalidateDropsTwice(t) ==
  LET d == task[t].dev
      valid == device[d].list = "service" /\ IsUsableDevice(d) IN
  /\ At(t, "revalidate") /\ ServiceLockFree(t)
  /\ serviceLock' = NoTask
  /\ IF valid THEN Goto(t, "body") /\ UNCHANGED device
     ELSE Goto(t, "leave") /\ device' = [device EXCEPT ![d].calls = @ - 1]
  /\ UNCHANGED <<boardLock, boardVars, sessionVars, boundVars>>

(* Second part, with both locks: the session, the service and the board are *)
(* checked again.                                                           *)
Revalidate(t) ==
  LET d == task[t].dev
      valid == device[d].list = "service" /\ IsUsableDevice(d) IN
  /\ At(t, "revalidate") /\ ServiceLockFree(t)
  /\ serviceLock' = NoTask
  /\ IF valid THEN Goto(t, "body") /\ UNCHANGED <<boardLock, device>>
     ELSE DropCall(t) /\ boardLock' = NoTask
  /\ UNCHANGED <<boardVars, sessionVars, boundVars>>

\* Mutant: the bit of the allocated segment is not set.
AllocSegmentUnmarked(t, s) ==
  /\ At(t, "body") /\ task[t].op = "call" /\ s \notin mask
  /\ device' = [device EXCEPT ![task[t].dev].segments = @ \cup {s}]
  /\ Goto(t, "leave")
  /\ UNCHANGED <<lockVars, boardVars, sessionVars, boundVars>>

AllocSegment(t, s) ==
  /\ At(t, "body") /\ task[t].op = "call" /\ s \notin mask
  /\ mask' = mask \cup {s}
  /\ device' = [device EXCEPT ![task[t].dev].segments = @ \cup {s}]
  /\ Goto(t, "leave")
  /\ UNCHANGED <<lockVars, boardVars, sessions, pins, boundVars>>

FreeSegment(t, s) ==
  /\ At(t, "body") /\ task[t].op = "call" /\ s \in device[task[t].dev].segments
  /\ mask' = mask \ {s}
  /\ device' = [device EXCEPT ![task[t].dev].segments = @ \ {s}]
  /\ Goto(t, "leave")
  /\ UNCHANGED <<lockVars, boardVars, sessions, pins, boundVars>>

OtherCall(t) ==
  /\ At(t, "body") /\ Goto(t, "leave")
  /\ UNCHANGED <<lockVars, boardVars, sessionVars, boundVars, device>>

(* RecoverEngine up to RadeonCpAbort: Radeon3DInvalidateService takes the   *)
(* ready service back to ATTACHED and advances the generation.              *)
RecoverAbort(t) ==
  /\ At(t, "body") /\ (ServiceLockFree(t) \/ state # "READY")
  /\ ~recoveryTried /\ cp # "none" /\ generation < MaxGeneration
  /\ recoveryTried' = TRUE
  /\ cp' = "off"
  /\ IF board /\ state = "READY"
     THEN state' = "ATTACHED" /\ generation' = generation + 1
     ELSE UNCHANGED <<state, generation>>
  /\ Goto(t, "rearm")
  /\ UNCHANGED <<lockVars, board, sessionVars, boundVars, device>>

(* RadeonCpRecover and Radeon3DRearmService; either the reset fails and the *)
(* command processor stays off, or the service is ready again.              *)
RecoverRearm(t) ==
  /\ At(t, "rearm") /\ ServiceLockFree(t)
  /\ Goto(t, "leave")
  /\ \/ UNCHANGED <<state, cp, recoveryTried>>
     \/ /\ board /\ state \in {"ATTACHED", "READY"}
        /\ state' = "READY" /\ cp' = "ready" /\ recoveryTried' = FALSE
  /\ UNCHANGED <<lockVars, board, generation, sessionVars, boundVars, device>>

(* UnlockServiceBoard, or the end of a Picasso96 operation: BoardLock first. *)
ReleaseBoardLock(t) ==
  /\ At(t, "leave")
  /\ boardLock' = NoTask
  /\ task' = IF task[t].op = "draw" THEN [task EXCEPT ![t] = Idle]
             ELSE [task EXCEPT ![t].pc = "drop"]
  /\ UNCHANGED <<serviceLock, boardVars, sessionVars, boundVars, device>>

Unlock(t) ==
  /\ At(t, "drop") /\ ServiceLockFree(t)
  /\ DropCall(t)
  /\ UNCHANGED <<lockVars, boardVars, sessionVars, boundVars>>

(* A Picasso96 callback: it owns the board lock (docs/04-performance.md)    *)
(* and may find the engine stuck.  Picasso96 draws once the features are    *)
(* initialised.                                                             *)
Draw(t) ==
  /\ At(t, "idle") /\ BoardLockFree(t) /\ state \in {"ATTACHED", "READY"}
  /\ \A u \in Task : task[u].pc \notin {"attached", "features", "enable"}
  /\ boardLock' = t
  /\ task' = [task EXCEPT ![t] = [Idle EXCEPT !.pc = "body", !.op = "draw"]]
  /\ UNCHANGED <<serviceLock, boardVars, sessionVars, boundVars, device>>

------------------------------------------------------------------------------
\* Mutant: the closing mark is missing.
RetireUnmarked(t) ==
  /\ At(t, "retire") /\ ServiceLockFree(t)
  /\ \E d \in Found(task[t].handle) :
       LET none == device[d].calls = 0 IN
       /\ device' = [device EXCEPT
            ![d].list = "retired",
            ![d].pin = @ /\ ~none, ![d].cleanupDone = none]
       /\ task' = [task EXCEPT ![t].pc = "cleanup", ![t].dev = d,
            ![t].pin = none /\ device[d].pin, ![t].cleanup = none,
            ![t].then = "idle"]
  /\ UNCHANGED <<lockVars, boardVars, sessionVars, boundVars>>

(* The last part of Radeon3DClose: the session leaves the list of usable    *)
(* ones; with no call in progress the closing task cleans it up itself.     *)
Retire(t) ==
  /\ At(t, "retire") /\ ServiceLockFree(t)
  /\ \/ \E d \in Found(task[t].handle) :
          LET none == device[d].calls = 0 IN
          /\ device' = [device EXCEPT
               ![d].list = "retired", ![d].closing = TRUE,
               ![d].pin = @ /\ ~none, ![d].cleanupDone = none]
          /\ task' = [task EXCEPT ![t].pc = "cleanup", ![t].dev = d,
               ![t].pin = none /\ device[d].pin, ![t].cleanup = none,
               ![t].then = "idle"]
     \/ /\ Found(task[t].handle) = {}
        /\ task' = [task EXCEPT ![t] = Idle]
        /\ UNCHANGED device
  /\ UNCHANGED <<lockVars, boardVars, sessionVars, boundVars>>

(* FinishDeviceCleanup without a lock: FreeDeviceSegments clears the bits   *)
(* of the session's segments if there is a board, which may be a later one. *)
(* Each bit is cleared by one instruction; another task's step may come     *)
(* before or after, or between two of them.                                 *)
FreeDeviceSegments(t) ==
  LET d == task[t].dev IN
  /\ At(t, "cleanup") /\ task[t].cleanup
  /\ \/ \E s \in device[d].segments :
          /\ board
          /\ mask' = mask \ {s}
          /\ device' = [device EXCEPT ![d].segments = @ \ {s}]
          /\ UNCHANGED task
     \/ /\ device[d].segments = {} \/ ~board
        /\ Goto(t, "ready")
        /\ UNCHANGED <<mask, device>>
  /\ UNCHANGED <<lockVars, boardVars, sessions, pins, boundVars>>

(* Without cleanup only the pin, if any, is left to close. *)
NoCleanup(t) ==
  /\ At(t, "cleanup") /\ ~task[t].cleanup
  /\ Goto(t, "unpin")
  /\ UNCHANGED <<lockVars, boardVars, sessionVars, boundVars, device>>

(* CleanupReady lets Radeon3DOpen free the structure. *)
CleanupReady(t) ==
  /\ At(t, "ready") /\ ServiceLockFree(t)
  /\ device' = [device EXCEPT ![task[t].dev].cleanupReady = TRUE]
  /\ sessions' = IF sessions > 0 THEN sessions - 1 ELSE 0
  /\ Goto(t, "unpin")
  /\ UNCHANGED <<lockVars, boardVars, pins, mask, boundVars>>

(* CloseOwnerPin, the last use of the session: a pin that is the last one   *)
(* of an rtg.library waiting to be expunged detaches the board first.       *)
Unpinned(t) ==
  task' = [task EXCEPT ![t] =
             IF task[t].then = "retire"
             THEN [Idle EXCEPT !.pc = "retire", !.op = "close",
                               !.handle = task[t].handle]
             ELSE Idle]

CloseOwnerPin(t) ==
  /\ At(t, "unpin")
  /\ \/ /\ ~task[t].pin /\ Unpinned(t)
     \/ /\ task[t].pin /\ Goto(t, "closelib")
     \/ /\ task[t].pin /\ pins = 1 /\ Goto(t, "detach")
  /\ UNCHANGED <<lockVars, boardVars, sessionVars, boundVars, device>>

CloseLibrary(t) ==
  /\ At(t, "closelib")
  /\ pins' = pins - 1
  /\ Unpinned(t)
  /\ UNCHANGED <<lockVars, boardVars, sessions, mask, boundVars, device>>
------------------------------------------------------------------------------
(* RadeonReleaseBoard, from DetachOwner or LibClose, from a failed InitChip *)
(* or from CloseOwnerPin.                                                   *)

Detach(t) ==
  /\ At(t, "idle") /\ board
  /\ task' = [task EXCEPT ![t] = [Idle EXCEPT !.pc = "detach", !.op = "detach"]]
  /\ UNCHANGED <<lockVars, boardVars, sessionVars, boundVars, device>>

DetachLock(t) ==
  /\ At(t, "detach") /\ BoardLockFree(t)
  /\ boardLock' = t
  /\ Goto(t, "detaching")
  /\ UNCHANGED <<serviceLock, boardVars, sessionVars, boundVars, device>>

(* Where a release returns to: a failed InitChip and DetachOwner are done,  *)
(* an owner pin has still to be closed.                                     *)
Released(t) ==
  task' = [task EXCEPT ![t] =
             IF task[t].pin THEN [task[t] EXCEPT !.pc = "closelib"] ELSE Idle]

DetachCheck(t) ==
  LET refused == \/ ~board
                 \/ state = "DETACHING"
                 \/ state = "INITIALIZING" /\ task[t].op # "init" IN
  /\ At(t, "detaching") /\ ServiceLockFree(t)
  /\ \/ /\ refused
        /\ boardLock' = NoTask
        /\ Released(t)
        /\ UNCHANGED <<board, state, generation>>
     \/ /\ ~refused
        /\ state' = "DETACHING" /\ board' = FALSE
        /\ generation' = generation + 1
        /\ Goto(t, "finish")
        /\ UNCHANGED boardLock
  /\ UNCHANGED <<serviceLock, cp, recoveryTried, sessionVars, boundVars, device>>

(* RadeonFinishBoardRelease: the pools and the command processor go, and    *)
(* with ServiceLock the service is EMPTY; BoardLock is released after it.   *)
FinishBoardRelease(t) ==
  /\ At(t, "finish") /\ ServiceLockFree(t)
  /\ mask' = {}
  /\ cp' = "none"
  /\ state' = "EMPTY"
  /\ Goto(t, "released")
  /\ UNCHANGED <<lockVars, board, recoveryTried, generation, sessions, pins,
                 boundVars, device>>

ReleaseDone(t) ==
  /\ At(t, "released")
  /\ boardLock' = NoTask
  /\ Released(t)
  /\ UNCHANGED <<serviceLock, boardVars, sessionVars, boundVars, device>>

(* InitChip: claim the empty service, bring the hardware up without a lock, *)
(* then attach, or release the board again.                                 *)
InitChip(t) ==
  /\ At(t, "idle") /\ ServiceLockFree(t)
  /\ state = "EMPTY" /\ ~board /\ attaches < MaxAttach
  /\ attaches' = attaches + 1
  /\ state' = "INITIALIZING" /\ board' = TRUE
  /\ task' = [task EXCEPT ![t] = [Idle EXCEPT !.pc = "init", !.op = "init"]]
  /\ UNCHANGED <<lockVars, cp, recoveryTried, generation, sessionVars, nextHandle, device>>

Attach(t) ==
  /\ At(t, "init") /\ ServiceLockFree(t)
  /\ \/ /\ board /\ state = "INITIALIZING"
        /\ state' = "ATTACHED"
        /\ Goto(t, "attached")
     \/ /\ Goto(t, "detach")   \* no hardware or no startup screen
        /\ UNCHANGED state
  /\ UNCHANGED <<lockVars, board, cp, recoveryTried, generation, sessionVars,
                 boundVars, device>>

(* InitRadeonFeatures takes ServiceLock and keeps it while the engine, the  *)
(* command processor and the pools are set up.                              *)
InitRadeonFeatures(t) ==
  /\ At(t, "attached") /\ ServiceLockFree(t)
  /\ IF board /\ state = "ATTACHED"
     THEN serviceLock' = t /\ Goto(t, "features")
     ELSE task' = [task EXCEPT ![t] = Idle] /\ UNCHANGED serviceLock
  /\ UNCHANGED <<boardLock, boardVars, sessionVars, boundVars, device>>

InitAcceleration(t) ==
  /\ At(t, "features")
  /\ mask' = {} /\ recoveryTried' = FALSE
  /\ \/ cp' = "none"
     \/ cp' = "ready"
  /\ Goto(t, "enable")
  /\ UNCHANGED <<lockVars, board, state, generation, sessions, pins, boundVars, device>>

EnableService(t) ==
  /\ At(t, "enable")
  /\ IF cp = "ready"
     THEN generation' = generation + 1 /\ state' = "READY"
     ELSE UNCHANGED <<generation, state>>
  /\ serviceLock' = NoTask
  /\ task' = [task EXCEPT ![t] = Idle]
  /\ UNCHANGED <<boardLock, board, cp, recoveryTried, sessionVars, boundVars, device>>
------------------------------------------------------------------------------
(* Steps of an operation already begun. *)
Continue(t) ==
  \/ OpenNoMemory(t)
  \/ OpenSession(t)
  \/ ObtainBoardLock(t)
  \/ Revalidate(t)
  \/ \E s \in Segment : AllocSegment(t, s) \/ FreeSegment(t, s)
  \/ OtherCall(t)
  \/ RecoverAbort(t)
  \/ RecoverRearm(t)
  \/ ReleaseBoardLock(t)
  \/ Unlock(t)
  \/ Retire(t)
  \/ FreeDeviceSegments(t)
  \/ NoCleanup(t)
  \/ CleanupReady(t)
  \/ CloseOwnerPin(t)
  \/ CloseLibrary(t)
  \/ DetachLock(t)
  \/ DetachCheck(t)
  \/ FinishBoardRelease(t)
  \/ ReleaseDone(t)
  \/ Attach(t)
  \/ InitRadeonFeatures(t)
  \/ InitAcceleration(t)
  \/ EnableService(t)

Begin(t) ==
  \/ OpenPin(t)
  \/ Call(t)
  \/ Draw(t)
  \/ Detach(t)
  \/ InitChip(t)

Next == \E t \in Task : Begin(t) \/ Continue(t)

Spec == Init /\ [][Next]_vars

(* Exec gives a semaphore to its waiters in the order they asked, and every *)
(* task that can run gets the processor.                                    *)
FairSpec == Spec /\ \A t \in Task : SF_vars(Continue(t))
------------------------------------------------------------------------------
TypeOK ==
  /\ boardLock \in Task \cup {NoTask} /\ serviceLock \in Task \cup {NoTask}
  /\ board \in BOOLEAN /\ recoveryTried \in BOOLEAN
  /\ state \in {"EMPTY", "INITIALIZING", "ATTACHED", "READY", "DETACHING"}
  /\ cp \in {"none", "off", "ready"}
  /\ generation \in 1 .. MaxGeneration + 2 * MaxAttach + 1
  /\ sessions \in Nat /\ pins \in Nat /\ mask \subseteq Segment
  /\ \A d \in Device :
       /\ device[d].list \in {"none", "service", "retired"}
       /\ device[d].calls \in Nat /\ device[d].segments \subseteq Segment

(* The task still has a use for its session pointer. *)
Uses(t) ==
  \/ task[t].op \in {"call", "close"} /\ task[t].dev # NoDevice
     /\ task[t].pc \in {"lock", "revalidate", "body", "rearm", "leave", "drop"}
  \/ task[t].cleanup /\ task[t].pc \in {"cleanup", "ready"}

(* "A stale handle cannot dereference freed memory": a task that holds a    *)
(* session pointer finds its own session there, however many others close,  *)
(* reap and reopen meanwhile.                                               *)
NoUseAfterFree ==
  \A t \in Task : Uses(t) =>
    /\ device[task[t].dev].list # "none"
    /\ device[task[t].dev].handle = task[t].handle

(* Every open of rtg.library made for a session is matched by exactly one   *)
(* close, whichever task ends up closing the session.                       *)
PinsBalance ==
  pins = Cardinality({d \in Device : device[d].pin})
       + Cardinality({t \in Task : task[t].pin \/ At(t, "open")})

(* ServiceSessions counts the sessions whose cleanup is not finished: a     *)
(* count that reached zero early would let LibClose release the board, and  *)
(* LibExpunge free the library, under a session.                            *)
SessionsCounted ==
  sessions = Cardinality({d \in Device :
               device[d].list # "none" /\ ~device[d].cleanupReady})

(* Both counts together, through a call, a close and a failed open in any   *)
(* order: whoever is last drops the pin and the count, once.                *)
CountsBalance == PinsBalance /\ SessionsCounted

(* A call that passed LockServiceBoard has the board: nobody detaches it,   *)
(* invalidates the session or turns the command processor off before the    *)
(* call itself does so.                                                     *)
BodyHasBoard ==
  \A t \in Task : At(t, "body") /\ task[t].op # "draw" =>
    /\ boardLock = t
    /\ IsUsableDevice(task[t].dev)

(* A closed session is cleaned up by someone: unless a call on it is still  *)
(* in progress or its cleanup is under way, it can be reaped, its pin is    *)
(* gone and its segments are not its own any more.                          *)
ClosedIsCleaned ==
  \A d \in Device :
    device[d].list = "retired" /\ (\A t \in Task : ~(task[t].dev = d /\ Uses(t)))
      => device[d].cleanupReady /\ ~device[d].pin

(* No stream segment is leased to two usable sessions at a time. *)
SegmentsExclusive ==
  \A c, d \in Device :
    /\ c # d
    /\ {device[c].list, device[d].list} = {"service"}
    /\ IsUsableDevice(c) /\ IsUsableDevice(d)
    => device[c].segments \cap device[d].segments = {}

(* No two tasks wait for each other's lock: what was begun is finished, and *)
(* every task is between two operations again and again.                    *)
OperationsEnd == \A t \in Task : []<>At(t, "idle")
==============================================================================
