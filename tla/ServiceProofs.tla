------------------------------ MODULE ServiceProofs ---------------------------
(***************************************************************************)
(* Theorems about Service for every set of tasks and of session memory,    *)
(* and every bound on opens, attachments and recoveries.                   *)
(*                                                                         *)
(* The inductive invariant says what the code's authors rely on: a lock is *)
(* owned by exactly the task whose program counter is in a section it      *)
(* guards; a session's ActiveCalls counts the tasks inside a call on it;   *)
(* one task, and no more, cleans up a closed session; a pin is a task's or *)
(* a session's.  Each action has a lemma, XKeeps, with one step per part.  *)
(***************************************************************************)
EXTENDS Service, TLAPS, FiniteSetTheorems

---------------------------------------------------------------------------
(* The program counters of a call, from the count to its end; of the two    *)
(* locked sections; and of bringing a board up.                             *)
InCall == {"lock", "revalidate", "body", "rearm", "leave", "drop"}
UnderBoardLock ==
  {"revalidate", "body", "rearm", "leave", "detaching", "finish", "released"}
UnderServiceLock == {"features", "enable"}
BringingUp == {"init", "attached", "features", "enable"}
Pc == InCall \cup UnderBoardLock \cup BringingUp
      \cup {"idle", "open", "retire", "cleanup", "ready", "unpin", "closelib", "detach"}

(* The sessions and tasks as records; TypeOK checks less of them.           *)
SessionRecord ==
  [list : {"none", "service", "retired"}, handle : Nat, generation : Nat, calls : Int,
   closing : BOOLEAN, cleanupDone : BOOLEAN, cleanupReady : BOOLEAN, pin : BOOLEAN,
   segments : SUBSET Segment]
TaskRecord ==
  [pc : Pc, op : {"none", "call", "close", "draw", "detach", "init"}, handle : Nat,
   dev : Device \cup {NoDevice}, cleanup : BOOLEAN, pin : BOOLEAN, then : {"idle", "retire"}]

(* t is inside a call on d, and its pointer is counted in ActiveCalls; t is *)
(* the task chosen to clean up d.                                           *)
Calling(t, d) == task[t].dev = d /\ task[t].pc \in InCall
Cleaning(t, d) == task[t].dev = d /\ task[t].cleanup /\ task[t].pc \in {"cleanup", "ready"}
Callers(d) == {t \in Task : Calling(t, d)}
Typed ==
  /\ boardLock \in Task \cup {NoTask} /\ serviceLock \in Task \cup {NoTask}
  /\ board \in BOOLEAN /\ recoveryTried \in BOOLEAN
  /\ state \in {"EMPTY", "INITIALIZING", "ATTACHED", "READY", "DETACHING"}
  /\ cp \in {"none", "off", "ready"}
  /\ generation \in Nat /\ sessions \in Int /\ pins \in Int /\ mask \subseteq Segment
  /\ nextHandle \in Nat \ {0} /\ attaches \in Nat
  /\ device \in [Device -> SessionRecord]
  /\ task \in [Task -> TaskRecord]

(* A lock is owned by the task in a section under it, and by no other.      *)
LocksOwned == \A t \in Task :
  /\ boardLock = t <=> task[t].pc \in UnderBoardLock
  /\ serviceLock = t <=> task[t].pc \in UnderServiceLock

(* The board is there in the states in which it is attached; ServiceLock is *)
(* held across InitRadeonFeatures, BoardLock across the release of a board. *)
BoardState ==
  /\ board <=> state \in {"INITIALIZING", "ATTACHED", "READY"}
  /\ \A t \in Task :
       /\ task[t].pc \in UnderServiceLock => state = "ATTACHED"
       /\ task[t].pc = "finish" => state = "DETACHING"

(* What a task holds where: a session pointer during calls and cleanups, a  *)
(* pin only from the end of a call or close on.                             *)
Shaped(r) ==
  /\ r.pc = "idle" => r = Idle
  /\ r.pc \in {"lock", "revalidate", "drop"} => r.op \in {"call", "close"}
  /\ r.pc \in {"body", "rearm", "leave"} => r.op \in {"call", "close", "draw"}
  /\ r.op = "draw" => r.pc \in {"body", "rearm", "leave"} /\ r.dev = NoDevice
  /\ r.op \in {"call", "close"} /\ r.pc \in InCall => r.dev \in Device
  /\ r.pc \in {"cleanup", "ready"} => r.dev \in Device
  /\ r.pin => r.pc \in
       {"cleanup", "ready", "unpin", "closelib", "detach", "detaching", "finish", "released"}
  /\ r.pc = "closelib" => r.pin
  /\ r.pc = "ready" => r.cleanup
TaskShape == \A t \in Task : Shaped(task[t])

(* What a session structure says on each list: free memory says nothing, a  *)
(* listed session is pinned and open, and a retired one loses its pin when  *)
(* its last call ended and may be reaped only after its cleanup.            *)
DeviceShape == \A d \in Device :
  /\ device[d].list = "none" => device[d] = NoSession
  /\ device[d].list # "none" => device[d].handle \in 1 .. nextHandle - 1
  /\ device[d].list = "service" =>
       device[d].pin /\ ~device[d].closing /\ ~device[d].cleanupDone
  /\ device[d].list = "retired" =>
       /\ device[d].closing
       /\ device[d].cleanupDone <=> device[d].calls = 0
       /\ device[d].pin <=> ~device[d].cleanupDone
  /\ device[d].cleanupReady => device[d].cleanupDone

(* No handle is used for two sessions.                                      *)
HandlesDiffer == \A c, d \in Device :
  c # d /\ device[c].list # "none" /\ device[d].list # "none"
    => device[c].handle # device[d].handle

(* ActiveCalls is the number of tasks inside a call on the session.         *)
CallsCounted == \A d \in Device : device[d].calls = Cardinality(Callers(d))

(* A task inside a call or a cleanup finds its own session in the memory it *)
(* points to.                                                               *)
SessionsHeld == \A t \in Task, d \in Device :
  /\ Calling(t, d) => device[d].list # "none" /\ device[d].handle = task[t].handle
  /\ Cleaning(t, d) =>
       /\ device[d].list = "retired" /\ device[d].handle = task[t].handle
       /\ device[d].cleanupDone /\ ~device[d].cleanupReady

(* A session to clean up is cleaned by exactly one task.                    *)
CleanedOnce ==
  /\ \A t, u \in Task, d \in Device : Cleaning(t, d) /\ Cleaning(u, d) => t = u
  /\ \A d \in Device : device[d].cleanupDone /\ ~device[d].cleanupReady =>
       \E t \in Task : Cleaning(t, d)

(* Each attachment pays for two generations, one as the service is enabled  *)
(* and one as the board goes; those not yet spent are owed.                 *)
Starting == {t \in Task : task[t].pc \in BringingUp}
GenerationBounded ==
  LET owed == Cardinality(Starting) + (IF board THEN 1 ELSE 0) IN
  /\ generation >= 1
  /\ generation + owed <= MaxGeneration + 2 * attaches + 1
  /\ owed <= 2 * attaches /\ attaches <= MaxAttach

(* The task holds a pin of rtg.library.                                     *)
Pinning(t) == task[t].pin \/ task[t].pc = "open"

(* The task moves on to p, or ends its operation; the others stay.          *)
GoesTo(t, p) ==
  /\ task' \in [Task -> TaskRecord]
  /\ \A u \in Task \ {t} : task'[u] = task[u]
  /\ task'[t].pc = p
  /\ task'[t].op = task[t].op /\ task'[t].handle = task[t].handle /\ task'[t].dev = task[t].dev
  /\ task'[t].cleanup <=> task[t].cleanup
  /\ task'[t].pin <=> task[t].pin
GoesIdle(t) ==
  /\ task' \in [Task -> TaskRecord]
  /\ \A u \in Task \ {t} : task'[u] = task[u]
  /\ task'[t] = Idle /\ task'[t].pc = "idle" /\ task'[t].op = "none" /\ task'[t].dev = NoDevice
  /\ ~task'[t].cleanup /\ ~task'[t].pin

(* Who calls, cleans or pins stays as it is; so do the sessions but for     *)
(* their segments, and the pins they hold.                                  *)
SameHolders ==
  \A u \in Task, d \in Device :
    /\ Calling(u, d)' <=> Calling(u, d)
    /\ Cleaning(u, d)' <=> Cleaning(u, d)
    /\ Calling(u, d) \/ Cleaning(u, d) => task'[u].handle = task[u].handle
SamePinners == \A u \in Task : Pinning(u)' <=> Pinning(u)
SameSession(d) ==
    /\ device'[d].list = device[d].list /\ device'[d].handle = device[d].handle
    /\ device'[d].generation = device[d].generation /\ device'[d].calls = device[d].calls
    /\ device'[d].closing <=> device[d].closing
    /\ device'[d].cleanupDone <=> device[d].cleanupDone
    /\ device'[d].cleanupReady <=> device[d].cleanupReady
    /\ device'[d].pin <=> device[d].pin
    /\ device[d].list = "none" => device'[d] = device[d]
SamePins == \A d \in Device : device'[d].pin <=> device[d].pin
SameSessions == nextHandle' = nextHandle /\ \A d \in Device : SameSession(d)

(* The sessions ServiceSessions counts.                                     *)
Listed == {d \in Device : device[d].list # "none" /\ ~device[d].cleanupReady}
SessionPart ==
  /\ DeviceShape /\ HandlesDiffer /\ CallsCounted /\ SessionsHeld /\ CleanedOnce /\ SessionsCounted

(* The inductive invariant.                                                 *)
IInv ==
  /\ Typed /\ LocksOwned /\ BoardState /\ TaskShape /\ SessionPart
  /\ PinsBalance /\ BodyHasBoard /\ GenerationBounded

---------------------------------------------------------------------------
(* What the ways to change one task leave of the others.                    *)
LEMMA GotoShape ==
  ASSUME Typed, NEW t \in Task, NEW p \in Pc, Goto(t, p)
  PROVE  GoesTo(t, p)
<1>1. task[t] \in TaskRecord
  BY DEF Typed
<1> DEFINE r == [task[t] EXCEPT !.pc = p]
<1>2. /\ r \in TaskRecord
      /\ r.pc = p /\ r.op = task[t].op /\ r.handle = task[t].handle /\ r.dev = task[t].dev
      /\ r.cleanup <=> task[t].cleanup
      /\ r.pin <=> task[t].pin
  BY <1>1 DEF TaskRecord
<1>3. task' = [task EXCEPT ![t] = r]
  BY DEF Goto
<1> HIDE DEF r
<1>4. task'[t] = r /\ task' \in [Task -> TaskRecord] /\ \A u \in Task \ {t} : task'[u] = task[u]
  BY <1>2, <1>3 DEF Typed
<1>5. QED
  BY <1>2, <1>4 DEF GoesTo

LEMMA IdleShape ==
  ASSUME Typed, NEW t \in Task, task' = [task EXCEPT ![t] = Idle]
  PROVE  GoesIdle(t)
<1>1. Idle \in TaskRecord
  BY DEF Idle, TaskRecord, Pc
<1>2. QED
  BY <1>1 DEF Typed, GoesIdle, Idle

---------------------------------------------------------------------------
(* Parts of the invariant that a step leaves alone when it leaves alone what *)
(* they speak of.                                                           *)
LEMMA SessionsUndisturbed ==
  ASSUME Typed, SessionPart, SameHolders, SameSessions, sessions' = sessions
  PROVE  SessionPart'
<1>1. DeviceShape'
  BY DEF SessionPart, DeviceShape, SameSessions, SameSession
<1>2. HandlesDiffer'
  BY DEF SessionPart, HandlesDiffer, SameSessions, SameSession
<1>3. CallsCounted'
  <2>1. ASSUME NEW d \in Device PROVE Callers(d)' = Callers(d)
    BY DEF SameHolders, Callers
  <2>2. QED
    BY <2>1 DEF SessionPart, CallsCounted, SameSessions, SameSession
<1>4. SessionsHeld'
  BY DEF SessionPart, SessionsHeld, SameSessions, SameSession, SameHolders
<1>5. CleanedOnce'
  BY DEF SessionPart, CleanedOnce, SameSessions, SameSession, SameHolders
<1>6. SessionsCounted'
  <2>1. Listed' = Listed
    BY DEF SameSessions, SameSession, Listed
  <2>2. QED
    BY <2>1 DEF SessionPart, SessionsCounted, Listed
<1>7. QED
  BY <1>1, <1>2, <1>3, <1>4, <1>5, <1>6 DEF SessionPart

LEMMA ShapeKept ==
  ASSUME TaskShape, NEW t \in Task, \A u \in Task \ {t} : task'[u] = task[u],
         Shaped(task[t]) => Shaped(task'[t])
  PROVE  TaskShape'
BY DEF TaskShape

LEMMA PinsUndisturbed ==
  ASSUME PinsBalance, SamePinners, pins' = pins, SamePins
  PROVE  PinsBalance'
<1>2. {d \in Device : device[d].pin}' = {d \in Device : device[d].pin}
  BY DEF SamePins
<1>1. {t \in Task : task[t].pin \/ At(t, "open")}' = {t \in Task : task[t].pin \/ At(t, "open")}
  BY DEF SamePinners, Pinning, At
<1>3. QED
  BY <1>1, <1>2 DEF PinsBalance

LEMMA GenerationUndisturbed ==
  ASSUME Typed, GenerationBounded, Starting' \subseteq Starting,
         generation' = generation, board' = board, attaches' = attaches
  PROVE  GenerationBounded'
<1>1. IsFiniteSet(Starting)
  BY ServiceAssumption, FS_Subset DEF Starting
<1>2. /\ Cardinality(Starting) \in Nat /\ Cardinality(Starting') \in Nat
      /\ Cardinality(Starting') <= Cardinality(Starting)
  BY <1>1, FS_Subset, FS_CardinalityType
<1>3. QED
  BY <1>2, ServiceAssumption DEF GenerationBounded, Typed

---------------------------------------------------------------------------
(* The locks exclude.                                                       *)
LEMMA ServiceLockUnowned ==
  ASSUME LocksOwned, NEW t \in Task, ServiceLockFree(t), task[t].pc \notin UnderServiceLock
  PROVE  serviceLock = NoTask /\ \A u \in Task : task[u].pc \notin UnderServiceLock
BY ServiceAssumption DEF LocksOwned, ServiceLockFree

LEMMA BoardLockUnowned ==
  ASSUME LocksOwned, NEW t \in Task, BoardLockFree(t), task[t].pc \notin UnderBoardLock
  PROVE  boardLock = NoTask /\ \A u \in Task : task[u].pc \notin UnderBoardLock
BY ServiceAssumption DEF LocksOwned, BoardLockFree

LEMMA BoardLockMine ==
  ASSUME LocksOwned, NEW t \in Task, task[t].pc \in UnderBoardLock
  PROVE  boardLock = t /\ \A u \in Task : u # t => task[u].pc \notin UnderBoardLock
BY DEF LocksOwned

LEMMA ServiceLockMine ==
  ASSUME LocksOwned, NEW t \in Task, task[t].pc \in UnderServiceLock
  PROVE  serviceLock = t /\ \A u \in Task : u # t => task[u].pc \notin UnderServiceLock
BY DEF LocksOwned

---------------------------------------------------------------------------
(* Steps that move one task and touch locks and board, not the sessions.    *)
LEMMA ObtainBoardLockKeeps ==
  ASSUME IInv, NEW t \in Task, ObtainBoardLock(t)
  PROVE  IInv'
<1> USE DEF lockVars, boardVars, sessionVars, boundVars, At
<1>1. GoesTo(t, "revalidate")
  BY GotoShape DEF ObtainBoardLock, Pc, InCall, UnderBoardLock, BringingUp, IInv
<1>2. Typed'
  BY <1>1 DEF IInv, Typed, ObtainBoardLock, GoesTo
<1>3. LocksOwned'
  BY BoardLockUnowned, <1>1, ServiceAssumption DEF IInv, ObtainBoardLock, UnderBoardLock, LocksOwned,
     UnderServiceLock, GoesTo
<1>4. BoardState'
  BY <1>1 DEF IInv, BoardState, LocksOwned, ServiceLockFree, UnderServiceLock, ObtainBoardLock,
       GoesTo
<1>5. TaskShape'
  BY <1>1, ShapeKept DEF Shaped, InCall, ObtainBoardLock, GoesTo, IInv
<1>6. SessionPart'
  BY <1>1, ServiceAssumption, SessionsUndisturbed DEF IInv, TaskShape, Shaped, SameHolders, Calling, Cleaning,
     InCall, ObtainBoardLock, GoesTo, SameSessions, SameSession
<1>7. PinsBalance'
  BY <1>1, PinsUndisturbed DEF IInv, TaskShape, Shaped, SamePinners, Pinning, ObtainBoardLock, GoesTo, SamePins
<1>8. BodyHasBoard'
  BY BoardLockUnowned, <1>1 DEF IInv, ObtainBoardLock, UnderBoardLock, BodyHasBoard, GoesTo
<1>9. GenerationBounded'
  BY <1>1, GenerationUndisturbed DEF Starting, BringingUp, ObtainBoardLock, GoesTo, IInv
<1>10. QED
  BY <1>2, <1>3, <1>4, <1>5, <1>6, <1>7, <1>8, <1>9 DEF IInv

LEMMA OtherCallKeeps ==
  ASSUME IInv, NEW t \in Task, OtherCall(t)
  PROVE  IInv'
<1> USE DEF lockVars, boardVars, sessionVars, boundVars, At
<1>1. GoesTo(t, "leave")
  BY GotoShape DEF OtherCall, Pc, InCall, UnderBoardLock, BringingUp, IInv
<1>2. Typed'
  BY <1>1 DEF IInv, Typed, OtherCall, GoesTo
<1>3. LocksOwned'
  BY <1>1 DEF IInv, LocksOwned, BoardLockFree, ServiceLockFree, UnderBoardLock,
       UnderServiceLock, OtherCall, GoesTo
<1>4. BoardState'
  BY <1>1 DEF IInv, BoardState, LocksOwned, ServiceLockFree, UnderServiceLock, OtherCall, GoesTo
<1>5. TaskShape'
  BY <1>1, ShapeKept DEF Shaped, InCall, OtherCall, GoesTo, IInv
<1>6. SessionPart'
  BY <1>1, ServiceAssumption, SessionsUndisturbed DEF IInv, TaskShape, Shaped, SameHolders, Calling, Cleaning,
     InCall, OtherCall, GoesTo, SameSessions, SameSession
<1>7. PinsBalance'
  <2>1. SamePinners
    BY <1>1 DEF IInv, TaskShape, Shaped, SamePinners, Pinning, OtherCall, GoesTo
  <2>2. QED
    BY <2>1, PinsUndisturbed DEF IInv, SamePins, OtherCall
<1>8. BodyHasBoard'
  BY <1>1 DEF IInv, BodyHasBoard, IsUsableDevice, LocksOwned, UnderBoardLock, ServiceLockFree,
       OtherCall, GoesTo
<1>9. GenerationBounded'
  BY <1>1, GenerationUndisturbed DEF Starting, BringingUp, OtherCall, GoesTo, IInv
<1>10. QED
  BY <1>2, <1>3, <1>4, <1>5, <1>6, <1>7, <1>8, <1>9 DEF IInv

LEMMA RecoverAbortKeeps ==
  ASSUME IInv, NEW t \in Task, RecoverAbort(t)
  PROVE  IInv'
<1> USE DEF lockVars, boardVars, sessionVars, boundVars, At
<1>1. GoesTo(t, "rearm")
  BY GotoShape DEF RecoverAbort, Pc, InCall, UnderBoardLock, BringingUp, IInv
<1>2. Typed'
  BY <1>1 DEF IInv, Typed, RecoverAbort, GoesTo
<1>3. LocksOwned'
  BY <1>1 DEF IInv, LocksOwned, BoardLockFree, ServiceLockFree, UnderBoardLock,
       UnderServiceLock, RecoverAbort, GoesTo
<1>4. BoardState'
  BY <1>1 DEF IInv, BoardState, LocksOwned, ServiceLockFree, UnderServiceLock, RecoverAbort,
       GoesTo
<1>5. TaskShape'
  BY <1>1, ShapeKept DEF Shaped, InCall, RecoverAbort, GoesTo, IInv
<1>6. SessionPart'
  BY <1>1, ServiceAssumption, SessionsUndisturbed DEF IInv, TaskShape, Shaped, SameHolders, Calling, Cleaning,
     InCall, RecoverAbort, GoesTo, SameSessions, SameSession
<1>7. PinsBalance'
  <2>1. SamePinners
    BY <1>1 DEF IInv, TaskShape, Shaped, SamePinners, Pinning, RecoverAbort, GoesTo
  <2>2. QED
    BY <2>1, PinsUndisturbed DEF IInv, SamePins, RecoverAbort
<1>8. BodyHasBoard'
  BY BoardLockMine, <1>1 DEF IInv, RecoverAbort, UnderBoardLock, BodyHasBoard, GoesTo
<1>9. GenerationBounded'
  <2>1. Starting' = Starting /\ attaches' = attaches /\ board' = board
    BY <1>1 DEF Starting, BringingUp, RecoverAbort, GoesTo
  <2>2. Cardinality(Starting) \in Nat
    BY ServiceAssumption, FS_Subset, FS_CardinalityType DEF Starting
  <2>3. generation' = generation \/ (generation' = generation + 1 /\ generation < MaxGeneration)
    BY DEF RecoverAbort
  <2>4. QED
    BY <2>1, <2>2, <2>3, ServiceAssumption DEF IInv, GenerationBounded, Typed
<1>10. QED
  BY <1>2, <1>3, <1>4, <1>5, <1>6, <1>7, <1>8, <1>9 DEF IInv

LEMMA RecoverRearmKeeps ==
  ASSUME IInv, NEW t \in Task, RecoverRearm(t)
  PROVE  IInv'
<1> USE DEF lockVars, boardVars, sessionVars, boundVars, At
<1>1. GoesTo(t, "leave")
  BY GotoShape DEF RecoverRearm, Pc, InCall, UnderBoardLock, BringingUp, IInv
<1>2. Typed'
  BY <1>1 DEF IInv, Typed, RecoverRearm, GoesTo
<1>3. LocksOwned'
  BY <1>1 DEF IInv, LocksOwned, BoardLockFree, ServiceLockFree, UnderBoardLock,
       UnderServiceLock, RecoverRearm, GoesTo
<1>4. BoardState'
  BY ServiceLockUnowned, BoardLockMine, <1>1 DEF IInv, RecoverRearm, UnderServiceLock, UnderBoardLock, BoardState,
     GoesTo
<1>5. TaskShape'
  BY <1>1, ShapeKept DEF Shaped, InCall, RecoverRearm, GoesTo, IInv
<1>6. SessionPart'
  BY <1>1, ServiceAssumption, SessionsUndisturbed DEF IInv, TaskShape, Shaped, SameHolders, Calling, Cleaning,
     InCall, RecoverRearm, GoesTo, SameSessions, SameSession
<1>7. PinsBalance'
  <2>1. SamePinners
    BY <1>1 DEF IInv, TaskShape, Shaped, SamePinners, Pinning, RecoverRearm, GoesTo
  <2>2. QED
    BY <2>1, PinsUndisturbed DEF IInv, SamePins, RecoverRearm
<1>8. BodyHasBoard'
  BY BoardLockMine, <1>1 DEF IInv, RecoverRearm, UnderBoardLock, BodyHasBoard, GoesTo
<1>9. GenerationBounded'
  BY <1>1, GenerationUndisturbed DEF Starting, BringingUp, RecoverRearm, GoesTo, IInv
<1>10. QED
  BY <1>2, <1>3, <1>4, <1>5, <1>6, <1>7, <1>8, <1>9 DEF IInv

LEMMA NoCleanupKeeps ==
  ASSUME IInv, NEW t \in Task, NoCleanup(t)
  PROVE  IInv'
<1> USE DEF lockVars, boardVars, sessionVars, boundVars, At
<1>1. GoesTo(t, "unpin")
  BY GotoShape DEF NoCleanup, Pc, InCall, UnderBoardLock, BringingUp, IInv
<1>2. Typed'
  BY <1>1 DEF IInv, Typed, NoCleanup, GoesTo
<1>3. LocksOwned'
  BY <1>1 DEF IInv, LocksOwned, BoardLockFree, ServiceLockFree, UnderBoardLock,
       UnderServiceLock, NoCleanup, GoesTo
<1>4. BoardState'
  BY <1>1 DEF IInv, BoardState, LocksOwned, ServiceLockFree, UnderServiceLock, NoCleanup, GoesTo
<1>5. TaskShape'
  BY <1>1, ShapeKept DEF Shaped, InCall, NoCleanup, GoesTo, IInv
<1>6. SessionPart'
  BY <1>1, ServiceAssumption, SessionsUndisturbed DEF IInv, TaskShape, Shaped, SameHolders, Calling, Cleaning,
     InCall, NoCleanup, GoesTo, SameSessions, SameSession
<1>7. PinsBalance'
  <2>1. SamePinners
    BY <1>1 DEF IInv, TaskShape, Shaped, SamePinners, Pinning, NoCleanup, GoesTo
  <2>2. QED
    BY <2>1, PinsUndisturbed DEF IInv, SamePins, NoCleanup
<1>8. BodyHasBoard'
  BY <1>1 DEF IInv, BodyHasBoard, IsUsableDevice, LocksOwned, UnderBoardLock, ServiceLockFree,
       NoCleanup, GoesTo
<1>9. GenerationBounded'
  BY <1>1, GenerationUndisturbed DEF Starting, BringingUp, NoCleanup, GoesTo, IInv
<1>10. QED
  BY <1>2, <1>3, <1>4, <1>5, <1>6, <1>7, <1>8, <1>9 DEF IInv

LEMMA DetachLockKeeps ==
  ASSUME IInv, NEW t \in Task, DetachLock(t)
  PROVE  IInv'
<1> USE DEF lockVars, boardVars, sessionVars, boundVars, At
<1>1. GoesTo(t, "detaching")
  BY GotoShape DEF DetachLock, Pc, InCall, UnderBoardLock, BringingUp, IInv
<1>2. Typed'
  BY <1>1 DEF IInv, Typed, DetachLock, GoesTo
<1>3. LocksOwned'
  BY BoardLockUnowned, <1>1, ServiceAssumption DEF IInv, DetachLock, UnderBoardLock, LocksOwned, UnderServiceLock,
     GoesTo
<1>4. BoardState'
  BY <1>1 DEF IInv, BoardState, LocksOwned, ServiceLockFree, UnderServiceLock, DetachLock,
       GoesTo
<1>5. TaskShape'
  BY <1>1, ShapeKept DEF Shaped, InCall, DetachLock, GoesTo, IInv
<1>6. SessionPart'
  BY <1>1, ServiceAssumption, SessionsUndisturbed DEF IInv, TaskShape, Shaped, SameHolders, Calling, Cleaning,
     InCall, DetachLock, GoesTo, SameSessions, SameSession
<1>7. PinsBalance'
  <2>1. SamePinners
    BY <1>1 DEF IInv, TaskShape, Shaped, SamePinners, Pinning, DetachLock, GoesTo
  <2>2. QED
    BY <2>1, PinsUndisturbed DEF IInv, SamePins, DetachLock
<1>8. BodyHasBoard'
  BY BoardLockUnowned, <1>1 DEF IInv, DetachLock, UnderBoardLock, BodyHasBoard, GoesTo
<1>9. GenerationBounded'
  BY <1>1, GenerationUndisturbed DEF Starting, BringingUp, DetachLock, GoesTo, IInv
<1>10. QED
  BY <1>2, <1>3, <1>4, <1>5, <1>6, <1>7, <1>8, <1>9 DEF IInv

LEMMA FinishBoardReleaseKeeps ==
  ASSUME IInv, NEW t \in Task, FinishBoardRelease(t)
  PROVE  IInv'
<1> USE DEF lockVars, boardVars, sessionVars, boundVars, At
<1>1. GoesTo(t, "released")
  BY GotoShape DEF FinishBoardRelease, Pc, InCall, UnderBoardLock, BringingUp, IInv
<1>2. Typed'
  BY <1>1 DEF IInv, Typed, FinishBoardRelease, GoesTo
<1>3. LocksOwned'
  BY <1>1 DEF IInv, LocksOwned, BoardLockFree, ServiceLockFree, UnderBoardLock,
       UnderServiceLock, FinishBoardRelease, GoesTo
<1>4. BoardState'
  BY ServiceLockUnowned, BoardLockMine, <1>1 DEF IInv, FinishBoardRelease, UnderServiceLock, UnderBoardLock,
     BoardState, GoesTo
<1>5. TaskShape'
  BY <1>1, ShapeKept DEF Shaped, InCall, FinishBoardRelease, GoesTo, IInv
<1>6. SessionPart'
  BY <1>1, ServiceAssumption, SessionsUndisturbed DEF IInv, TaskShape, Shaped, SameHolders, Calling, Cleaning,
     InCall, FinishBoardRelease, GoesTo, SameSessions, SameSession
<1>7. PinsBalance'
  BY <1>1, PinsUndisturbed DEF IInv, TaskShape, Shaped, SamePinners, Pinning, FinishBoardRelease, GoesTo, SamePins
<1>8. BodyHasBoard'
  BY BoardLockMine, <1>1 DEF IInv, FinishBoardRelease, UnderBoardLock, BodyHasBoard, GoesTo
<1>9. GenerationBounded'
  BY <1>1, GenerationUndisturbed DEF Starting, BringingUp, FinishBoardRelease, GoesTo, IInv
<1>10. QED
  BY <1>2, <1>3, <1>4, <1>5, <1>6, <1>7, <1>8, <1>9 DEF IInv

LEMMA InitAccelerationKeeps ==
  ASSUME IInv, NEW t \in Task, InitAcceleration(t)
  PROVE  IInv'
<1> USE DEF lockVars, boardVars, sessionVars, boundVars, At
<1>1. GoesTo(t, "enable")
  BY GotoShape DEF InitAcceleration, Pc, InCall, UnderBoardLock, BringingUp, IInv
<1>2. Typed'
  BY <1>1 DEF IInv, Typed, InitAcceleration, GoesTo
<1>3. LocksOwned'
  BY <1>1 DEF IInv, LocksOwned, BoardLockFree, ServiceLockFree, UnderBoardLock,
       UnderServiceLock, InitAcceleration, GoesTo
<1>4. BoardState'
  BY <1>1 DEF IInv, BoardState, LocksOwned, ServiceLockFree, UnderServiceLock,
       InitAcceleration, GoesTo
<1>5. TaskShape'
  BY <1>1, ShapeKept DEF Shaped, InCall, InitAcceleration, GoesTo, IInv
<1>6. SessionPart'
  BY <1>1, ServiceAssumption, SessionsUndisturbed DEF IInv, TaskShape, Shaped, SameHolders, Calling, Cleaning,
     InCall, InitAcceleration, GoesTo, SameSessions, SameSession
<1>7. PinsBalance'
  BY <1>1, PinsUndisturbed DEF IInv, TaskShape, Shaped, SamePinners, Pinning, InitAcceleration, GoesTo, SamePins
<1>8. BodyHasBoard'
  BY <1>1 DEF IInv, BoardState, UnderServiceLock, InitAcceleration, BodyHasBoard, IsUsableDevice, GoesTo
<1>9. GenerationBounded'
  BY <1>1, GenerationUndisturbed DEF Starting, BringingUp, InitAcceleration, GoesTo, IInv
<1>10. QED
  BY <1>2, <1>3, <1>4, <1>5, <1>6, <1>7, <1>8, <1>9 DEF IInv

LEMMA EnableServiceKeeps ==
  ASSUME IInv, NEW t \in Task, EnableService(t)
  PROVE  IInv'
<1> USE DEF lockVars, boardVars, sessionVars, boundVars, At
<1>1. GoesIdle(t)
  BY IdleShape DEF IInv, EnableService
<1>2. Typed'
  BY <1>1 DEF IInv, Typed, EnableService, GoesIdle
<1>3. LocksOwned'
  BY ServiceLockMine, <1>1, ServiceAssumption DEF IInv, EnableService, UnderServiceLock, LocksOwned, UnderBoardLock,
     GoesIdle
<1>4. BoardState'
  BY ServiceLockMine, <1>1 DEF IInv, EnableService, UnderServiceLock, BoardState, GoesIdle
<1>5. TaskShape'
  BY <1>1, ShapeKept DEF Shaped, InCall, EnableService, GoesIdle, IInv
<1>6. SessionPart'
  BY <1>1, ServiceAssumption, SessionsUndisturbed DEF IInv, TaskShape, Shaped, SameHolders, Calling, Cleaning,
     InCall, EnableService, GoesIdle, SameSessions, SameSession
<1>7. PinsBalance'
  BY <1>1, PinsUndisturbed DEF IInv, TaskShape, Shaped, SamePinners, Pinning, EnableService, GoesIdle, SamePins
<1>8. BodyHasBoard'
  BY <1>1 DEF IInv, BoardState, UnderServiceLock, EnableService, BodyHasBoard, IsUsableDevice, GoesIdle
<1>9. GenerationBounded'
  <2>1. Starting' = Starting \ {t} /\ t \in Starting
    BY <1>1 DEF Starting, BringingUp, EnableService, GoesIdle
  <2>2. IsFiniteSet(Starting)
    BY ServiceAssumption, FS_Subset DEF Starting
  <2>3. Cardinality(Starting) \in Nat /\ Cardinality(Starting') = Cardinality(Starting) - 1
    BY <2>1, <2>2, FS_RemoveElement, FS_CardinalityType
  <2>4. generation' \in {generation, generation + 1} /\ board' = board /\ attaches' = attaches
    BY DEF EnableService
  <2>5. QED
    BY <2>3, <2>4, ServiceAssumption DEF IInv, GenerationBounded, Typed
<1>10. QED
  BY <1>2, <1>3, <1>4, <1>5, <1>6, <1>7, <1>8, <1>9 DEF IInv

---------------------------------------------------------------------------
(* Steps that end or begin an operation.                                    *)
(* The task begins the operation o at p, or goes on to it as from idle.     *)
GoesAnew(t, p, o) ==
  /\ task' \in [Task -> TaskRecord]
  /\ \A u \in Task \ {t} : task'[u] = task[u]
  /\ task'[t].pc = p /\ task'[t].op = o /\ task'[t].dev = NoDevice
  /\ ~task'[t].cleanup /\ ~task'[t].pin

LEMMA AnewShape ==
  ASSUME Typed, NEW t \in Task, NEW p \in Pc, NEW o, NEW h \in Nat,
         o \in {"none", "call", "close", "draw", "detach", "init"},
         \/ task' = [task EXCEPT ![t] = [Idle EXCEPT !.pc = p, !.op = o]]
         \/ task' = [task EXCEPT ![t] = [Idle EXCEPT !.pc = p, !.op = o, !.handle = h]]
  PROVE  GoesAnew(t, p, o)
<1> DEFINE q == [Idle EXCEPT !.pc = p, !.op = o]
           r == [Idle EXCEPT !.pc = p, !.op = o, !.handle = h]
<1>1. /\ q \in TaskRecord
      /\ q.pc = p /\ q.op = o /\ q.dev = NoDevice /\ ~q.cleanup /\ ~q.pin
  BY DEF Idle, TaskRecord
<1>2. /\ r \in TaskRecord
      /\ r.pc = p /\ r.op = o /\ r.dev = NoDevice /\ ~r.cleanup /\ ~r.pin
  BY DEF Idle, TaskRecord
<1>3. PICK s \in {q, r} : task' = [task EXCEPT ![t] = s]
  OBVIOUS
<1> HIDE DEF q, r
<1>4. QED
  BY <1>1, <1>2, <1>3 DEF Typed, GoesAnew

LEMMA UnpinnedShape ==
  ASSUME Typed, NEW t \in Task, Unpinned(t)
  PROVE  GoesIdle(t) \/ GoesAnew(t, "retire", "close")
<1>1. task[t].handle \in Nat /\ "retire" \in Pc
  BY DEF Typed, TaskRecord, Pc
<1>2. CASE task[t].then = "retire"
  BY <1>1, <1>2, AnewShape DEF Unpinned
<1>3. CASE task[t].then # "retire"
  BY <1>3, IdleShape DEF Unpinned
<1>4. QED
  BY <1>2, <1>3

LEMMA ReleasedShape ==
  ASSUME Typed, NEW t \in Task, Released(t)
  PROVE  IF task[t].pin THEN GoesTo(t, "closelib") ELSE GoesIdle(t)
<1>1. CASE task[t].pin
  BY <1>1, GotoShape DEF Typed, TaskRecord, Pc, Released, Goto
<1>2. CASE ~task[t].pin
  BY <1>2, IdleShape DEF Released
<1>3. QED
  BY <1>1, <1>2

LEMMA ReleaseBoardLockKeeps ==
  ASSUME IInv, NEW t \in Task, ReleaseBoardLock(t)
  PROVE  IInv'
<1> USE DEF lockVars, boardVars, sessionVars, boundVars, At
<1>1. IF task[t].op = "draw" THEN GoesIdle(t) ELSE GoesTo(t, "drop")
  <2>1. CASE task[t].op = "draw"
    BY <2>1, IdleShape DEF IInv, ReleaseBoardLock
  <2>2. CASE task[t].op # "draw"
    BY <2>2, GotoShape DEF IInv, ReleaseBoardLock, Goto, Pc, InCall
  <2>3. QED
    BY <2>1, <2>2
<1>2. Typed'
  BY <1>1 DEF IInv, Typed, ReleaseBoardLock, GoesTo, GoesIdle
<1>3. LocksOwned'
  BY BoardLockMine, <1>1, ServiceAssumption DEF IInv, ReleaseBoardLock, UnderBoardLock, LocksOwned, UnderServiceLock,
     GoesTo, GoesIdle
<1>4. BoardState'
  BY <1>1 DEF IInv, BoardState, LocksOwned, ServiceLockFree, UnderServiceLock,
       ReleaseBoardLock, GoesTo, GoesIdle
<1>5. TaskShape'
  BY <1>1, ShapeKept DEF Shaped, InCall, ReleaseBoardLock, GoesTo, GoesIdle, IInv
<1>6. SessionPart'
  <2>1. SameHolders
    BY <1>1, ServiceAssumption DEF IInv, TaskShape, Shaped, SameHolders, Calling, Cleaning,
         InCall, ReleaseBoardLock, GoesTo, GoesIdle
  <2>2. SameSessions /\ sessions' = sessions
    BY DEF ReleaseBoardLock, SameSessions, SameSession
  <2>3. QED
    BY <2>1, <2>2, SessionsUndisturbed DEF IInv
<1>7. PinsBalance'
  BY <1>1, PinsUndisturbed DEF IInv, TaskShape, Shaped, SamePinners, Pinning, ReleaseBoardLock, GoesTo, GoesIdle,
     SamePins
<1>8. BodyHasBoard'
  BY <1>1 DEF IInv, BodyHasBoard, IsUsableDevice, LocksOwned, UnderBoardLock, ServiceLockFree,
       ReleaseBoardLock, GoesTo, GoesIdle
<1>9. GenerationBounded'
  BY <1>1, GenerationUndisturbed DEF Starting, BringingUp, ReleaseBoardLock, GoesTo, GoesIdle, IInv
<1>10. QED
  BY <1>2, <1>3, <1>4, <1>5, <1>6, <1>7, <1>8, <1>9 DEF IInv

LEMMA CloseOwnerPinKeeps ==
  ASSUME IInv, NEW t \in Task, CloseOwnerPin(t)
  PROVE  IInv'
<1> USE DEF lockVars, boardVars, sessionVars, boundVars, At
<1>1. \/ ~task[t].pin /\ (GoesIdle(t) \/ GoesAnew(t, "retire", "close"))
      \/ task[t].pin /\ (GoesTo(t, "closelib") \/ GoesTo(t, "detach"))
  <2>1. CASE ~task[t].pin /\ Unpinned(t)
    BY <2>1, UnpinnedShape DEF IInv
  <2>2. ASSUME NEW p \in {"closelib", "detach"}, Goto(t, p), task[t].pin
        PROVE  GoesTo(t, p)
    BY <2>2, GotoShape DEF IInv, Pc
  <2>3. QED
    BY <2>1, <2>2 DEF CloseOwnerPin
<1>2. Typed'
  BY <1>1 DEF IInv, Typed, CloseOwnerPin, GoesTo, GoesIdle, GoesAnew
<1>3. LocksOwned'
  BY <1>1 DEF IInv, LocksOwned, BoardLockFree, ServiceLockFree, UnderBoardLock,
       UnderServiceLock, CloseOwnerPin, GoesTo, GoesIdle, GoesAnew
<1>4. BoardState'
  BY <1>1 DEF IInv, BoardState, LocksOwned, ServiceLockFree, UnderServiceLock, CloseOwnerPin,
       GoesTo, GoesIdle, GoesAnew
<1>5. TaskShape'
  BY <1>1, ShapeKept DEF Shaped, InCall, CloseOwnerPin, GoesTo, GoesIdle, GoesAnew, IInv
<1>6. SessionPart'
  <2>1. SameHolders
    BY <1>1, ServiceAssumption DEF IInv, TaskShape, Shaped, SameHolders, Calling, Cleaning,
         InCall, CloseOwnerPin, GoesTo, GoesIdle, GoesAnew
  <2>2. SameSessions /\ sessions' = sessions
    BY DEF CloseOwnerPin, SameSessions, SameSession
  <2>3. QED
    BY <2>1, <2>2, SessionsUndisturbed DEF IInv
<1>7. PinsBalance'
  BY <1>1, PinsUndisturbed DEF IInv, TaskShape, Shaped, SamePinners, Pinning, CloseOwnerPin, GoesTo, GoesIdle,
     GoesAnew, SamePins
<1>8. BodyHasBoard'
  BY <1>1 DEF IInv, BodyHasBoard, IsUsableDevice, LocksOwned, UnderBoardLock, ServiceLockFree,
       CloseOwnerPin, GoesTo, GoesIdle, GoesAnew
<1>9. GenerationBounded'
  BY <1>1, GenerationUndisturbed DEF Starting, BringingUp, CloseOwnerPin, GoesTo, GoesIdle, GoesAnew, IInv
<1>10. QED
  BY <1>2, <1>3, <1>4, <1>5, <1>6, <1>7, <1>8, <1>9 DEF IInv

LEMMA ReleaseDoneKeeps ==
  ASSUME IInv, NEW t \in Task, ReleaseDone(t)
  PROVE  IInv'
<1> USE DEF lockVars, boardVars, sessionVars, boundVars, At
<1>1. IF task[t].pin THEN GoesTo(t, "closelib") ELSE GoesIdle(t)
  BY ReleasedShape DEF IInv, ReleaseDone
<1>2. Typed'
  BY <1>1 DEF IInv, Typed, ReleaseDone, GoesTo, GoesIdle
<1>3. LocksOwned'
  BY BoardLockMine, <1>1, ServiceAssumption DEF IInv, ReleaseDone, UnderBoardLock, LocksOwned, UnderServiceLock,
     GoesTo, GoesIdle
<1>4. BoardState'
  BY <1>1 DEF IInv, BoardState, LocksOwned, ServiceLockFree, UnderServiceLock, ReleaseDone,
       GoesTo, GoesIdle
<1>5. TaskShape'
  BY <1>1, ShapeKept DEF Shaped, InCall, ReleaseDone, GoesTo, GoesIdle, IInv
<1>6. SessionPart'
  <2>1. SameHolders
    BY <1>1, ServiceAssumption DEF IInv, TaskShape, Shaped, SameHolders, Calling, Cleaning,
         InCall, ReleaseDone, GoesTo, GoesIdle
  <2>2. SameSessions /\ sessions' = sessions
    BY DEF ReleaseDone, SameSessions, SameSession
  <2>3. QED
    BY <2>1, <2>2, SessionsUndisturbed DEF IInv
<1>7. PinsBalance'
  <2>1. SamePinners
    BY <1>1 DEF IInv, TaskShape, Shaped, SamePinners, Pinning, ReleaseDone, GoesTo, GoesIdle
  <2>2. QED
    BY <2>1, PinsUndisturbed DEF IInv, SamePins, ReleaseDone
<1>8. BodyHasBoard'
  BY <1>1 DEF IInv, BodyHasBoard, IsUsableDevice, LocksOwned, UnderBoardLock, ServiceLockFree,
       ReleaseDone, GoesTo, GoesIdle
<1>9. GenerationBounded'
  BY <1>1, GenerationUndisturbed DEF Starting, BringingUp, ReleaseDone, GoesTo, GoesIdle, IInv
<1>10. QED
  BY <1>2, <1>3, <1>4, <1>5, <1>6, <1>7, <1>8, <1>9 DEF IInv

LEMMA AttachKeeps ==
  ASSUME IInv, NEW t \in Task, Attach(t)
  PROVE  IInv'
<1> USE DEF lockVars, boardVars, sessionVars, boundVars, At
<1>1. GoesTo(t, "detach") \/ GoesTo(t, "attached")
  BY GotoShape DEF IInv, Attach, Pc, BringingUp
<1>2. Typed'
  BY <1>1 DEF IInv, Typed, Attach, GoesTo
<1>3. LocksOwned'
  BY <1>1 DEF IInv, LocksOwned, BoardLockFree, ServiceLockFree, UnderBoardLock,
       UnderServiceLock, Attach, GoesTo
<1>4. BoardState'
  BY ServiceLockUnowned, <1>1 DEF IInv, Attach, UnderServiceLock, BoardState, GoesTo
<1>5. TaskShape'
  BY <1>1, ShapeKept DEF Shaped, InCall, Attach, GoesTo, IInv
<1>6. SessionPart'
  BY <1>1, ServiceAssumption, SessionsUndisturbed DEF IInv, TaskShape, Shaped, SameHolders, Calling, Cleaning,
     InCall, Attach, GoesTo, SameSessions, SameSession
<1>7. PinsBalance'
  <2>1. SamePinners
    BY <1>1 DEF IInv, TaskShape, Shaped, SamePinners, Pinning, Attach, GoesTo
  <2>2. QED
    BY <2>1, PinsUndisturbed DEF IInv, SamePins, Attach
<1>8. BodyHasBoard'
  BY <1>1 DEF IInv, BodyHasBoard, IsUsableDevice, LocksOwned, UnderBoardLock, ServiceLockFree,
       Attach, GoesTo
<1>9. GenerationBounded'
  BY <1>1, GenerationUndisturbed DEF Starting, BringingUp, Attach, GoesTo, IInv
<1>10. QED
  BY <1>2, <1>3, <1>4, <1>5, <1>6, <1>7, <1>8, <1>9 DEF IInv

LEMMA InitRadeonFeaturesKeeps ==
  ASSUME IInv, NEW t \in Task, InitRadeonFeatures(t)
  PROVE  IInv'
<1> USE DEF lockVars, boardVars, sessionVars, boundVars, At
<1>1. IF board /\ state = "ATTACHED" THEN GoesTo(t, "features") ELSE GoesIdle(t)
  BY GotoShape, IdleShape DEF IInv, InitRadeonFeatures, Pc, BringingUp
<1>2. Typed'
  BY <1>1 DEF IInv, Typed, InitRadeonFeatures, GoesTo, GoesIdle
<1>3. LocksOwned'
  BY ServiceLockUnowned, <1>1, ServiceAssumption DEF IInv, InitRadeonFeatures, UnderServiceLock, LocksOwned,
     UnderBoardLock, GoesTo, GoesIdle
<1>4. BoardState'
  BY <1>1 DEF IInv, BoardState, LocksOwned, ServiceLockFree, UnderServiceLock,
       InitRadeonFeatures, GoesTo, GoesIdle
<1>5. TaskShape'
  BY <1>1, ShapeKept DEF Shaped, InCall, InitRadeonFeatures, GoesTo, GoesIdle, IInv
<1>6. SessionPart'
  <2>1. SameHolders
    BY <1>1, ServiceAssumption DEF IInv, TaskShape, Shaped, SameHolders, Calling, Cleaning,
         InCall, InitRadeonFeatures, GoesTo, GoesIdle
  <2>2. SameSessions /\ sessions' = sessions
    BY DEF InitRadeonFeatures, SameSessions, SameSession
  <2>3. QED
    BY <2>1, <2>2, SessionsUndisturbed DEF IInv
<1>7. PinsBalance'
  BY <1>1, PinsUndisturbed DEF IInv, TaskShape, Shaped, SamePinners, Pinning, InitRadeonFeatures, GoesTo, GoesIdle,
     SamePins
<1>8. BodyHasBoard'
  BY <1>1 DEF IInv, BodyHasBoard, IsUsableDevice, LocksOwned, UnderBoardLock, ServiceLockFree,
       InitRadeonFeatures, GoesTo, GoesIdle
<1>9. GenerationBounded'
  BY <1>1, GenerationUndisturbed DEF Starting, BringingUp, InitRadeonFeatures, GoesTo, GoesIdle, IInv
<1>10. QED
  BY <1>2, <1>3, <1>4, <1>5, <1>6, <1>7, <1>8, <1>9 DEF IInv

LEMMA DetachKeeps ==
  ASSUME IInv, NEW t \in Task, Detach(t)
  PROVE  IInv'
<1> USE DEF lockVars, boardVars, sessionVars, boundVars, At
<1>1. GoesAnew(t, "detach", "detach")
  BY AnewShape DEF IInv, Detach, Pc
<1>2. Typed'
  BY <1>1 DEF IInv, Typed, Detach, GoesTo, GoesAnew
<1>3. LocksOwned'
  BY <1>1 DEF IInv, LocksOwned, BoardLockFree, ServiceLockFree, UnderBoardLock,
       UnderServiceLock, Detach, GoesTo, GoesAnew
<1>4. BoardState'
  BY <1>1 DEF IInv, BoardState, LocksOwned, ServiceLockFree, UnderServiceLock, Detach, GoesTo,
       GoesAnew
<1>5. TaskShape'
  BY <1>1, ShapeKept DEF Shaped, InCall, Detach, GoesTo, GoesAnew, IInv
<1>6. SessionPart'
  <2>1. SameHolders
    BY <1>1, ServiceAssumption DEF IInv, TaskShape, Shaped, SameHolders, Calling, Cleaning,
         InCall, Detach, GoesTo, GoesAnew
  <2>2. SameSessions /\ sessions' = sessions
    BY DEF Detach, SameSessions, SameSession
  <2>3. QED
    BY <2>1, <2>2, SessionsUndisturbed DEF IInv
<1>7. PinsBalance'
  <2>1. SamePinners
    BY <1>1 DEF IInv, TaskShape, Shaped, SamePinners, Pinning, Detach, GoesTo, GoesAnew
  <2>2. QED
    BY <2>1, PinsUndisturbed DEF IInv, SamePins, Detach
<1>8. BodyHasBoard'
  BY <1>1 DEF IInv, BodyHasBoard, IsUsableDevice, LocksOwned, UnderBoardLock, ServiceLockFree,
       Detach, GoesTo, GoesAnew
<1>9. GenerationBounded'
  BY <1>1, GenerationUndisturbed DEF Starting, BringingUp, Detach, GoesTo, GoesAnew, IInv
<1>10. QED
  BY <1>2, <1>3, <1>4, <1>5, <1>6, <1>7, <1>8, <1>9 DEF IInv

LEMMA DrawKeeps ==
  ASSUME IInv, NEW t \in Task, Draw(t)
  PROVE  IInv'
<1> USE DEF lockVars, boardVars, sessionVars, boundVars, At
<1>1. GoesAnew(t, "body", "draw")
  BY AnewShape DEF IInv, Draw, Pc, InCall
<1>2. Typed'
  BY <1>1 DEF IInv, Typed, Draw, GoesTo, GoesAnew
<1>3. LocksOwned'
  BY BoardLockUnowned, <1>1, ServiceAssumption DEF IInv, Draw, UnderBoardLock, LocksOwned, UnderServiceLock, GoesTo,
     GoesAnew
<1>4. BoardState'
  BY <1>1 DEF IInv, BoardState, LocksOwned, ServiceLockFree, UnderServiceLock, Draw, GoesTo,
       GoesAnew
<1>5. TaskShape'
  BY <1>1, ShapeKept DEF Shaped, InCall, Draw, GoesTo, GoesAnew, IInv
<1>6. SessionPart'
  <2>1. SameHolders
    BY <1>1, ServiceAssumption DEF IInv, TaskShape, Shaped, SameHolders, Calling, Cleaning,
         InCall, Draw, GoesTo, GoesAnew
  <2>2. SameSessions /\ sessions' = sessions
    BY DEF Draw, SameSessions, SameSession
  <2>3. QED
    BY <2>1, <2>2, SessionsUndisturbed DEF IInv
<1>7. PinsBalance'
  <2>1. SamePinners
    BY <1>1 DEF IInv, TaskShape, Shaped, SamePinners, Pinning, Draw, GoesTo, GoesAnew
  <2>2. QED
    BY <2>1, PinsUndisturbed DEF IInv, SamePins, Draw
<1>8. BodyHasBoard'
  BY BoardLockUnowned, <1>1 DEF IInv, Draw, UnderBoardLock, BodyHasBoard, GoesAnew
<1>9. GenerationBounded'
  BY <1>1, GenerationUndisturbed DEF Starting, BringingUp, Draw, GoesTo, GoesAnew, IInv
<1>10. QED
  BY <1>2, <1>3, <1>4, <1>5, <1>6, <1>7, <1>8, <1>9 DEF IInv

LEMMA InitChipKeeps ==
  ASSUME IInv, NEW t \in Task, InitChip(t)
  PROVE  IInv'
<1> USE DEF lockVars, boardVars, sessionVars, boundVars, At
<1>1. GoesAnew(t, "init", "init")
  BY AnewShape DEF IInv, InitChip, Pc, BringingUp
<1>2. Typed'
  BY <1>1 DEF IInv, Typed, InitChip, GoesTo, GoesAnew
<1>3. LocksOwned'
  BY <1>1 DEF IInv, LocksOwned, BoardLockFree, ServiceLockFree, UnderBoardLock,
       UnderServiceLock, InitChip, GoesTo, GoesAnew
<1>4. BoardState'
  BY ServiceLockUnowned, <1>1 DEF IInv, InitChip, UnderServiceLock, BoardState, GoesTo, GoesAnew
<1>5. TaskShape'
  BY <1>1, ShapeKept DEF Shaped, InCall, InitChip, GoesTo, GoesAnew, IInv
<1>6. SessionPart'
  <2>1. SameHolders
    BY <1>1, ServiceAssumption DEF IInv, TaskShape, Shaped, SameHolders, Calling, Cleaning,
         InCall, InitChip, GoesTo, GoesAnew
  <2>2. SameSessions /\ sessions' = sessions
    BY DEF InitChip, SameSessions, SameSession
  <2>3. QED
    BY <2>1, <2>2, SessionsUndisturbed DEF IInv
<1>7. PinsBalance'
  <2>1. SamePinners
    BY <1>1 DEF IInv, TaskShape, Shaped, SamePinners, Pinning, InitChip, GoesTo, GoesAnew
  <2>2. QED
    BY <2>1, PinsUndisturbed DEF IInv, SamePins, InitChip
<1>8. BodyHasBoard'
  BY <1>1 DEF IInv, BodyHasBoard, IsUsableDevice, LocksOwned, UnderBoardLock, ServiceLockFree,
       InitChip, GoesTo, GoesAnew
<1>9. GenerationBounded'
  <2>1. Starting' = Starting \cup {t} /\ t \notin Starting
    BY <1>1 DEF Starting, BringingUp, InitChip, GoesTo, GoesAnew
  <2>2. IsFiniteSet(Starting)
    BY ServiceAssumption, FS_Subset DEF Starting
  <2>3. Cardinality(Starting) \in Nat /\ Cardinality(Starting') = Cardinality(Starting) + 1
    BY <2>1, <2>2, FS_AddElement, FS_CardinalityType
  <2>4. QED
    BY <2>3, ServiceAssumption DEF IInv, GenerationBounded, Typed, InitChip
<1>10. QED
  BY <1>2, <1>3, <1>4, <1>5, <1>6, <1>7, <1>8, <1>9 DEF IInv

LEMMA DetachCheckKeeps ==
  ASSUME IInv, NEW t \in Task, DetachCheck(t)
  PROVE  IInv'
<1> USE DEF lockVars, boardVars, sessionVars, boundVars, At
<1>1. \/ /\ boardLock' = NoTask /\ board' = board /\ state' = state /\ generation' = generation
         /\ IF task[t].pin THEN GoesTo(t, "closelib") ELSE GoesIdle(t)
      \/ /\ boardLock' = boardLock /\ state' = "DETACHING" /\ board' = FALSE
         /\ board /\ state # "DETACHING" /\ generation' = generation + 1
         /\ GoesTo(t, "finish")
  BY GotoShape, ReleasedShape DEF IInv, Pc, UnderBoardLock, DetachCheck
<1>2. Typed'
  <2>0. generation \in Nat /\ board \in BOOLEAN /\ boardLock \in Task \cup {NoTask}
    BY DEF IInv, Typed
  <2>1. generation' \in Nat /\ boardLock' \in Task \cup {NoTask} /\ state' \in {state, "DETACHING"}
    BY <1>1, <2>0
  <2>2. board' \in BOOLEAN
    BY <2>0 DEF DetachCheck
  <2>3. task' \in [Task -> TaskRecord]
    BY <1>1 DEF GoesTo, GoesIdle
  <2>4. QED
    BY <2>1, <2>2, <2>3 DEF IInv, Typed, DetachCheck
<1>3. LocksOwned'
  BY BoardLockMine, <1>1, ServiceAssumption DEF IInv, DetachCheck, UnderBoardLock, LocksOwned, UnderServiceLock,
     GoesTo, GoesIdle
<1>4. BoardState'
  BY ServiceLockUnowned, BoardLockMine, <1>1 DEF IInv, DetachCheck, UnderServiceLock, UnderBoardLock, BoardState,
     GoesTo, GoesIdle
<1>5. TaskShape'
  BY <1>1, ShapeKept DEF Shaped, InCall, DetachCheck, GoesTo, GoesIdle, IInv
<1>6. SessionPart'
  <2>1. SameHolders
    BY <1>1, ServiceAssumption DEF IInv, TaskShape, Shaped, SameHolders, Calling, Cleaning,
         InCall, DetachCheck, GoesTo, GoesIdle
  <2>2. SameSessions /\ sessions' = sessions
    BY DEF DetachCheck, SameSessions, SameSession
  <2>3. QED
    BY <2>1, <2>2, SessionsUndisturbed DEF IInv
<1>7. PinsBalance'
  <2>1. SamePinners
    BY <1>1 DEF IInv, TaskShape, Shaped, SamePinners, Pinning, DetachCheck, GoesTo, GoesIdle
  <2>2. QED
    BY <2>1, PinsUndisturbed DEF IInv, SamePins, DetachCheck
<1>8. BodyHasBoard'
  BY BoardLockMine, <1>1 DEF IInv, DetachCheck, UnderBoardLock, BodyHasBoard, GoesTo, GoesIdle
<1>9. GenerationBounded'
  <2>1. Starting' = Starting /\ attaches' = attaches
    BY <1>1 DEF Starting, BringingUp, DetachCheck, GoesTo, GoesIdle
  <2>2. Cardinality(Starting) \in Nat
    BY ServiceAssumption, FS_Subset, FS_CardinalityType DEF Starting
  <2>3. \/ generation' = generation /\ board' = board
        \/ generation' = generation + 1 /\ board /\ ~board'
    BY DEF DetachCheck
  <2>4. QED
    BY <2>1, <2>2, <2>3, ServiceAssumption DEF IInv, GenerationBounded, Typed
<1>10. QED
  BY <1>2, <1>3, <1>4, <1>5, <1>6, <1>7, <1>8, <1>9 DEF IInv

---------------------------------------------------------------------------
(* Steps that change the segments of one session.                           *)
LEMMA SegmentsShape ==
  ASSUME Typed, NEW d \in Device, device[d].list # "none", NEW S, S \in SUBSET Segment,
         device' = [device EXCEPT ![d].segments = S], nextHandle' = nextHandle
  PROVE  device' \in [Device -> SessionRecord] /\ SameSessions /\ SamePins
<1> DEFINE r == [device[d] EXCEPT !.segments = S]
<1>1. device[d] \in SessionRecord /\ \A e \in Device : device[e] \in SessionRecord
  BY DEF Typed
<1>2. /\ r \in SessionRecord
      /\ r.list = device[d].list /\ r.handle = device[d].handle
      /\ r.generation = device[d].generation /\ r.calls = device[d].calls
      /\ r.closing <=> device[d].closing
      /\ r.cleanupDone <=> device[d].cleanupDone
      /\ r.cleanupReady <=> device[d].cleanupReady
      /\ r.pin <=> device[d].pin
  BY <1>1 DEF SessionRecord
<1>3. device' = [device EXCEPT ![d] = r]
  OBVIOUS
<1> HIDE DEF r
<1>4. device' \in [Device -> SessionRecord]
      /\ device'[d] = r /\ \A e \in Device : e # d => device'[e] = device[e]
  BY <1>2, <1>3 DEF Typed
<1>5. SameSession(d)
  BY <1>2, <1>4 DEF SameSession
<1>6. ASSUME NEW e \in Device, e # d PROVE SameSession(e)
  BY <1>4, <1>6 DEF SameSession
<1>7. SameSessions
  BY <1>5, <1>6 DEF SameSessions
<1>8. QED
  BY <1>4, <1>7 DEF SameSessions, SameSession, SamePins

LEMMA AllocSegmentKeeps ==
  ASSUME IInv, NEW t \in Task, NEW s \in Segment, AllocSegment(t, s)
  PROVE  IInv'
<1> USE DEF lockVars, boardVars, sessionVars, boundVars, At
<1>0. device' \in [Device -> SessionRecord] /\ SameSessions /\ SamePins
  <2> DEFINE d == task[t].dev
             S == device[d].segments \cup {s}
  <2>1. d \in Device /\ Calling(t, d)
    BY DEF IInv, TaskShape, Shaped, Calling, InCall, AllocSegment
  <2>2. device[d].list # "none" /\ S \in SUBSET Segment
    BY <2>1 DEF IInv, SessionPart, SessionsHeld, Typed, SessionRecord
  <2>3. device' = [device EXCEPT ![d].segments = S]
    BY DEF AllocSegment
  <2> HIDE DEF d, S
  <2>4. QED
    BY <2>1, <2>2, <2>3, SegmentsShape DEF IInv, AllocSegment
<1>1. GoesTo(t, "leave")
  BY GotoShape DEF AllocSegment, Pc, InCall, UnderBoardLock, BringingUp, IInv
<1>2. Typed'
  BY <1>0, <1>1 DEF IInv, Typed, AllocSegment, GoesTo
<1>3. LocksOwned'
  BY <1>1 DEF IInv, LocksOwned, BoardLockFree, ServiceLockFree, UnderBoardLock,
       UnderServiceLock, AllocSegment, GoesTo
<1>4. BoardState'
  BY <1>1 DEF IInv, BoardState, LocksOwned, ServiceLockFree, UnderServiceLock, AllocSegment,
       GoesTo
<1>5. TaskShape'
  BY <1>1, ShapeKept DEF Shaped, InCall, AllocSegment, GoesTo, IInv
<1>6. SessionPart'
  BY <1>1, ServiceAssumption, <1>0, SessionsUndisturbed DEF IInv, TaskShape, Shaped, SameHolders, Calling, Cleaning,
     InCall, AllocSegment, GoesTo
<1>7. PinsBalance'
  <2>1. SamePinners
    BY <1>1 DEF IInv, TaskShape, Shaped, SamePinners, Pinning, AllocSegment, GoesTo
  <2>2. QED
    BY <1>0, <2>1, PinsUndisturbed DEF IInv, AllocSegment
<1>8. BodyHasBoard'
  BY BoardLockMine, <1>1 DEF IInv, AllocSegment, UnderBoardLock, BodyHasBoard, GoesTo
<1>9. GenerationBounded'
  BY <1>1, GenerationUndisturbed DEF Starting, BringingUp, AllocSegment, GoesTo, IInv
<1>10. QED
  BY <1>2, <1>3, <1>4, <1>5, <1>6, <1>7, <1>8, <1>9 DEF IInv

LEMMA FreeSegmentKeeps ==
  ASSUME IInv, NEW t \in Task, NEW s \in Segment, FreeSegment(t, s)
  PROVE  IInv'
<1> USE DEF lockVars, boardVars, sessionVars, boundVars, At
<1>0. device' \in [Device -> SessionRecord] /\ SameSessions /\ SamePins
  <2> DEFINE d == task[t].dev
             S == device[d].segments \ {s}
  <2>1. d \in Device /\ Calling(t, d)
    BY DEF IInv, TaskShape, Shaped, Calling, InCall, FreeSegment
  <2>2. device[d].list # "none" /\ S \in SUBSET Segment
    BY <2>1 DEF IInv, SessionPart, SessionsHeld, Typed, SessionRecord
  <2>3. device' = [device EXCEPT ![d].segments = S]
    BY DEF FreeSegment
  <2> HIDE DEF d, S
  <2>4. QED
    BY <2>1, <2>2, <2>3, SegmentsShape DEF IInv, FreeSegment
<1>1. GoesTo(t, "leave")
  BY GotoShape DEF FreeSegment, Pc, InCall, UnderBoardLock, BringingUp, IInv
<1>2. Typed'
  BY <1>0, <1>1 DEF IInv, Typed, FreeSegment, GoesTo
<1>3. LocksOwned'
  BY <1>1 DEF IInv, LocksOwned, BoardLockFree, ServiceLockFree, UnderBoardLock,
       UnderServiceLock, FreeSegment, GoesTo
<1>4. BoardState'
  BY <1>1 DEF IInv, BoardState, LocksOwned, ServiceLockFree, UnderServiceLock, FreeSegment,
       GoesTo
<1>5. TaskShape'
  BY <1>1, ShapeKept DEF Shaped, InCall, FreeSegment, GoesTo, IInv
<1>6. SessionPart'
  <2>1. SameHolders
    BY <1>1, ServiceAssumption
      DEF IInv, TaskShape, Shaped, SameHolders, Calling, Cleaning, InCall, FreeSegment, GoesTo
  <2>2. QED
    BY <1>0, <2>1, SessionsUndisturbed DEF IInv, FreeSegment
<1>7. PinsBalance'
  <2>1. SamePinners
    BY <1>1 DEF IInv, TaskShape, Shaped, SamePinners, Pinning, FreeSegment, GoesTo
  <2>2. QED
    BY <1>0, <2>1, PinsUndisturbed DEF IInv, FreeSegment
<1>8. BodyHasBoard'
  BY BoardLockMine, <1>1 DEF IInv, FreeSegment, UnderBoardLock, BodyHasBoard, GoesTo
<1>9. GenerationBounded'
  BY <1>1, GenerationUndisturbed DEF Starting, BringingUp, FreeSegment, GoesTo, IInv
<1>10. QED
  BY <1>2, <1>3, <1>4, <1>5, <1>6, <1>7, <1>8, <1>9 DEF IInv

LEMMA FreeDeviceSegmentsKeeps ==
  ASSUME IInv, NEW t \in Task, FreeDeviceSegments(t)
  PROVE  IInv'
<1> USE DEF lockVars, boardVars, sessionVars, boundVars, At
<1> DEFINE d == task[t].dev
<1>1. d \in Device /\ Cleaning(t, d)
  BY DEF IInv, TaskShape, Shaped, Cleaning, FreeDeviceSegments
<1>2. device[d].list # "none"
  BY <1>1 DEF IInv, SessionPart, SessionsHeld
<1>3. /\ device' \in [Device -> SessionRecord] /\ SameSessions /\ SamePins
      /\ mask' \subseteq Segment
      /\ task' = task \/ GoesTo(t, "ready")
  <2>1. ASSUME NEW s \in device[d].segments, mask' = mask \ {s}, task' = task,
               device' = [device EXCEPT ![d].segments = @ \ {s}]
        PROVE  /\ device' \in [Device -> SessionRecord] /\ SameSessions /\ SamePins
               /\ mask' \subseteq Segment
               /\ task' = task \/ GoesTo(t, "ready")
    <3> DEFINE S == device[d].segments \ {s}
    <3>1. S \in SUBSET Segment /\ device' = [device EXCEPT ![d].segments = S]
      BY <1>1, <2>1 DEF IInv, Typed, SessionRecord
    <3> HIDE DEF S, d
    <3>2. device' \in [Device -> SessionRecord] /\ SameSessions /\ SamePins
      BY <1>1, <1>2, <3>1, SegmentsShape DEF IInv, FreeDeviceSegments
    <3>3. QED
      BY <2>1, <3>2 DEF IInv, Typed
  <2>2. ASSUME Goto(t, "ready"), UNCHANGED <<mask, device>>
        PROVE  /\ device' \in [Device -> SessionRecord] /\ SameSessions /\ SamePins
               /\ mask' \subseteq Segment
               /\ task' = task \/ GoesTo(t, "ready")
    BY <2>2, GotoShape DEF IInv, Pc, Typed, SameSessions, SameSession, SamePins, FreeDeviceSegments
  <2>3. \/ \E s \in device[d].segments : /\ mask' = mask \ {s} /\ task' = task
                                           /\ device' = [device EXCEPT ![d].segments = @ \ {s}]
        \/ Goto(t, "ready") /\ UNCHANGED <<mask, device>>
    BY DEF FreeDeviceSegments
  <2>4. QED
    BY <2>1, <2>2, <2>3
<1> HIDE DEF d
<1>4. Typed'
  BY <1>3 DEF IInv, Typed, FreeDeviceSegments, GoesTo
<1>5. LocksOwned'
  BY <1>3 DEF IInv, LocksOwned, UnderBoardLock, UnderServiceLock, FreeDeviceSegments, GoesTo
<1>6. BoardState'
  BY <1>3 DEF IInv, BoardState, UnderServiceLock, FreeDeviceSegments, GoesTo
<1>7. TaskShape'
  BY <1>3, ShapeKept DEF Shaped, InCall, FreeDeviceSegments, GoesTo, IInv
<1>8. SessionPart'
  BY <1>3, SessionsUndisturbed DEF SameHolders, Calling, Cleaning, InCall, FreeDeviceSegments, GoesTo, IInv
<1>9. PinsBalance'
  BY <1>3, PinsUndisturbed DEF SamePinners, Pinning, FreeDeviceSegments, GoesTo, IInv
<1>10. BodyHasBoard'
  <2>1. ASSUME NEW u \in Task, task'[u].pc = "body", task'[u].op # "draw"
        PROVE  task[u].pc = "body" /\ task[u].op # "draw"
                 /\ task'[u].dev = task[u].dev /\ task[u].dev \in Device
    BY <1>3, <2>1 DEF IInv, TaskShape, Shaped, InCall, FreeDeviceSegments, GoesTo
  <2>2. \A e \in Device : device'[e].generation = device[e].generation
    BY <1>3 DEF SameSessions, SameSession
  <2>3. QED
    BY <2>1, <2>2 DEF IInv, BodyHasBoard, IsUsableDevice, FreeDeviceSegments
<1>11. GenerationBounded'
  BY <1>3, GenerationUndisturbed DEF Starting, BringingUp, FreeDeviceSegments, GoesTo, IInv
<1>12. QED
  BY <1>4, <1>5, <1>6, <1>7, <1>8, <1>9, <1>10, <1>11 DEF IInv

---------------------------------------------------------------------------
(* A pin of rtg.library is held by a task or by a session; it is counted as *)
(* it is taken, dropped, or moved from one to the other.                    *)
TaskPins == {t \in Task : Pinning(t)}
DevicePins == {d \in Device : device[d].pin}

LEMMA PinsAsSets ==
  /\ IsFiniteSet(TaskPins) /\ IsFiniteSet(DevicePins)
  /\ Cardinality(TaskPins) \in Nat /\ Cardinality(DevicePins) \in Nat
  /\ PinsBalance <=> pins = Cardinality(DevicePins) + Cardinality(TaskPins)
<1>1. IsFiniteSet(TaskPins) /\ IsFiniteSet(DevicePins)
  BY ServiceAssumption, FS_Subset DEF TaskPins, DevicePins
<1>2. TaskPins = {t \in Task : task[t].pin \/ At(t, "open")}
  BY DEF TaskPins, Pinning, At
<1>3. QED
  BY <1>1, <1>2, FS_CardinalityType DEF PinsBalance, DevicePins

LEMMA PinsAsSetsNext ==
  /\ IsFiniteSet(TaskPins') /\ IsFiniteSet(DevicePins')
  /\ Cardinality(TaskPins') \in Nat /\ Cardinality(DevicePins') \in Nat
  /\ PinsBalance' <=> pins' = Cardinality(DevicePins') + Cardinality(TaskPins')
<1>1. IsFiniteSet(TaskPins') /\ IsFiniteSet(DevicePins')
  BY ServiceAssumption, FS_Subset DEF TaskPins, DevicePins
<1>2. TaskPins' = {t \in Task : task'[t].pin \/ task'[t].pc = "open"}
  BY DEF TaskPins, Pinning
<1>3. QED
  BY <1>1, <1>2, FS_CardinalityType DEF PinsBalance, DevicePins, At

(* A pin taken by a task, given up by it, handed over by a session to a     *)
(* task, and stored by a task in a session.                                 *)
LEMMA PinTaken ==
  ASSUME PinsBalance, NEW t, TaskPins' = TaskPins \cup {t}, t \notin TaskPins,
         DevicePins' = DevicePins, pins' = pins + 1
  PROVE  PinsBalance'
BY PinsAsSets, PinsAsSetsNext, FS_AddElement

LEMMA PinDropped ==
  ASSUME PinsBalance, NEW t, TaskPins' = TaskPins \ {t}, t \in TaskPins,
         DevicePins' = DevicePins, pins' = pins - 1
  PROVE  PinsBalance'
BY PinsAsSets, PinsAsSetsNext, FS_RemoveElement

LEMMA PinHandedOver ==
  ASSUME PinsBalance, NEW t, TaskPins' = TaskPins \cup {t}, t \notin TaskPins,
         NEW d, DevicePins' = DevicePins \ {d}, d \in DevicePins, pins' = pins
  PROVE  PinsBalance'
BY PinsAsSets, PinsAsSetsNext, FS_AddElement, FS_RemoveElement

LEMMA PinStored ==
  ASSUME PinsBalance, NEW t, TaskPins' = TaskPins \ {t}, t \in TaskPins,
         NEW d, DevicePins' = DevicePins \cup {d}, d \notin DevicePins, pins' = pins
  PROVE  PinsBalance'
BY PinsAsSets, PinsAsSetsNext, FS_AddElement, FS_RemoveElement

LEMMA CallersFinite ==
  ASSUME NEW d \in Device
  PROVE  /\ IsFiniteSet(Callers(d)) /\ Cardinality(Callers(d)) \in Nat
         /\ Cardinality(Callers(d)) = 0 <=> Callers(d) = {}
BY ServiceAssumption, FS_Subset, FS_CardinalityType, FS_EmptySet DEF Callers

LEMMA CallsAreNatural ==
  ASSUME SessionPart, NEW d \in Device
  PROVE  device[d].calls \in Nat /\ (device[d].calls = 0 <=> Callers(d) = {})
BY CallersFinite DEF SessionPart, CallsCounted

LEMMA OpenPinKeeps ==
  ASSUME IInv, NEW t \in Task, OpenPin(t)
  PROVE  IInv'
<1> USE DEF lockVars, boardVars, sessionVars, boundVars, At
<1>1. GoesTo(t, "open")
  BY GotoShape DEF IInv, OpenPin, Pc
<1>2. Typed'
  BY <1>1 DEF IInv, Typed, OpenPin, GoesTo, GoesIdle
<1>3. LocksOwned'
  BY <1>1 DEF IInv, LocksOwned, BoardLockFree, ServiceLockFree, UnderBoardLock,
       UnderServiceLock, OpenPin, GoesTo, GoesIdle
<1>4. BoardState'
  BY <1>1 DEF IInv, BoardState, LocksOwned, ServiceLockFree, UnderServiceLock, OpenPin, GoesTo,
       GoesIdle
<1>5. TaskShape'
  BY <1>1, ShapeKept DEF Shaped, InCall, OpenPin, GoesTo, GoesIdle, IInv
<1>6. SessionPart'
  <2>1. SameHolders
    BY <1>1, ServiceAssumption DEF IInv, TaskShape, Shaped, SameHolders, Calling, Cleaning,
         InCall, OpenPin, GoesTo, GoesIdle
  <2>2. SameSessions /\ sessions' = sessions
    BY DEF OpenPin, SameSessions, SameSession
  <2>3. QED
    BY <2>1, <2>2, SessionsUndisturbed DEF IInv
<1>7. PinsBalance'
  BY <1>1, PinTaken DEF IInv, TaskShape, Shaped, TaskPins, DevicePins, Pinning, OpenPin, GoesTo, GoesIdle
<1>8. BodyHasBoard'
  BY <1>1 DEF IInv, BodyHasBoard, IsUsableDevice, LocksOwned, UnderBoardLock, ServiceLockFree,
       OpenPin, GoesTo, GoesIdle
<1>9. GenerationBounded'
  BY <1>1, GenerationUndisturbed DEF Starting, BringingUp, OpenPin, GoesTo, GoesIdle, IInv
<1>10. QED
  BY <1>2, <1>3, <1>4, <1>5, <1>6, <1>7, <1>8, <1>9 DEF IInv

LEMMA OpenNoMemoryKeeps ==
  ASSUME IInv, NEW t \in Task, OpenNoMemory(t)
  PROVE  IInv'
<1> USE DEF lockVars, boardVars, sessionVars, boundVars, At
<1>1. GoesIdle(t)
  BY IdleShape DEF IInv, OpenNoMemory
<1>2. Typed'
  BY <1>1 DEF IInv, Typed, OpenNoMemory, GoesTo, GoesIdle
<1>3. LocksOwned'
  BY <1>1 DEF IInv, LocksOwned, BoardLockFree, ServiceLockFree, UnderBoardLock,
       UnderServiceLock, OpenNoMemory, GoesTo, GoesIdle
<1>4. BoardState'
  BY <1>1 DEF IInv, BoardState, LocksOwned, ServiceLockFree, UnderServiceLock, OpenNoMemory,
       GoesTo, GoesIdle
<1>5. TaskShape'
  BY <1>1, ShapeKept DEF Shaped, InCall, OpenNoMemory, GoesTo, GoesIdle, IInv
<1>6. SessionPart'
  <2>1. SameHolders
    BY <1>1, ServiceAssumption DEF IInv, TaskShape, Shaped, SameHolders, Calling, Cleaning,
         InCall, OpenNoMemory, GoesTo, GoesIdle
  <2>2. SameSessions /\ sessions' = sessions
    BY DEF OpenNoMemory, SameSessions, SameSession
  <2>3. QED
    BY <2>1, <2>2, SessionsUndisturbed DEF IInv
<1>7. PinsBalance'
  BY <1>1, PinDropped DEF IInv, TaskShape, Shaped, TaskPins, DevicePins, Pinning, OpenNoMemory, GoesTo, GoesIdle
<1>8. BodyHasBoard'
  BY <1>1 DEF IInv, BodyHasBoard, IsUsableDevice, LocksOwned, UnderBoardLock, ServiceLockFree,
       OpenNoMemory, GoesTo, GoesIdle
<1>9. GenerationBounded'
  BY <1>1, GenerationUndisturbed DEF Starting, BringingUp, OpenNoMemory, GoesTo, GoesIdle, IInv
<1>10. QED
  BY <1>2, <1>3, <1>4, <1>5, <1>6, <1>7, <1>8, <1>9 DEF IInv

LEMMA CloseLibraryKeeps ==
  ASSUME IInv, NEW t \in Task, CloseLibrary(t)
  PROVE  IInv'
<1> USE DEF lockVars, boardVars, sessionVars, boundVars, At
<1>1. GoesIdle(t) \/ GoesAnew(t, "retire", "close")
  BY UnpinnedShape DEF IInv, CloseLibrary
<1>2. Typed'
  BY <1>1 DEF IInv, Typed, CloseLibrary, GoesTo, GoesIdle, GoesAnew
<1>3. LocksOwned'
  BY <1>1 DEF IInv, LocksOwned, BoardLockFree, ServiceLockFree, UnderBoardLock,
       UnderServiceLock, CloseLibrary, GoesTo, GoesIdle, GoesAnew
<1>4. BoardState'
  BY <1>1 DEF IInv, BoardState, LocksOwned, ServiceLockFree, UnderServiceLock, CloseLibrary,
       GoesTo, GoesIdle, GoesAnew
<1>5. TaskShape'
  BY <1>1, ShapeKept DEF Shaped, InCall, CloseLibrary, GoesTo, GoesIdle, GoesAnew, IInv
<1>6. SessionPart'
  <2>1. SameHolders
    BY <1>1, ServiceAssumption DEF IInv, TaskShape, Shaped, SameHolders, Calling, Cleaning,
         InCall, CloseLibrary, GoesTo, GoesIdle, GoesAnew
  <2>2. SameSessions /\ sessions' = sessions
    BY DEF CloseLibrary, SameSessions, SameSession
  <2>3. QED
    BY <2>1, <2>2, SessionsUndisturbed DEF IInv
<1>7. PinsBalance'
  BY <1>1, PinDropped DEF IInv, TaskShape, Shaped, TaskPins, DevicePins, Pinning, CloseLibrary, GoesTo, GoesIdle,
     GoesAnew
<1>8. BodyHasBoard'
  BY <1>1 DEF IInv, BodyHasBoard, IsUsableDevice, LocksOwned, UnderBoardLock, ServiceLockFree,
       CloseLibrary, GoesTo, GoesIdle, GoesAnew
<1>9. GenerationBounded'
  BY <1>1, GenerationUndisturbed DEF Starting, BringingUp, CloseLibrary, GoesTo, GoesIdle, GoesAnew, IInv
<1>10. QED
  BY <1>2, <1>3, <1>4, <1>5, <1>6, <1>7, <1>8, <1>9 DEF IInv

---------------------------------------------------------------------------
(* The end of a call: DropCall, and the last one on a closed session.       *)
Last(d) == device[d].closing /\ device[d].calls = 1

(* The last call on a closed session takes its pin and its cleanup along.   *)
TaskDrops(t, d) ==
  /\ task' \in [Task -> TaskRecord]
  /\ \A u \in Task \ {t} : task'[u] = task[u]
  /\ task'[t].pc = "cleanup" /\ task'[t].op = task[t].op
  /\ task'[t].dev = d /\ task'[t].handle = task[t].handle
  /\ task'[t].pin <=> Last(d)
  /\ task'[t].cleanup <=> Last(d)
CallDropped(d) ==
  /\ device' \in [Device -> SessionRecord]
  /\ \A e \in Device \ {d} : device'[e] = device[e]
  /\ device'[d].list = device[d].list /\ device'[d].handle = device[d].handle
  /\ device'[d].generation = device[d].generation
  /\ device'[d].calls = device[d].calls - 1
  /\ device'[d].closing <=> device[d].closing
  /\ device'[d].cleanupReady <=> device[d].cleanupReady
  /\ device'[d].pin <=> (device[d].pin /\ ~Last(d))
  /\ device'[d].cleanupDone <=> (device[d].cleanupDone \/ Last(d))

(* What a task about to end its call knows.                                 *)
LEMMA CallerFacts ==
  ASSUME TaskShape, SessionPart, NEW t \in Task, NEW d, d = task[t].dev, task[t].pc \in {"revalidate", "drop"}
  PROVE  /\ d \in Device /\ Calling(t, d) /\ t \in Callers(d)
         /\ device[d].calls > 0 /\ device[d].calls \in Nat
         /\ ~task[t].pin /\ task[t].op \in {"call", "close"}
         /\ device[d].list \in {"service", "retired"} => device[d].pin /\ ~device[d].cleanupDone
         /\ device[d].list # "none" /\ device[d].handle = task[t].handle
         /\ Last(d) => device[d].list # "service"
<1>1. d \in Device /\ Calling(t, d) /\ t \in Callers(d) /\ ~task[t].pin /\ task[t].op \in {"call", "close"}
  BY DEF TaskShape, Shaped, InCall, Calling, Callers
<1>2. device[d].calls > 0 /\ device[d].calls \in Nat
  BY <1>1, CallsAreNatural
<1>3. device[d].list # "none" /\ device[d].handle = task[t].handle
  BY <1>1 DEF SessionPart, SessionsHeld
<1>4. device[d].list \in {"service", "retired"} => device[d].pin /\ ~device[d].cleanupDone
  BY <1>1, <1>2 DEF SessionPart, DeviceShape
<1>5. Last(d) => device[d].list # "service"
  BY <1>1 DEF SessionPart, DeviceShape, Last
<1>6. QED
  BY <1>1, <1>2, <1>3, <1>4, <1>5

(* A record of a session with three fields replaced.                        *)
Dropped(r, n, kept, done) == [r EXCEPT !.calls = n, !.pin = kept, !.cleanupDone = done]

LEMMA DroppedRecord ==
  ASSUME NEW r \in SessionRecord, NEW n \in Int, NEW kept \in BOOLEAN, NEW done \in BOOLEAN,
         NEW s, s = Dropped(r, n, kept, done)
  PROVE  /\ s \in SessionRecord /\ s.list = r.list /\ s.handle = r.handle
         /\ s.generation = r.generation /\ s.calls = n
         /\ s.closing <=> r.closing
         /\ s.cleanupReady <=> r.cleanupReady
         /\ s.pin <=> kept
         /\ s.cleanupDone <=> done
BY DEF SessionRecord, Dropped

LEMMA DropCallShape ==
  ASSUME Typed, TaskShape, SessionPart, NEW t \in Task, task[t].pc \in {"revalidate", "drop"}, DropCall(t)
  PROVE  TaskDrops(t, task[t].dev) /\ CallDropped(task[t].dev)
<1> DEFINE d == task[t].dev
           last == device[d].closing /\ device[d].calls = 1
           r == [task[t] EXCEPT !.pc = "cleanup", !.pin = last /\ device[d].pin,
                                !.cleanup = last /\ ~device[d].cleanupDone]
           kept == device[d].pin /\ ~last
           done == device[d].cleanupDone \/ last
           n == device[d].calls - 1
           s == Dropped(device[d], n, kept, done)
<1>1. /\ d \in Device /\ task[t] \in TaskRecord /\ device[d] \in SessionRecord
      /\ device[d].pin /\ ~device[d].cleanupDone
      /\ last <=> Last(d)
  BY CallerFacts DEF Typed, Last, SessionRecord
<1>2. task' = [task EXCEPT ![t] = r] /\ device' = [device EXCEPT ![d] = s]
  BY DEF DropCall, Dropped
<1> HIDE DEF d
<1>3. /\ r \in TaskRecord /\ r.pc = "cleanup" /\ r.op = task[t].op /\ r.dev = task[t].dev
      /\ r.handle = task[t].handle
      /\ r.pin <=> last
      /\ r.cleanup <=> last
  BY <1>1, ZenonT(60) DEF TaskRecord, Pc
<1>4. /\ s \in SessionRecord /\ s.list = device[d].list /\ s.handle = device[d].handle
      /\ s.generation = device[d].generation /\ s.calls = device[d].calls - 1
      /\ s.closing <=> device[d].closing
      /\ s.cleanupReady <=> device[d].cleanupReady
      /\ s.pin <=> (device[d].pin /\ ~last)
      /\ s.cleanupDone <=> (device[d].cleanupDone \/ last)
  <2>1. kept \in BOOLEAN /\ done \in BOOLEAN /\ n \in Int
    BY <1>1 DEF SessionRecord
  <2>2. s = Dropped(device[d], n, kept, done)
    OBVIOUS
  <2>3. /\ s \in SessionRecord /\ s.list = device[d].list /\ s.handle = device[d].handle
        /\ s.generation = device[d].generation /\ s.calls = n
        /\ s.closing <=> device[d].closing
        /\ s.cleanupReady <=> device[d].cleanupReady
        /\ s.pin <=> kept
        /\ s.cleanupDone <=> done
    <3>1. device[d] \in SessionRecord
      BY <1>1
    <3> HIDE DEF s, n, kept, done, last, r
    <3>2. QED
      BY <3>1, <2>1, <2>2, DroppedRecord
  <2> HIDE DEF s
  <2>4. QED
    BY <2>3
<1> HIDE DEF r, s, last
<1>5. TaskDrops(t, d)
  BY <1>1, <1>2, <1>3 DEF TaskDrops, Typed, d
<1>6. CallDropped(d)
  BY <1>1, <1>2, <1>4 DEF CallDropped, Typed
<1>7. QED
  BY <1>5, <1>6 DEF d

LEMMA DropCallKeeps ==
  ASSUME Typed, TaskShape, SessionPart, PinsBalance, NEW t \in Task,
         task[t].pc \in {"revalidate", "drop"}, DropCall(t),
         nextHandle' = nextHandle, sessions' = sessions, pins' = pins
  PROVE  TaskShape' /\ SessionPart' /\ PinsBalance'
<1> PICK d : d = task[t].dev
  OBVIOUS
<1>1. TaskDrops(t, d) /\ CallDropped(d)
  BY DropCallShape
<1>2. /\ d \in Device /\ Calling(t, d) /\ t \in Callers(d)
         /\ device[d].calls > 0 /\ device[d].calls \in Nat
      /\ ~task[t].pin /\ task[t].op \in {"call", "close"} /\ task[t].pc # "open"
      /\ device[d].pin /\ ~device[d].cleanupDone
      /\ device[d].list # "none" /\ device[d].handle = task[t].handle /\ task[t].dev = d
      /\ Last(d) => device[d].list = "retired"
  BY CallerFacts DEF Typed, SessionRecord
<1>3. TaskShape'
  BY <1>1, <1>2, ShapeKept DEF Shaped, InCall, TaskDrops
<1>4. DeviceShape'
  <2>1. ASSUME NEW e \in Device, e # d
        PROVE  device'[e] = device[e] /\ nextHandle' = nextHandle
    BY <1>1, <2>1 DEF CallDropped
  <2>2. device[d].list = "retired" => device[d].closing /\ device'[d].closing
    BY <1>1, <1>2 DEF SessionPart, DeviceShape, CallDropped
  <2>3. device[d].list = "retired" => (device'[d].cleanupDone <=> device'[d].calls = 0)
    BY <1>1, <1>2, <2>2 DEF CallDropped, Last
  <2>4. device'[d].pin <=> ~device'[d].cleanupDone
    BY <1>1, <1>2 DEF CallDropped
  <2>5. ~device'[d].cleanupReady
    BY <1>1, <1>2 DEF SessionPart, DeviceShape, CallDropped
  <2>6. device[d].list = "service" =>
          device'[d].pin /\ ~device'[d].closing /\ ~device'[d].cleanupDone
    BY <1>1, <1>2 DEF SessionPart, DeviceShape, CallDropped
  <2>7. /\ device'[d].list = device[d].list
        /\ device'[d].handle \in 1 .. nextHandle - 1
    BY <1>1, <1>2 DEF SessionPart, DeviceShape, CallDropped
  <2>8. QED
    BY <1>2, <2>1, <2>2, <2>3, <2>4, <2>5, <2>6, <2>7 DEF SessionPart, DeviceShape
<1>5. HandlesDiffer'
  BY <1>1 DEF CallDropped, SessionPart, HandlesDiffer
<1>6. CallsCounted'
  <2>1. Callers(d)' = Callers(d) \ {t}
    BY <1>1, <1>2 DEF Callers, Calling, InCall, TaskDrops
  <2>2. ASSUME NEW e \in Device, e # d
        PROVE  Callers(e)' = Callers(e) /\ device'[e].calls = device[e].calls
    BY <1>1, <1>2, <2>2 DEF Callers, Calling, InCall, TaskDrops, CallDropped
  <2>3. Cardinality(Callers(d)') = Cardinality(Callers(d)) - 1
    BY <1>2, <2>1, CallersFinite, FS_RemoveElement
  <2>4. device'[d].calls = Cardinality(Callers(d)')
    BY <1>1, <1>2, <2>3 DEF SessionPart, CallsCounted, CallDropped
  <2>5. QED
    BY <2>2, <2>4 DEF SessionPart, CallsCounted
<1>7. SessionsHeld'
  <2>1. ASSUME NEW u \in Task, NEW e \in Device, u # t
        PROVE  /\ Calling(u, e)' => device'[e].list # "none" /\ device'[e].handle = task'[u].handle
               /\ Cleaning(u, e)' =>
                    /\ device'[e].list = "retired" /\ device'[e].handle = task'[u].handle
                    /\ device'[e].cleanupDone /\ ~device'[e].cleanupReady
    BY <1>1, <1>2, <2>1 DEF SessionPart, SessionsHeld, Calling, Cleaning, TaskDrops, CallDropped
  <2>2. ASSUME NEW e \in Device
        PROVE  /\ ~Calling(t, e)'
               /\ Cleaning(t, e)' =>
                    /\ device'[e].list = "retired" /\ device'[e].handle = task'[t].handle
                    /\ device'[e].cleanupDone /\ ~device'[e].cleanupReady
    BY <1>1, <1>2 DEF SessionPart, DeviceShape, Calling, Cleaning, InCall, TaskDrops,
         CallDropped
  <2>3. QED
    BY <2>1, <2>2 DEF SessionsHeld
<1>8. CleanedOnce'
  <2>1. \A u \in Task : ~Cleaning(u, d)
    BY <1>2 DEF SessionPart, SessionsHeld
  <2>2. \A u \in Task, e \in Device : u # t \/ e # d => (Cleaning(u, e)' <=> Cleaning(u, e))
    BY <1>1, <1>2 DEF Cleaning, TaskDrops
  <2>3. Cleaning(t, d)' <=> Last(d)
    BY <1>1 DEF Cleaning, TaskDrops
  <2>4. \A e \in Device : e # d => device'[e] = device[e]
    BY <1>1 DEF CallDropped
  <2>5. device'[d].cleanupDone => Last(d)
    BY <1>1, <1>2 DEF CallDropped
  <2>6. \A u, v \in Task, e \in Device : Cleaning(u, e)' /\ Cleaning(v, e)' => u = v
    BY <2>1, <2>2, <2>3 DEF SessionPart, CleanedOnce
  <2>7. ASSUME NEW e \in Device, device'[e].cleanupDone, ~device'[e].cleanupReady
        PROVE  \E u \in Task : Cleaning(u, e)'
    BY <1>2, <2>2, <2>3, <2>4, <2>5, <2>7 DEF SessionPart, CleanedOnce
  <2>8. QED
    BY <2>6, <2>7 DEF CleanedOnce
<1>9. SessionsCounted'
  <2>1. Listed' = Listed
    BY <1>1 DEF Listed, CallDropped
  <2>2. QED
    BY <2>1 DEF SessionPart, SessionsCounted, Listed
<1>10. PinsBalance'
  <2>1. CASE Last(d)
    BY <1>1, <1>2, <2>1, PinHandedOver DEF TaskPins, Pinning, TaskDrops, DevicePins, CallDropped
  <2>2. CASE ~Last(d)
    BY <1>1, <1>2, <2>2, PinsUndisturbed DEF SamePinners, Pinning, TaskDrops, SamePins, CallDropped
  <2>3. QED
    BY <2>1, <2>2
<1>11. QED
  BY <1>3, <1>4, <1>5, <1>6, <1>7, <1>8, <1>9, <1>10 DEF SessionPart

LEMMA UnlockKeeps ==
  ASSUME IInv, NEW t \in Task, Unlock(t)
  PROVE  IInv'
<1> USE DEF lockVars, boardVars, sessionVars, boundVars, At
<1> PICK d : d = task[t].dev
  OBVIOUS
<1>1. TaskDrops(t, d) /\ CallDropped(d)
  BY DropCallShape DEF IInv, Unlock
<1>2. TaskShape' /\ SessionPart' /\ PinsBalance'
  BY DropCallKeeps DEF IInv, Unlock
<1>3. Typed'
  BY <1>1 DEF IInv, Typed, Unlock, TaskDrops, CallDropped
<1>4. LocksOwned'
  BY <1>1 DEF IInv, LocksOwned, UnderBoardLock, UnderServiceLock, Unlock, TaskDrops
<1>5. BoardState'
  BY <1>1 DEF IInv, BoardState, UnderServiceLock, Unlock, TaskDrops
<1>6. BodyHasBoard'
  <2>1. \A e : device'[e].generation = device[e].generation \/ e \notin Device
    BY <1>1 DEF CallDropped
  <2>2. ASSUME NEW u \in Task, task'[u].pc = "body", task'[u].op # "draw"
        PROVE  task[u].pc = "body" /\ task[u].op # "draw"
                 /\ task'[u].dev = task[u].dev /\ task[u].dev \in Device
    BY <1>1, <2>2 DEF IInv, TaskShape, Shaped, InCall, TaskDrops
  <2>3. QED
    BY <2>1, <2>2 DEF IInv, BodyHasBoard, IsUsableDevice, Unlock
<1>7. GenerationBounded'
  BY <1>1, GenerationUndisturbed DEF Starting, BringingUp, Unlock, TaskDrops, IInv
<1>8. QED
  BY <1>2, <1>3, <1>4, <1>5, <1>6, <1>7 DEF IInv

LEMMA RevalidateKeeps ==
  ASSUME IInv, NEW t \in Task, Revalidate(t)
  PROVE  IInv'
<1> USE DEF lockVars, boardVars, sessionVars, boundVars, At
<1> PICK d : d = task[t].dev
  OBVIOUS
<1>1. /\ boardLock = t /\ serviceLock = NoTask
      /\ \A u \in Task : u # t => task[u].pc \notin UnderBoardLock
      /\ \A u \in Task : task[u].pc \notin UnderServiceLock
  BY BoardLockMine, ServiceLockUnowned DEF IInv, Revalidate, UnderBoardLock, UnderServiceLock
<1>2. CASE device[d].list = "service" /\ IsUsableDevice(d)
  <2>1. Goto(t, "body") /\ device' = device /\ boardLock' = boardLock
    BY <1>2 DEF Revalidate
  <2>2. GoesTo(t, "body")
    BY <2>1, GotoShape DEF IInv, Pc, InCall
  <2>3. Typed'
    BY <2>1, <2>2 DEF IInv, Typed, Revalidate, GoesTo
  <2>4. LocksOwned'
    BY <1>1, <2>1, <2>2, ServiceAssumption
      DEF IInv, LocksOwned, UnderBoardLock, UnderServiceLock, Revalidate, GoesTo
  <2>5. BoardState'
    BY <2>2 DEF IInv, BoardState, UnderServiceLock, Revalidate, GoesTo
  <2>6. TaskShape'
    BY <2>2, ShapeKept DEF Shaped, InCall, Revalidate, GoesTo, IInv
  <2>7. SameHolders
    BY <2>2 DEF SameHolders, Calling, Cleaning, InCall, Revalidate, GoesTo
  <2>8. SessionPart'
    BY <2>1, <2>7, SessionsUndisturbed DEF IInv, SameSessions, SameSession, Revalidate
  <2>9. PinsBalance'
    <3>1. SamePinners
      BY <2>2 DEF SamePinners, Pinning, Revalidate, GoesTo
    <3>2. QED
      BY <2>1, <3>1, PinsUndisturbed DEF IInv, SamePins, Revalidate
  <2>10. BodyHasBoard'
    BY <1>1, <2>2, <1>2, <2>1 DEF GoesTo, UnderBoardLock, IsUsableDevice, Revalidate, BodyHasBoard
  <2>11. GenerationBounded'
    BY <2>2, GenerationUndisturbed DEF Starting, BringingUp, Revalidate, GoesTo, IInv
  <2>12. QED
    BY <2>3, <2>4, <2>5, <2>6, <2>8, <2>9, <2>10, <2>11 DEF IInv
<1>3. CASE ~(device[d].list = "service" /\ IsUsableDevice(d))
  <2>1. DropCall(t) /\ boardLock' = NoTask
    BY <1>3 DEF Revalidate
  <2>2. TaskDrops(t, d) /\ CallDropped(d)
    BY <2>1, DropCallShape DEF IInv, Revalidate
  <2>3. TaskShape' /\ SessionPart' /\ PinsBalance'
    BY <2>1, DropCallKeeps DEF IInv, Revalidate
  <2>4. Typed'
    BY <2>1, <2>2 DEF IInv, Typed, Revalidate, TaskDrops, CallDropped
  <2>5. LocksOwned'
    BY <1>1, <2>1, <2>2, ServiceAssumption
      DEF IInv, LocksOwned, UnderBoardLock, UnderServiceLock, Revalidate, TaskDrops
  <2>6. BoardState'
    BY <2>2 DEF IInv, BoardState, UnderServiceLock, Revalidate, TaskDrops
  <2>7. BodyHasBoard'
    BY <1>1, <2>2 DEF BodyHasBoard, UnderBoardLock, TaskDrops
  <2>8. GenerationBounded'
    BY <2>2, GenerationUndisturbed DEF Starting, BringingUp, Revalidate, TaskDrops, IInv
  <2>9. QED
    BY <2>3, <2>4, <2>5, <2>6, <2>7, <2>8 DEF IInv
<1>4. QED
  BY <1>2, <1>3

---------------------------------------------------------------------------
(* The start of a call: a listed session is found and counted in.           *)
LEMMA CalledShape ==
  ASSUME Typed, NEW d \in Device, device' = [device EXCEPT ![d].calls = @ + 1]
  PROVE  /\ device' \in [Device -> SessionRecord]
         /\ \A e \in Device \ {d} : device'[e] = device[e]
         /\ device'[d].list = device[d].list /\ device'[d].handle = device[d].handle
         /\ device'[d].generation = device[d].generation
         /\ device'[d].calls = device[d].calls + 1
         /\ device'[d].segments = device[d].segments
         /\ device'[d].closing <=> device[d].closing
         /\ device'[d].cleanupDone <=> device[d].cleanupDone
         /\ device'[d].cleanupReady <=> device[d].cleanupReady
         /\ device'[d].pin <=> device[d].pin
<1> DEFINE n == device[d].calls + 1
           s == [device[d] EXCEPT !.calls = n]
<1>1. device[d] \in SessionRecord /\ n \in Int
  BY DEF Typed, SessionRecord
<1>2. device' = [device EXCEPT ![d] = s]
  OBVIOUS
<1>3. /\ s \in SessionRecord /\ s.list = device[d].list /\ s.handle = device[d].handle
      /\ s.generation = device[d].generation /\ s.calls = n /\ s.segments = device[d].segments
      /\ s.closing <=> device[d].closing
      /\ s.cleanupDone <=> device[d].cleanupDone
      /\ s.cleanupReady <=> device[d].cleanupReady
      /\ s.pin <=> device[d].pin
  <2> HIDE DEF n
  <2>1. QED
    BY <1>1 DEF SessionRecord
<1> HIDE DEF s
<1>4. QED
  BY <1>2, <1>3 DEF Typed
CallBegun(t, d, op, handle) ==
  /\ device[d].list = "service" /\ device[d].handle = handle
  /\ device' = [device EXCEPT ![d].calls = @ + 1]
  /\ task' \in [Task -> TaskRecord]
  /\ \A u \in Task \ {t} : task'[u] = task[u]
  /\ task'[t].pc = "lock" /\ task'[t].op = op /\ task'[t].dev = d
  /\ task'[t].handle = handle /\ ~task'[t].cleanup /\ ~task'[t].pin

LEMMA CallShape ==
  ASSUME IInv, NEW t \in Task, Call(t)
  PROVE  /\ UNCHANGED <<lockVars, boardVars, sessionVars, boundVars>>
         /\ task[t].pc = "idle" /\ task[t] = Idle
         /\ \/ device' = device /\ GoesAnew(t, "retire", "close")
            \/ \E op \in {"call", "close"}, handle \in 1 .. nextHandle - 1, d \in Device :
                 CallBegun(t, d, op, handle)
<1> USE DEF lockVars, boardVars, sessionVars, boundVars, At
<1>1. PICK op \in {"call", "close"}, handle \in 1 .. nextHandle - 1 : LockServiceBoard(t, op, handle)
  BY DEF Call
<1>2. handle \in Nat /\ task[t].pc = "idle" /\ task[t] = Idle
  <2>1. handle \in Nat
    BY <1>1 DEF IInv, Typed
  <2>2. task[t].pc = "idle"
    BY <1>1 DEF LockServiceBoard
  <2>3. task[t] = Idle
    BY <2>2, SMTT(60) DEF IInv, TaskShape, Shaped
  <2>4. QED
    BY <2>1, <2>2, <2>3
<1>3. /\ UNCHANGED <<lockVars, boardVars, sessionVars, boundVars>>
      /\ \/ /\ device' = device /\ GoesAnew(t, "retire", "close")
         \/ \E d \in Device : CallBegun(t, d, op, handle)
  <2>1. CASE device' = device /\ op = "close"
             /\ task' = [task EXCEPT ![t] = [Idle EXCEPT !.pc = "retire", !.op = op, !.handle = handle]]
    BY <1>1, <1>2, <2>1, AnewShape DEF IInv, Pc, LockServiceBoard
  <2>2. ASSUME NEW d \in Found(handle), device' = [device EXCEPT ![d].calls = @ + 1],
               NEW then \in {"idle", "retire"},
               task' = [task EXCEPT ![t] = [Idle EXCEPT !.pc = "lock", !.op = op,
                          !.handle = handle, !.dev = d, !.then = then]]
        PROVE  d \in Device /\ CallBegun(t, d, op, handle)
    <3> DEFINE r == [Idle EXCEPT !.pc = "lock", !.op = op, !.handle = handle, !.dev = d, !.then = then]
    <3>1. d \in Device /\ device[d].list = "service" /\ device[d].handle = handle
      BY DEF Found
    <3>2. r \in TaskRecord /\ r.pc = "lock" /\ r.op = op /\ r.dev = d /\ r.handle = handle
          /\ ~r.cleanup /\ ~r.pin
      BY <1>2, <3>1 DEF Idle, TaskRecord, Pc, InCall
    <3>3. task' = [task EXCEPT ![t] = r]
      BY <2>2
    <3> HIDE DEF r
    <3>4. /\ task' \in [Task -> TaskRecord]
          /\ \A u \in Task \ {t} : task'[u] = task[u]
          /\ task'[t] = r
      BY <3>2, <3>3 DEF IInv, Typed
    <3>5. QED
      BY <2>2, <3>1, <3>2, <3>4 DEF CallBegun
  <2>3. UNCHANGED <<lockVars, boardVars, sessionVars, boundVars>>
    BY <1>1 DEF LockServiceBoard
  <2>4. CASE \E d \in Found(handle) :
              /\ device' = [device EXCEPT ![d].calls = @ + 1]
              /\ task' = [task EXCEPT ![t] = [Idle EXCEPT !.pc = "lock", !.op = op,
                   !.handle = handle, !.dev = d, !.then = IF op = "close" THEN "retire" ELSE "idle"]]
    BY <2>2, <2>3, <2>4
  <2>5. CASE /\ op = "close" /\ UNCHANGED device
             /\ task' = [task EXCEPT ![t] = [Idle EXCEPT !.pc = "retire", !.op = op, !.handle = handle]]
    BY <2>1, <2>3, <2>5
  <2>6. QED
    BY <1>1, <2>4, <2>5 DEF LockServiceBoard
<1>4. QED
  BY <1>2, <1>3

LEMMA CallKeeps ==
  ASSUME IInv, NEW t \in Task, Call(t)
  PROVE  IInv'
<1> USE DEF lockVars, boardVars, sessionVars, boundVars, At
<1>2. task[t].pc = "idle" /\ task[t] = Idle
  BY CallShape
<1>3. /\ UNCHANGED <<lockVars, boardVars, sessionVars, boundVars>>
      /\ \/ device' = device /\ GoesAnew(t, "retire", "close")
         \/ \E op \in {"call", "close"}, handle \in 1 .. nextHandle - 1, d \in Device :
              CallBegun(t, d, op, handle)
  BY CallShape
<1>4. CASE device' = device /\ GoesAnew(t, "retire", "close")
  <2>1. SameHolders
    BY <1>2, <1>4, ServiceAssumption DEF SameHolders, Calling, Cleaning, InCall, GoesAnew, Idle
  <2>2. SessionPart'
    BY <1>3, <1>4, <2>1, SessionsUndisturbed DEF IInv, SameSessions, SameSession
  <2>3. SamePinners
    BY <1>2, <1>4 DEF SamePinners, Pinning, GoesAnew, Idle
  <2>4. PinsBalance'
    BY <1>3, <1>4, <2>3, PinsUndisturbed DEF IInv, SamePins
  <2>5. TaskShape'
    <3>1. Shaped(task'[t])
      BY <1>4 DEF Shaped, InCall, GoesAnew
    <3>2. QED
      BY <1>4, <3>1, ShapeKept DEF IInv, GoesAnew
  <2>6. Typed'
    BY <1>3, <1>4 DEF IInv, Typed, GoesAnew
  <2>7. LocksOwned' /\ BoardState'
    BY <1>2, <1>3, <1>4
      DEF IInv, LocksOwned, BoardState, UnderBoardLock, UnderServiceLock, GoesAnew
  <2>8. BodyHasBoard'
    BY <1>2, <1>3, <1>4 DEF IInv, BodyHasBoard, IsUsableDevice, GoesAnew
  <2>9. GenerationBounded'
    BY <1>4, <1>3, GenerationUndisturbed DEF Starting, BringingUp, GoesAnew, IInv
  <2>10. QED
    BY <2>2, <2>4, <2>5, <2>6, <2>7, <2>8, <2>9 DEF IInv
<1>5. ASSUME NEW op \in {"call", "close"}, NEW handle \in 1 .. nextHandle - 1,
             NEW d \in Device, CallBegun(t, d, op, handle)
      PROVE  IInv'
  <2> USE <1>5 DEF CallBegun
  <2>1. /\ device' \in [Device -> SessionRecord]
        /\ \A e \in Device \ {d} : device'[e] = device[e]
        /\ device'[d].list = device[d].list /\ device'[d].handle = device[d].handle
        /\ device'[d].generation = device[d].generation
        /\ device'[d].calls = device[d].calls + 1
        /\ device'[d].closing <=> device[d].closing
        /\ device'[d].cleanupDone <=> device[d].cleanupDone
        /\ device'[d].cleanupReady <=> device[d].cleanupReady
        /\ device'[d].pin <=> device[d].pin
    BY <1>5, CalledShape DEF IInv
  <2>2. ~task[t].pin /\ task[t].dev = NoDevice /\ task[t].dev # d /\ device[d].list = "service"
    BY <1>2, <1>5, ServiceAssumption DEF Idle
  <2>3. Typed'
    BY <1>3, <1>5, <2>1 DEF IInv, Typed
  <2>4. LocksOwned' /\ BoardState'
    BY <1>2, <1>3, <1>5 DEF IInv, LocksOwned, BoardState, UnderBoardLock, UnderServiceLock
  <2>5. TaskShape'
    <3>1. Shaped(task'[t])
      BY <1>5 DEF Shaped, InCall
    <3>2. QED
      BY <1>5, <3>1, ShapeKept DEF IInv
  <2>6. DeviceShape'
    BY <1>3, <2>1, <2>2 DEF IInv, SessionPart, DeviceShape
  <2>7. HandlesDiffer'
    BY <2>1 DEF IInv, SessionPart, HandlesDiffer
  <2>8. CallsCounted'
    <3>1. Callers(d)' = Callers(d) \cup {t} /\ t \notin Callers(d)
      BY <1>2, <1>5 DEF Callers, Calling, InCall
    <3>2. ASSUME NEW e \in Device, e # d
          PROVE  Callers(e)' = Callers(e) /\ device'[e].calls = device[e].calls
      BY <1>2, <1>5, <2>1, <3>2 DEF Callers, Calling, InCall
    <3>3. Cardinality(Callers(d)') = Cardinality(Callers(d)) + 1
      <4> HIDE <1>5 DEF CallBegun
      <4>1. IsFiniteSet(Callers(d))
        BY CallersFinite
      <4>2. QED
        BY <3>1, <4>1, FS_AddElement
    <3>4. device'[d].calls = Cardinality(Callers(d)')
      BY <2>1, <3>3 DEF IInv, SessionPart, CallsCounted
    <3>5. QED
      BY <3>2, <3>4 DEF IInv, SessionPart, CallsCounted
  <2>9. \A u \in Task, e \in Device : Cleaning(u, e)' <=> Cleaning(u, e)
    BY <1>2, <1>5 DEF Cleaning
  <2>10. SessionsHeld'
    <3>1. ASSUME NEW u \in Task, NEW e \in Device, Calling(u, e)'
          PROVE  device'[e].list # "none" /\ device'[e].handle = task'[u].handle
      BY <1>5, <2>1, <2>2, <3>1 DEF IInv, SessionPart, SessionsHeld, Calling
    <3>2. ASSUME NEW u \in Task, NEW e \in Device, Cleaning(u, e)'
          PROVE  /\ device'[e].list = "retired" /\ device'[e].handle = task'[u].handle
                 /\ device'[e].cleanupDone /\ ~device'[e].cleanupReady
      BY <1>2, <2>9, <3>2, <1>5, <2>1 DEF Cleaning, IInv, SessionPart, SessionsHeld
    <3>3. QED
      BY <3>1, <3>2 DEF SessionsHeld
  <2>11. CleanedOnce'
    BY <2>1, <2>9 DEF IInv, SessionPart, CleanedOnce
  <2>12. SessionsCounted'
    <3>1. Listed' = Listed
      BY <2>1 DEF Listed
    <3>2. QED
      BY <1>3, <3>1 DEF IInv, SessionPart, SessionsCounted, Listed
  <2>13. PinsBalance'
    BY <1>2, <1>5, <2>2, <2>1, <1>3, PinsUndisturbed DEF SamePinners, Pinning, SamePins, IInv
  <2>14. BodyHasBoard'
    <3>1. \A e \in Device : device'[e].generation = device[e].generation
      BY <2>1
    <3>2. ASSUME NEW u \in Task, task'[u].pc = "body", task'[u].op # "draw"
          PROVE  task[u].pc = "body" /\ task[u].op # "draw"
                 /\ task'[u].dev = task[u].dev /\ task[u].dev \in Device
      BY <1>5, <3>2 DEF IInv, TaskShape, Shaped, InCall
    <3>3. QED
      BY <1>3, <3>1, <3>2 DEF IInv, BodyHasBoard, IsUsableDevice
  <2>15. GenerationBounded'
    BY <1>5, <1>3, GenerationUndisturbed DEF Starting, BringingUp, IInv
  <2>16. QED
    BY <2>3, <2>4, <2>5, <2>6, <2>7, <2>8, <2>10, <2>11, <2>12, <2>13, <2>14, <2>15
    DEF IInv, SessionPart
<1>6. QED
  BY <1>3, <1>4, <1>5

---------------------------------------------------------------------------
(* Radeon3DClose: the session is retired, and cleaned at once when unused.  *)
RetiredRecord(r, kept, none) ==
  [r EXCEPT !.list = "retired", !.closing = TRUE, !.pin = kept, !.cleanupDone = none]

LEMMA RetiredRecordShape ==
  ASSUME NEW r \in SessionRecord, NEW kept \in BOOLEAN, NEW none \in BOOLEAN,
         NEW s, s = RetiredRecord(r, kept, none)
  PROVE  /\ s \in SessionRecord /\ s.list = "retired" /\ s.handle = r.handle
         /\ s.generation = r.generation /\ s.calls = r.calls /\ s.closing
         /\ s.segments = r.segments
         /\ s.cleanupReady <=> r.cleanupReady
         /\ s.pin <=> kept
         /\ s.cleanupDone <=> none
BY DEF SessionRecord, RetiredRecord
Unused(d) == device[d].calls = 0
SessionRetired(t, d) ==
  /\ device[d].list = "service" /\ device[d].handle = task[t].handle
  /\ device' \in [Device -> SessionRecord]
  /\ \A e \in Device \ {d} : device'[e] = device[e]
  /\ device'[d].list = "retired" /\ device'[d].handle = device[d].handle
  /\ device'[d].calls = device[d].calls /\ device'[d].closing
  /\ device'[d].generation = device[d].generation
  /\ device'[d].segments = device[d].segments
  /\ ~device'[d].cleanupReady
  /\ device'[d].pin <=> ~Unused(d)
  /\ device'[d].cleanupDone <=> Unused(d)
  /\ task' \in [Task -> TaskRecord]
  /\ \A u \in Task \ {t} : task'[u] = task[u]
  /\ task'[t].pc = "cleanup" /\ task'[t].op = task[t].op /\ task'[t].dev = d
  /\ task'[t].handle = task[t].handle
  /\ task'[t].pin <=> Unused(d)
  /\ task'[t].cleanup <=> Unused(d)

LEMMA RetireShape ==
  ASSUME IInv, NEW t \in Task, Retire(t)
  PROVE  \/ GoesIdle(t) /\ device' = device
         \/ \E d \in Device : SessionRetired(t, d)
<1>1. ASSUME NEW d \in Found(task[t].handle),
             device' = [device EXCEPT ![d].list = "retired", ![d].closing = TRUE,
                          ![d].pin = @ /\ ~Unused(d), ![d].cleanupDone = Unused(d)],
             task' = [task EXCEPT ![t].pc = "cleanup", ![t].dev = d,
                          ![t].pin = Unused(d) /\ device[d].pin, ![t].cleanup = Unused(d),
                          ![t].then = "idle"]
      PROVE  d \in Device /\ SessionRetired(t, d)
  <2> DEFINE none == Unused(d)
             kept == device[d].pin /\ ~none
             s == RetiredRecord(device[d], kept, none)
             r == [task[t] EXCEPT !.pc = "cleanup", !.dev = d, !.pin = none /\ device[d].pin,
                                  !.cleanup = none, !.then = "idle"]
  <2>1. /\ d \in Device /\ device[d].list = "service" /\ device[d].handle = task[t].handle
    BY DEF Found
  <2>2. device[d].pin /\ ~device[d].cleanupDone /\ ~device[d].cleanupReady
    BY <2>1 DEF IInv, SessionPart, DeviceShape
  <2>3. kept \in BOOLEAN /\ none \in BOOLEAN /\ (kept <=> ~none)
    BY <2>2 DEF Unused
  <2>4. device' = [device EXCEPT ![d] = s] /\ task' = [task EXCEPT ![t] = r]
    BY <1>1 DEF RetiredRecord
  <2>5. r \in TaskRecord /\ r.pc = "cleanup" /\ r.op = task[t].op /\ r.dev = d
        /\ r.handle = task[t].handle
        /\ (r.pin <=> none)
        /\ (r.cleanup <=> none)
    <3>1. task[t] \in TaskRecord
      BY DEF IInv, Typed
    <3> HIDE DEF none, s, kept
    <3>2. QED
      BY <2>1, <2>2, <2>3, <3>1, ZenonT(60) DEF TaskRecord, Pc
  <2>6. /\ s \in SessionRecord /\ s.list = "retired" /\ s.handle = device[d].handle
        /\ s.generation = device[d].generation /\ s.calls = device[d].calls /\ s.closing
        /\ s.segments = device[d].segments
        /\ s.cleanupReady <=> device[d].cleanupReady
        /\ s.pin <=> kept
        /\ s.cleanupDone <=> none
    <3>1. device[d] \in SessionRecord
      BY <2>1 DEF IInv, Typed
    <3>2. s = RetiredRecord(device[d], kept, none)
      OBVIOUS
    <3> HIDE DEF s, r, kept, none
    <3>3. QED
      BY <2>3, <3>1, <3>2, RetiredRecordShape
  <2> HIDE DEF s, r, kept, none
  <2>7. /\ device' \in [Device -> SessionRecord] /\ device'[d] = s
        /\ \A e \in Device \ {d} : device'[e] = device[e]
    BY <2>1, <2>4, <2>6 DEF IInv, Typed
  <2>8. /\ task' \in [Task -> TaskRecord] /\ task'[t] = r
        /\ \A u \in Task \ {t} : task'[u] = task[u]
    BY <2>4, <2>5 DEF IInv, Typed
  <2>9. none <=> Unused(d)
    BY DEF none
  <2>10. QED
    BY <2>1, <2>2, <2>3, <2>5, <2>6, <2>7, <2>8, <2>9 DEF SessionRetired
<1>2. ASSUME task' = [task EXCEPT ![t] = Idle], UNCHANGED device
      PROVE  GoesIdle(t) /\ device' = device
  BY <1>2, IdleShape DEF IInv
<1>3. QED
  BY <1>1, <1>2 DEF Retire, Unused

LEMMA RetireKeeps ==
  ASSUME IInv, NEW t \in Task, Retire(t)
  PROVE  IInv'
<1> USE DEF lockVars, boardVars, sessionVars, boundVars, At
<1>0. /\ UNCHANGED <<lockVars, boardVars, sessionVars, boundVars>>
      /\ task[t].pc = "retire" /\ ~task[t].pin /\ task[t].op # "draw"
  BY DEF IInv, TaskShape, Shaped, Retire
<1>1. CASE GoesIdle(t) /\ device' = device
  <2>1. SameHolders
    BY <1>0, <1>1, ServiceAssumption DEF SameHolders, Calling, Cleaning, InCall, GoesIdle
  <2>2. SessionPart'
    BY <1>0, <1>1, <2>1, SessionsUndisturbed DEF IInv, SameSessions, SameSession
  <2>3. SamePinners
    BY <1>0, <1>1 DEF SamePinners, Pinning, GoesIdle
  <2>4. PinsBalance'
    BY <1>0, <1>1, <2>3, PinsUndisturbed DEF IInv, SamePins
  <2>5. TaskShape'
    BY <1>1, ShapeKept DEF Shaped, InCall, GoesIdle, IInv
  <2>6. Typed'
    BY <1>0, <1>1 DEF IInv, Typed, GoesIdle
  <2>7. LocksOwned' /\ BoardState'
    BY <1>0, <1>1 DEF IInv, LocksOwned, BoardState, UnderBoardLock, UnderServiceLock, GoesIdle
  <2>8. BodyHasBoard'
    BY <1>0, <1>1 DEF IInv, BodyHasBoard, IsUsableDevice, GoesIdle
  <2>9. GenerationBounded'
    BY <1>1, <1>0, GenerationUndisturbed DEF Starting, BringingUp, GoesIdle, IInv
  <2>10. QED
    BY <2>2, <2>4, <2>5, <2>6, <2>7, <2>8, <2>9 DEF IInv
<1>2. ASSUME NEW d \in Device, SessionRetired(t, d)
      PROVE  IInv'
  <2> USE <1>2 DEF SessionRetired
  <2>1. /\ device[d].list = "service" /\ device[d].pin /\ ~device[d].closing
        /\ ~device[d].cleanupDone /\ ~device[d].cleanupReady
    BY DEF IInv, SessionPart, DeviceShape
  <2>2. Typed'
    BY <1>0 DEF IInv, Typed
  <2>3. LocksOwned' /\ BoardState'
    BY <1>0 DEF IInv, LocksOwned, BoardState, UnderBoardLock, UnderServiceLock
  <2>4. TaskShape'
    <3>1. Shaped(task'[t])
      BY <1>0 DEF Shaped, InCall
    <3>2. QED
      BY <3>1, ShapeKept DEF IInv
  <2>5. DeviceShape'
    BY <2>1, <1>0 DEF Unused, IInv, SessionPart, DeviceShape
  <2>6. HandlesDiffer'
    BY <2>1 DEF IInv, SessionPart, HandlesDiffer
  <2>7. \A u \in Task, e \in Device : Calling(u, e)' <=> Calling(u, e)
    BY <1>0 DEF Calling, InCall
  <2>8. CallsCounted'
    <3>1. ASSUME NEW e \in Device
          PROVE  Callers(e)' = Callers(e) /\ device'[e].calls = device[e].calls
      BY <2>7 DEF Callers
    <3>2. QED
      BY <3>1 DEF IInv, SessionPart, CallsCounted
  <2>9. \A u \in Task : ~Cleaning(u, d)
    BY <2>1 DEF IInv, SessionPart, SessionsHeld
  <2>10. \A u \in Task, e \in Device : u # t \/ e # d => (Cleaning(u, e)' <=> Cleaning(u, e))
    BY <1>0 DEF Cleaning
  <2>11. Cleaning(t, d)' <=> Unused(d)
    BY DEF Cleaning
  <2>12. SessionsHeld'
    <3>1. ASSUME NEW u \in Task, NEW e \in Device, Calling(u, e)'
          PROVE  device'[e].list # "none" /\ device'[e].handle = task'[u].handle
      BY <1>0, <2>7, <3>1 DEF Calling, InCall, IInv, SessionPart, SessionsHeld
    <3>2. ASSUME NEW u \in Task, NEW e \in Device, Cleaning(u, e)'
          PROVE  /\ device'[e].list = "retired" /\ device'[e].handle = task'[u].handle
                 /\ device'[e].cleanupDone /\ ~device'[e].cleanupReady
      <4>1. CASE u = t /\ e = d
        BY <2>11, <3>2, <4>1
      <4>2. CASE u # t \/ e # d
        BY <1>0, <2>9, <2>10, <3>2, <4>2 DEF Cleaning, IInv, SessionPart, SessionsHeld
      <4>3. QED
        BY <4>1, <4>2
    <3>3. QED
      BY <3>1, <3>2 DEF SessionsHeld
  <2>13. CleanedOnce'
    <3>1. \A u, v \in Task, e \in Device : Cleaning(u, e)' /\ Cleaning(v, e)' => u = v
      BY <2>9, <2>10 DEF IInv, SessionPart, CleanedOnce
    <3>2. ASSUME NEW e \in Device, device'[e].cleanupDone, ~device'[e].cleanupReady
          PROVE  \E u \in Task : Cleaning(u, e)'
      BY <2>10, <2>11, <3>2 DEF IInv, SessionPart, CleanedOnce
    <3>3. QED
      BY <3>1, <3>2 DEF CleanedOnce
  <2>14. SessionsCounted'
    <3>1. Listed' = Listed
      BY <2>1 DEF Listed
    <3>2. QED
      BY <1>0, <3>1 DEF IInv, SessionPart, SessionsCounted, Listed
  <2>15. PinsBalance'
    <3>1. CASE Unused(d)
      BY <1>0, <3>1, <2>1, PinHandedOver DEF TaskPins, Pinning, DevicePins, IInv
    <3>2. CASE ~Unused(d)
      BY <1>0, <3>2, <2>1, PinsUndisturbed DEF SamePinners, Pinning, SamePins, IInv
    <3>3. QED
      BY <3>1, <3>2
  <2>16. BodyHasBoard'
    <3>1. \A e \in Device : device'[e].generation = device[e].generation
      OBVIOUS
    <3>2. ASSUME NEW u \in Task, task'[u].pc = "body", task'[u].op # "draw"
          PROVE  task[u].pc = "body" /\ task[u].op # "draw"
                 /\ task'[u].dev = task[u].dev /\ task[u].dev \in Device
      BY <3>2 DEF IInv, TaskShape, Shaped, InCall
    <3>3. QED
      BY <1>0, <3>1, <3>2 DEF IInv, BodyHasBoard, IsUsableDevice
  <2>17. GenerationBounded'
    BY <1>0, GenerationUndisturbed DEF Starting, BringingUp, IInv
  <2>18. QED
    BY <2>2, <2>3, <2>4, <2>5, <2>6, <2>8, <2>12, <2>13, <2>14, <2>15, <2>16, <2>17
    DEF IInv, SessionPart
<1>3. QED
  BY <1>1, <1>2, RetireShape

---------------------------------------------------------------------------
(* The end of a cleanup: the session may be reaped.                         *)
LEMMA ReadyShape ==
  ASSUME Typed, NEW d \in Device, device' = [device EXCEPT ![d].cleanupReady = TRUE]
  PROVE  /\ device' \in [Device -> SessionRecord]
         /\ \A e \in Device \ {d} : device'[e] = device[e]
         /\ device'[d].list = device[d].list /\ device'[d].handle = device[d].handle
         /\ device'[d].generation = device[d].generation
         /\ device'[d].calls = device[d].calls
         /\ device'[d].closing <=> device[d].closing
         /\ device'[d].cleanupDone <=> device[d].cleanupDone
         /\ device'[d].cleanupReady
         /\ device'[d].pin <=> device[d].pin
<1> DEFINE s == [device[d] EXCEPT !.cleanupReady = TRUE]
<1>1. device[d] \in SessionRecord
  BY DEF Typed
<1>2. device' = [device EXCEPT ![d] = s]
  OBVIOUS
<1>3. /\ s \in SessionRecord /\ s.list = device[d].list /\ s.handle = device[d].handle
      /\ s.generation = device[d].generation /\ s.calls = device[d].calls
      /\ s.closing <=> device[d].closing
      /\ s.cleanupDone <=> device[d].cleanupDone
      /\ s.cleanupReady
      /\ s.pin <=> device[d].pin
  BY <1>1 DEF SessionRecord
<1> HIDE DEF s
<1>4. QED
  BY <1>2, <1>3 DEF Typed

LEMMA CleanupReadyKeeps ==
  ASSUME IInv, NEW t \in Task, CleanupReady(t)
  PROVE  IInv'
<1> USE DEF lockVars, boardVars, sessionVars, boundVars, At
<1> PICK d : d = task[t].dev
  OBVIOUS
<1>1. GoesTo(t, "unpin")
  BY GotoShape DEF IInv, CleanupReady, Pc
<1>2. /\ d \in Device /\ Cleaning(t, d) /\ task[t].pc = "ready" /\ task[t].dev = d
  BY DEF IInv, TaskShape, Shaped, Cleaning, CleanupReady
<1>3. /\ device[d].list = "retired" /\ device[d].cleanupDone /\ ~device[d].cleanupReady
      /\ \A u \in Task : u # t => ~Cleaning(u, d)
  BY <1>2, SMTT(60) DEF IInv, SessionPart, SessionsHeld, CleanedOnce
<1>4. /\ device' \in [Device -> SessionRecord]
      /\ \A e \in Device \ {d} : device'[e] = device[e]
      /\ device'[d].list = device[d].list /\ device'[d].handle = device[d].handle
      /\ device'[d].generation = device[d].generation
      /\ device'[d].calls = device[d].calls
      /\ device'[d].closing <=> device[d].closing
      /\ device'[d].cleanupDone <=> device[d].cleanupDone
      /\ device'[d].cleanupReady
      /\ device'[d].pin <=> device[d].pin
  BY <1>2, ReadyShape DEF IInv, CleanupReady
<1>5. Typed'
  BY <1>1, <1>4 DEF IInv, Typed, CleanupReady, GoesTo
<1>6. LocksOwned' /\ BoardState'
  BY <1>1 DEF IInv, LocksOwned, BoardState, UnderBoardLock, UnderServiceLock, CleanupReady,
       GoesTo
<1>7. TaskShape'
  BY <1>1, ShapeKept DEF Shaped, InCall, CleanupReady, GoesTo, IInv
<1>8. DeviceShape'
  BY <1>3, <1>4 DEF IInv, SessionPart, DeviceShape, CleanupReady
<1>9. HandlesDiffer'
  BY <1>4 DEF IInv, SessionPart, HandlesDiffer
<1>10. \A u \in Task, e \in Device : Calling(u, e)' <=> Calling(u, e)
  BY <1>1, <1>2 DEF Calling, InCall, GoesTo
<1>11. CallsCounted'
  <2>1. ASSUME NEW e \in Device
        PROVE  Callers(e)' = Callers(e) /\ device'[e].calls = device[e].calls
    BY <1>4, <1>10 DEF Callers
  <2>2. QED
    BY <2>1 DEF IInv, SessionPart, CallsCounted
<1>12. \A u \in Task, e \in Device : Cleaning(u, e)' <=> u # t /\ Cleaning(u, e)
  BY <1>1, <1>2 DEF Cleaning, GoesTo
<1>13. SessionsHeld'
  <2>1. \A u \in Task : task'[u].handle = task[u].handle
    BY <1>1 DEF GoesTo
  <2>2. ASSUME NEW u \in Task, NEW e \in Device
        PROVE  Cleaning(u, e)' =>
                 /\ device'[e].list = "retired" /\ device'[e].handle = task'[u].handle
                 /\ device'[e].cleanupDone /\ ~device'[e].cleanupReady
    BY <1>3, <1>4, <1>12, <2>1 DEF IInv, SessionPart, SessionsHeld
  <2>3. ASSUME NEW u \in Task, NEW e \in Device
        PROVE  Calling(u, e)' => device'[e].list # "none" /\ device'[e].handle = task'[u].handle
    BY <1>4, <1>10, <2>1 DEF IInv, SessionPart, SessionsHeld
  <2>4. QED
    BY <2>2, <2>3 DEF SessionsHeld
<1>14. CleanedOnce'
  <2>1. \A u, v \in Task, e \in Device : Cleaning(u, e)' /\ Cleaning(v, e)' => u = v
    BY <1>12 DEF IInv, SessionPart, CleanedOnce
  <2>2. ASSUME NEW e \in Device, device'[e].cleanupDone, ~device'[e].cleanupReady
        PROVE  \E u \in Task : Cleaning(u, e)'
    <3>1. e # d /\ device'[e] = device[e]
      BY <1>4, <2>2
    <3>2. PICK u \in Task : Cleaning(u, e)
      BY <2>2, <3>1 DEF IInv, SessionPart, CleanedOnce
    <3>3. u # t
      BY <1>2, <3>1, <3>2 DEF Cleaning
    <3>4. QED
      BY <1>12, <3>2, <3>3
  <2>3. QED
    BY <2>1, <2>2 DEF CleanedOnce
<1>15. SessionsCounted'
  <2>1. Listed' = Listed \ {d} /\ d \in Listed
    BY <1>2, <1>3, <1>4 DEF Listed
  <2>2. IsFiniteSet(Listed)
    BY ServiceAssumption, FS_Subset DEF Listed
  <2>3. /\ Cardinality(Listed') = Cardinality(Listed) - 1
        /\ Cardinality(Listed) \in Nat /\ Cardinality(Listed) # 0
    BY <2>1, <2>2, FS_RemoveElement, FS_CardinalityType, FS_EmptySet
  <2>4. sessions = Cardinality(Listed)
    BY DEF IInv, SessionPart, SessionsCounted, Listed
  <2>5. sessions' = sessions - 1
    BY <2>3, <2>4 DEF CleanupReady
  <2>6. QED
    BY <2>3, <2>4, <2>5 DEF SessionsCounted, Listed
<1>16. PinsBalance'
  BY <1>1, <1>2, <1>4, PinsUndisturbed DEF SamePinners, Pinning, GoesTo, SamePins, IInv, CleanupReady
<1>17. BodyHasBoard'
  <2>1. \A e \in Device : device'[e].generation = device[e].generation
    BY <1>4
  <2>2. ASSUME NEW u \in Task, task'[u].pc = "body", task'[u].op # "draw"
        PROVE  task[u].pc = "body" /\ task[u].op # "draw"
                 /\ task'[u].dev = task[u].dev /\ task[u].dev \in Device
    BY <1>1, <2>2 DEF IInv, TaskShape, Shaped, InCall, GoesTo
  <2>3. QED
    BY <2>1, <2>2 DEF IInv, BodyHasBoard, IsUsableDevice, CleanupReady
<1>18. GenerationBounded'
  <2>1. Starting' \subseteq Starting
    BY <1>1 DEF Starting, BringingUp, GoesTo
  <2>2. QED
    BY <2>1, GenerationUndisturbed DEF IInv, CleanupReady
<1>19. QED
  BY <1>5, <1>6, <1>7, <1>8, <1>9, <1>11, <1>13, <1>14, <1>15, <1>16, <1>17, <1>18
  DEF IInv, SessionPart

---------------------------------------------------------------------------
(* Radeon3DOpen: the reapable sessions are freed, and one may be opened.    *)
(* What is left of the sessions then, where d is the one opened.            *)
SessionOpened(d) ==
  /\ device[d].list = "none"
  /\ \A e \in Device \ (Reaped \cup {d}) : device'[e] = device[e]
  /\ \A e \in Reaped : device'[e] = NoSession
  /\ device'[d].list = "service" /\ device'[d].handle = nextHandle
  /\ device'[d].generation = generation /\ device'[d].calls = 0
  /\ ~device'[d].closing /\ ~device'[d].cleanupDone /\ ~device'[d].cleanupReady
  /\ device'[d].pin /\ device'[d].segments = {}
NoneOpened ==
  /\ \A e \in Device \ Reaped : device'[e] = device[e]
  /\ \A e \in Reaped : device'[e] = NoSession
Fresh(h, g) ==
  [NoSession EXCEPT !.list = "service", !.handle = h, !.generation = g, !.pin = TRUE]

LEMMA FreshRecord ==
  ASSUME NEW h \in Nat, NEW g \in Nat, NEW s, s = Fresh(h, g)
  PROVE  /\ s \in SessionRecord
         /\ s.list = "service" /\ s.handle = h /\ s.generation = g /\ s.calls = 0
         /\ ~s.closing /\ ~s.cleanupDone /\ ~s.cleanupReady /\ s.pin /\ s.segments = {}
<1>1. s = [list |-> "service", handle |-> h, generation |-> g, calls |-> 0,
           closing |-> FALSE, cleanupDone |-> FALSE, cleanupReady |-> FALSE,
           pin |-> TRUE, segments |-> {}]
  BY DEF Fresh, NoSession
<1>2. QED
  BY <1>1 DEF SessionRecord

LEMMA OpenShape ==
  ASSUME IInv, NEW t \in Task, OpenSession(t)
  PROVE  /\ GoesIdle(t) /\ device' \in [Device -> SessionRecord]
         /\ \/ /\ \E d \in Device : SessionOpened(d)
               /\ nextHandle' = nextHandle + 1 /\ sessions' = sessions + 1 /\ pins' = pins
            \/ /\ NoneOpened
               /\ nextHandle' = nextHandle /\ sessions' = sessions /\ pins' = pins - 1
<1> DEFINE reaped == [d \in Device |-> IF d \in Reaped THEN NoSession ELSE device[d]]
           fresh == Fresh(nextHandle, generation)
<1>1. GoesIdle(t)
  BY IdleShape DEF IInv, OpenSession
<1>2. NoSession \in SessionRecord
  BY DEF NoSession, SessionRecord
<1>3. reaped \in [Device -> SessionRecord]
  BY <1>2 DEF IInv, Typed
<1>4. /\ fresh \in SessionRecord
      /\ fresh.list = "service" /\ fresh.handle = nextHandle
      /\ fresh.generation = generation /\ fresh.calls = 0
      /\ ~fresh.closing /\ ~fresh.cleanupDone /\ ~fresh.cleanupReady
      /\ fresh.pin /\ fresh.segments = {}
  <2>1. nextHandle \in Nat /\ generation \in Nat
    BY DEF IInv, Typed
  <2>2. fresh = Fresh(nextHandle, generation)
    OBVIOUS
  <2> HIDE DEF fresh, reaped
  <2>3. QED
    BY <2>1, <2>2, FreshRecord
<1>5. /\ \A e \in Device \ Reaped : reaped[e] = device[e]
      /\ \A e \in Reaped : e \in Device /\ reaped[e] = NoSession /\ device[e].list = "retired"
  BY DEF Reaped
<1>6. \/ /\ \E d \in Device : device[d].list = "none" /\ device' = [reaped EXCEPT ![d] = fresh]
         /\ nextHandle' = nextHandle + 1 /\ sessions' = sessions + 1 /\ pins' = pins
      \/ /\ device' = reaped
         /\ nextHandle' = nextHandle /\ sessions' = sessions /\ pins' = pins - 1
  BY DEF OpenSession, Fresh
<1> HIDE DEF reaped, fresh
<1>7. ASSUME NEW d \in Device, device[d].list = "none", device' = [reaped EXCEPT ![d] = fresh]
      PROVE  device' \in [Device -> SessionRecord] /\ SessionOpened(d)
  <2>1. /\ device' \in [Device -> SessionRecord] /\ device'[d] = fresh
        /\ \A e \in Device \ {d} : device'[e] = reaped[e]
    BY <1>3, <1>4, <1>7
  <2>2. d \notin Reaped
    BY <1>5, <1>7
  <2>3. \A e \in Device \ (Reaped \cup {d}) : device'[e] = device[e]
    BY <1>5, <2>1
  <2>4. \A e \in Reaped : device'[e] = NoSession
    BY <1>5, <2>1, <2>2
  <2>5. QED
    BY <1>4, <1>7, <2>1, <2>3, <2>4 DEF SessionOpened
<1>8. ASSUME device' = reaped PROVE device' \in [Device -> SessionRecord] /\ NoneOpened
  BY <1>3, <1>5, <1>8 DEF NoneOpened
<1>9. QED
  BY <1>1, <1>6, <1>7, <1>8

(* Nobody holds a session that can be reaped: its memory may be freed.      *)
LEMMA ReapedFacts ==
  ASSUME SessionPart, Typed, NEW e \in Reaped
  PROVE  /\ e \in Device /\ device[e].list = "retired" /\ device[e].cleanupReady
         /\ device[e].cleanupDone /\ ~device[e].pin /\ device[e].calls = 0 /\ Callers(e) = {}
         /\ \A u \in Task : ~Calling(u, e) /\ ~Cleaning(u, e)
<1>1. e \in Device /\ device[e].list = "retired" /\ device[e].cleanupReady
  BY DEF Reaped
<1>2. device[e].cleanupDone /\ ~device[e].pin /\ device[e].calls = 0
  BY <1>1 DEF SessionPart, DeviceShape
<1>3. Callers(e) = {}
  BY <1>1, <1>2, CallsAreNatural
<1>4. \A u \in Task : ~Calling(u, e) /\ ~Cleaning(u, e)
  BY <1>1, <1>3 DEF Callers, SessionPart, SessionsHeld
<1>5. QED
  BY <1>1, <1>2, <1>3, <1>4

(* Nobody points to free memory.                                            *)
LEMMA NothingHolds ==
  ASSUME SessionPart, NEW d \in Device, device[d].list = "none"
  PROVE  /\ device[d] = NoSession /\ Callers(d) = {}
         /\ \A u \in Task : ~Calling(u, d) /\ ~Cleaning(u, d)
<1>1. device[d] = NoSession
  BY DEF SessionPart, DeviceShape
<1>2. \A u \in Task : ~Calling(u, d) /\ ~Cleaning(u, d)
  BY DEF SessionPart, SessionsHeld
<1>3. QED
  BY <1>1, <1>2 DEF Callers

LEMMA OpenSessionKeeps ==
  ASSUME IInv, NEW t \in Task, OpenSession(t)
  PROVE  IInv'
<1> USE DEF lockVars, boardVars, sessionVars, boundVars, At
<1>1. GoesIdle(t) /\ device' \in [Device -> SessionRecord]
  BY OpenShape
<1>2. /\ UNCHANGED <<lockVars, boardVars, mask, attaches>>
      /\ task[t].pc = "open" /\ ~task[t].pin /\ task[t].op # "draw"
  BY DEF IInv, TaskShape, Shaped, OpenSession
<1>3. \A u \in Task, e \in Device : /\ Calling(u, e)' <=> Calling(u, e)
                                    /\ Cleaning(u, e)' <=> Cleaning(u, e)
                                    /\ Calling(u, e) \/ Cleaning(u, e) => task'[u].handle = task[u].handle
  BY <1>1, <1>2, ServiceAssumption DEF Calling, Cleaning, InCall, GoesIdle
<1>4. \A e \in Device : Callers(e)' = Callers(e)
  BY <1>3 DEF Callers
<1>5. TaskPins' = TaskPins \ {t} /\ t \in TaskPins
  BY <1>1, <1>2 DEF TaskPins, Pinning, GoesIdle
<1>6. LocksOwned' /\ BoardState'
  BY <1>1, <1>2 DEF IInv, LocksOwned, BoardState, UnderBoardLock, UnderServiceLock, GoesIdle
<1>7. TaskShape'
  BY <1>1, ShapeKept DEF Shaped, InCall, GoesIdle, IInv
<1>8. GenerationBounded'
  <2>1. Starting' \subseteq Starting
    BY <1>1 DEF Starting, BringingUp, GoesIdle
  <2>2. QED
    BY <1>2, <2>1, GenerationUndisturbed DEF IInv
<1>9. \A e \in Reaped : /\ e \in Device /\ device[e].list = "retired" /\ device[e].cleanupReady
                        /\ device[e].cleanupDone /\ ~device[e].pin /\ device[e].calls = 0
                        /\ \A u \in Task : ~Calling(u, e) /\ ~Cleaning(u, e)
  BY ReapedFacts DEF IInv
<1>10. ASSUME NEW d \in Device, SessionOpened(d),
              nextHandle' = nextHandle + 1, sessions' = sessions + 1, pins' = pins
       PROVE  SessionPart' /\ PinsBalance' /\ BodyHasBoard' /\ Typed'
  <2>1. /\ device[d] = NoSession /\ Callers(d) = {} /\ d \notin Reaped
        /\ \A u \in Task : ~Calling(u, d) /\ ~Cleaning(u, d)
    BY <1>9, <1>10, NothingHolds DEF IInv, SessionOpened
  <2>2. ASSUME NEW e \in Device
        PROVE  \/ e = d
               \/ e # d /\ e \in Reaped /\ device'[e] = NoSession
               \/ e # d /\ e \notin Reaped /\ device'[e] = device[e]
    BY <1>10 DEF SessionOpened
  <2>3. /\ device'[d].list = "service" /\ device'[d].handle = nextHandle
        /\ device'[d].generation = generation /\ device'[d].calls = 0
        /\ ~device'[d].closing /\ ~device'[d].cleanupDone /\ ~device'[d].cleanupReady
        /\ device'[d].pin
    BY <1>10 DEF SessionOpened
  <2>4. /\ NoSession.list = "none" /\ NoSession.calls = 0
        /\ ~NoSession.cleanupReady /\ ~NoSession.cleanupDone /\ ~NoSession.pin
    BY DEF NoSession
  <2>5. Typed'
    BY <1>1, <1>2, <1>10 DEF IInv, Typed, GoesIdle
  <2>6. DeviceShape'
    <3>1. nextHandle \in Nat \ {0}
      BY DEF IInv, Typed
    <3>2. ASSUME NEW e \in Device, e # d, e \notin Reaped
          PROVE  /\ device'[e] = device[e]
                 /\ device[e].list # "none" => device[e].handle \in 1 .. nextHandle
      BY <2>2, <3>1, <3>2 DEF IInv, SessionPart, DeviceShape
    <3>3. QED
      BY <1>10, <2>2, <2>3, <2>4, <3>1, <3>2 DEF IInv, SessionPart, DeviceShape
  <2>7. HandlesDiffer'
    <3>1. ASSUME NEW e \in Device, e # d, device'[e].list # "none"
          PROVE  /\ device[e].list # "none" /\ device'[e].handle = device[e].handle
                 /\ device'[e].handle # nextHandle
      BY <2>2, <2>4, <3>1 DEF IInv, SessionPart, DeviceShape, Typed
    <3>2. QED
      BY <2>3, <3>1 DEF IInv, SessionPart, HandlesDiffer
  <2>8. CallsCounted'
    <3>1. Cardinality({}) = 0
      BY FS_EmptySet
    <3>2. ASSUME NEW e \in Device
          PROVE  device'[e].calls = Cardinality(Callers(e))
      <4>1. CASE e = d
        BY <2>1, <2>3, <3>1, <4>1
      <4>2. CASE e \in Reaped
        BY <2>1, <2>2, <4>2, ReapedFacts, <2>4, <3>1 DEF IInv
      <4>3. CASE e # d /\ e \notin Reaped
        BY <2>2, <4>3 DEF IInv, SessionPart, CallsCounted
      <4>4. QED
        BY <4>1, <4>2, <4>3
    <3>3. QED
      BY <1>4, <3>2 DEF CallsCounted
  <2>9. SessionsHeld'
    <3>1. ASSUME NEW u \in Task, NEW e \in Device, Calling(u, e) \/ Cleaning(u, e)
          PROVE  device'[e] = device[e] /\ task'[u].handle = task[u].handle
      BY <1>3, <1>9, <2>1, <2>2, <3>1
    <3>2. QED
      BY <1>3, <3>1 DEF IInv, SessionPart, SessionsHeld
  <2>10. CleanedOnce'
    <3>1. ASSUME NEW e \in Device, device'[e].cleanupDone, ~device'[e].cleanupReady
          PROVE  \E u \in Task : Cleaning(u, e)'
      BY <2>2, <2>3, <2>4, <3>1, <1>3 DEF IInv, SessionPart, CleanedOnce
    <3>2. QED
      BY <1>3, <3>1 DEF IInv, SessionPart, CleanedOnce
  <2>11. SessionsCounted'
    <3>1. Listed' = Listed \cup {d} /\ d \notin Listed
      BY <1>9, <1>10, <2>1, <2>2, <2>3, <2>4 DEF Listed
    <3>2. IsFiniteSet(Listed)
      BY ServiceAssumption, FS_Subset DEF Listed
    <3>3. Cardinality(Listed') = Cardinality(Listed) + 1
      BY <3>1, <3>2, FS_AddElement
    <3>4. QED
      BY <1>10, <3>3 DEF IInv, SessionPart, SessionsCounted, Listed
  <2>12. PinsBalance'
    <3>1. DevicePins' = DevicePins \cup {d} /\ d \notin DevicePins
      BY <1>9, <2>1, <2>2, <2>3, <2>4 DEF DevicePins
    <3>2. QED
      BY <1>5, <1>10, <3>1, PinStored DEF IInv
  <2>13. BodyHasBoard'
    <3>1. ASSUME NEW u \in Task, task'[u].pc = "body", task'[u].op # "draw"
          PROVE  /\ task[u].pc = "body" /\ task[u].op # "draw" /\ task'[u].dev = task[u].dev
                 /\ device'[task[u].dev] = device[task[u].dev]
      BY <1>1, <3>1, <1>9, <2>1, <2>2 DEF GoesIdle, IInv, TaskShape, Shaped, InCall, Calling
    <3>2. QED
      BY <1>2, <3>1 DEF IInv, BodyHasBoard, IsUsableDevice
  <2>14. QED
    BY <2>5, <2>6, <2>7, <2>8, <2>9, <2>10, <2>11, <2>12, <2>13 DEF SessionPart
<1>11. ASSUME NoneOpened, nextHandle' = nextHandle, sessions' = sessions, pins' = pins - 1
       PROVE  SessionPart' /\ PinsBalance' /\ BodyHasBoard' /\ Typed'
  <2>2. ASSUME NEW e \in Device
        PROVE  \/ e \in Reaped /\ device'[e] = NoSession
               \/ e \notin Reaped /\ device'[e] = device[e]
    BY <1>11 DEF NoneOpened
  <2>4. /\ NoSession.list = "none" /\ NoSession.calls = 0
        /\ ~NoSession.cleanupReady /\ ~NoSession.cleanupDone /\ ~NoSession.pin
    BY DEF NoSession
  <2>5. Typed'
    BY <1>1, <1>2, <1>11 DEF IInv, Typed, GoesIdle
  <2>6. DeviceShape'
    BY <1>11, <2>2, <2>4 DEF IInv, SessionPart, DeviceShape
  <2>7. HandlesDiffer'
    BY <2>2, <2>4 DEF IInv, SessionPart, HandlesDiffer
  <2>8. CallsCounted'
    <3>1. Cardinality({}) = 0
      BY FS_EmptySet
    <3>2. ASSUME NEW e \in Device
          PROVE  device'[e].calls = Cardinality(Callers(e))
      <4>1. CASE e \in Reaped
        BY <2>2, <4>1, ReapedFacts, <2>4, <3>1 DEF IInv
      <4>2. CASE e \notin Reaped
        BY <2>2, <4>2 DEF IInv, SessionPart, CallsCounted
      <4>3. QED
        BY <4>1, <4>2
    <3>3. QED
      BY <1>4, <3>2 DEF CallsCounted
  <2>9. SessionsHeld'
    <3>1. ASSUME NEW u \in Task, NEW e \in Device, Calling(u, e) \/ Cleaning(u, e)
          PROVE  device'[e] = device[e] /\ task'[u].handle = task[u].handle
      BY <1>3, <1>9, <2>2, <3>1
    <3>2. QED
      BY <1>3, <3>1 DEF IInv, SessionPart, SessionsHeld
  <2>10. CleanedOnce'
    <3>1. ASSUME NEW e \in Device, device'[e].cleanupDone, ~device'[e].cleanupReady
          PROVE  \E u \in Task : Cleaning(u, e)'
      BY <2>2, <2>4, <3>1, <1>3 DEF IInv, SessionPart, CleanedOnce
    <3>2. QED
      BY <1>3, <3>1 DEF IInv, SessionPart, CleanedOnce
  <2>11. SessionsCounted'
    <3>1. Listed' = Listed
      BY <1>9, <2>2, <2>4 DEF Listed
    <3>2. QED
      BY <1>11, <3>1 DEF IInv, SessionPart, SessionsCounted, Listed
  <2>12. PinsBalance'
    <3>1. DevicePins' = DevicePins
      BY <1>9, <2>2, <2>4 DEF DevicePins
    <3>2. QED
      BY <1>5, <1>11, <3>1, PinDropped DEF IInv
  <2>13. BodyHasBoard'
    <3>1. ASSUME NEW u \in Task, task'[u].pc = "body", task'[u].op # "draw"
          PROVE  /\ task[u].pc = "body" /\ task[u].op # "draw" /\ task'[u].dev = task[u].dev
                 /\ device'[task[u].dev] = device[task[u].dev]
      BY <1>1, <3>1, <1>9, <2>2 DEF GoesIdle, IInv, TaskShape, Shaped, InCall, Calling
    <3>2. QED
      BY <1>2, <3>1 DEF IInv, BodyHasBoard, IsUsableDevice
  <2>14. QED
    BY <2>5, <2>6, <2>7, <2>8, <2>9, <2>10, <2>11, <2>12, <2>13 DEF SessionPart
<1>12. SessionPart' /\ PinsBalance' /\ BodyHasBoard' /\ Typed'
  BY <1>10, <1>11, OpenShape
<1>13. QED
  BY <1>6, <1>7, <1>8, <1>12 DEF IInv

---------------------------------------------------------------------------
(* The invariant holds at the start and after every step.                   *)
LEMMA InitKeeps ==
  ASSUME Init
  PROVE  IInv
<1>1. /\ \A t \in Task : task[t] = Idle
      /\ \A d \in Device : device[d] = NoSession
  BY DEF Init
<1>2. Idle \in TaskRecord /\ Idle.pc = "idle" /\ Idle.op = "none" /\ Idle.dev = NoDevice
      /\ ~Idle.pin /\ ~Idle.cleanup
  BY DEF Idle, TaskRecord, Pc
<1>3. NoSession \in SessionRecord /\ NoSession.list = "none" /\ NoSession.calls = 0
      /\ ~NoSession.pin /\ ~NoSession.cleanupDone /\ ~NoSession.cleanupReady
  BY DEF NoSession, SessionRecord
<1>4. Cardinality({}) = 0
  BY FS_EmptySet
<1>5. Typed
  <2>1. device \in [Device -> SessionRecord] /\ task \in [Task -> TaskRecord]
    BY <1>2, <1>3 DEF Init
  <2>2. board \in BOOLEAN /\ recoveryTried \in BOOLEAN
    BY DEF Init
  <2>3. /\ boardLock \in Task \cup {NoTask} /\ serviceLock \in Task \cup {NoTask}
        /\ state \in {"EMPTY", "INITIALIZING", "ATTACHED", "READY", "DETACHING"}
        /\ cp \in {"none", "off", "ready"}
        /\ generation \in Nat /\ sessions \in Int /\ pins \in Int /\ mask \subseteq Segment
        /\ nextHandle \in Nat \ {0} /\ attaches \in Nat
    BY DEF Init
  <2>4. QED
    BY <2>1, <2>2, <2>3 DEF Typed
<1>6. LocksOwned /\ BoardState
  BY <1>1, <1>2, ServiceAssumption
    DEF Init, LocksOwned, BoardState, UnderBoardLock, UnderServiceLock
<1>7. TaskShape
  BY <1>1, <1>2 DEF TaskShape, Shaped, InCall
<1>8. DeviceShape /\ HandlesDiffer
  BY <1>1, <1>3 DEF DeviceShape, HandlesDiffer
<1>9. \A t \in Task, d \in Device : ~Calling(t, d) /\ ~Cleaning(t, d)
  BY <1>1, <1>2, ServiceAssumption DEF Calling, Cleaning
<1>10. CallsCounted
  BY <1>9, <1>1, <1>3, <1>4 DEF Callers, CallsCounted
<1>11. SessionsHeld /\ CleanedOnce
  BY <1>1, <1>3, <1>9 DEF SessionsHeld, CleanedOnce
<1>12. SessionsCounted
  <2>1. Listed = {}
    BY <1>1, <1>3 DEF Listed
  <2>2. QED
    BY <1>4, <2>1 DEF Init, SessionsCounted, Listed
<1>13. PinsBalance
  <2>1. TaskPins = {} /\ DevicePins = {}
    BY <1>1, <1>2, <1>3 DEF TaskPins, DevicePins, Pinning
  <2>2. QED
    BY <1>4, <2>1, PinsAsSets DEF Init
<1>14. BodyHasBoard
  BY <1>1, <1>2 DEF BodyHasBoard, At
<1>15. GenerationBounded
  <2>1. Starting = {}
    BY <1>1, <1>2 DEF Starting, BringingUp
  <2>2. QED
    BY <1>4, <2>1, ServiceAssumption DEF Init, GenerationBounded
<1>16. QED
  BY <1>5, <1>6, <1>7, <1>8, <1>10, <1>11, <1>12, <1>13, <1>14, <1>15 DEF IInv, SessionPart

LEMMA StutterKeeps ==
  ASSUME IInv, UNCHANGED vars
  PROVE  IInv'
<1> USE DEF vars, lockVars, boardVars, sessionVars, boundVars
<1>1. Typed' /\ LocksOwned' /\ BoardState' /\ TaskShape'
  BY DEF IInv, Typed, LocksOwned, BoardState, TaskShape
<1>2. SessionPart'
  <2>1. SameHolders
    BY DEF SameHolders, Calling, Cleaning
  <2>2. QED
    BY <2>1, SessionsUndisturbed DEF IInv, SameSessions, SameSession
<1>3. PinsBalance'
  <2>1. SamePinners /\ SamePins
    BY DEF SamePinners, SamePins, Pinning
  <2>2. QED
    BY <2>1, PinsUndisturbed DEF IInv
<1>4. BodyHasBoard'
  BY DEF IInv, BodyHasBoard, IsUsableDevice, At
<1>5. GenerationBounded'
  <2>1. Starting' = Starting
    BY DEF Starting
  <2>2. QED
    BY <2>1, GenerationUndisturbed DEF IInv
<1>6. QED
  BY <1>1, <1>2, <1>3, <1>4, <1>5 DEF IInv

LEMMA NextKeeps ==
  ASSUME IInv, [Next]_vars
  PROVE  IInv'
<1>1. ASSUME NEW t \in Task, Begin(t)
      PROVE  IInv'
  BY <1>1, OpenPinKeeps, CallKeeps, DrawKeeps, DetachKeeps, InitChipKeeps DEF Begin
<1>2. ASSUME NEW t \in Task, Continue(t)
      PROVE  IInv'
  <2>1. ASSUME NEW s \in Segment, AllocSegment(t, s) \/ FreeSegment(t, s)
        PROVE  IInv'
    BY <2>1, AllocSegmentKeeps, FreeSegmentKeeps
  <2>2. QED
    BY <1>2, <2>1, OpenNoMemoryKeeps, OpenSessionKeeps, ObtainBoardLockKeeps, RevalidateKeeps,
         OtherCallKeeps, RecoverAbortKeeps, RecoverRearmKeeps, ReleaseBoardLockKeeps,
         UnlockKeeps, RetireKeeps, FreeDeviceSegmentsKeeps, NoCleanupKeeps, CleanupReadyKeeps,
         CloseOwnerPinKeeps, CloseLibraryKeeps, DetachLockKeeps, DetachCheckKeeps,
         FinishBoardReleaseKeeps, ReleaseDoneKeeps, AttachKeeps, InitRadeonFeaturesKeeps,
         InitAccelerationKeeps, EnableServiceKeeps
    DEF Continue
<1>3. QED
  BY <1>1, <1>2, StutterKeeps DEF Next

(* The inductive invariant holds in every state the service reaches.        *)
THEOREM ServiceInvariant == Spec => []IInv
<1>1. Init => IInv
  BY InitKeeps
<1>2. IInv /\ [Next]_vars => IInv'
  BY NextKeeps
<1>3. QED
  BY <1>1, <1>2, PTL DEF Spec

(* The library's and the board's fields stay in their ranges; the counts of *)
(* calls, sessions and pins never fall below zero (radeon3d_service.c).     *)
THEOREM ServiceTypeCorrect == Spec => []TypeOK
<1>1. IInv => TypeOK
  <2> SUFFICES ASSUME IInv PROVE TypeOK
    OBVIOUS
  <2>1. /\ boardLock \in Task \cup {NoTask} /\ serviceLock \in Task \cup {NoTask}
        /\ board \in BOOLEAN /\ recoveryTried \in BOOLEAN
        /\ state \in {"EMPTY", "INITIALIZING", "ATTACHED", "READY", "DETACHING"}
        /\ cp \in {"none", "off", "ready"} /\ mask \subseteq Segment
    BY DEF IInv, Typed
  <2>2. generation \in 1 .. MaxGeneration + 2 * MaxAttach + 1
    <3>1. Cardinality(Starting) \in Nat
      BY ServiceAssumption, FS_Subset, FS_CardinalityType DEF Starting
    <3>2. QED
      BY <3>1, ServiceAssumption DEF IInv, Typed, GenerationBounded
  <2>3. pins \in Nat
    BY PinsAsSets DEF IInv
  <2>4. sessions \in Nat
    BY ServiceAssumption, FS_Subset, FS_CardinalityType DEF Listed, IInv, SessionPart, SessionsCounted
  <2>5. ASSUME NEW d \in Device
        PROVE  /\ device[d].list \in {"none", "service", "retired"}
               /\ device[d].calls \in Nat /\ device[d].segments \subseteq Segment
    BY CallsAreNatural DEF IInv, Typed, SessionRecord
  <2>6. QED
    BY <2>1, <2>2, <2>3, <2>4, <2>5 DEF TypeOK
<1>2. QED
  BY <1>1, ServiceInvariant, PTL

(* A task that holds a session pointer, in a call or in a cleanup, finds its *)
(* own session there: a reap never frees memory in use, whatever the number *)
(* of tasks and sessions (LockServiceBoard, ReapRetiredDevicesLocked).      *)
THEOREM NeverUsedAfterFree == Spec => []NoUseAfterFree
<1>1. IInv => NoUseAfterFree
  <2> SUFFICES ASSUME IInv, NEW t \in Task, Uses(t)
               PROVE  /\ device[task[t].dev].list # "none"
                      /\ device[task[t].dev].handle = task[t].handle
    BY DEF NoUseAfterFree
  <2>1. task[t].dev \in Device /\ (Calling(t, task[t].dev) \/ Cleaning(t, task[t].dev))
    BY DEF IInv, TaskShape, Shaped, Uses, Calling, Cleaning, InCall
  <2>2. QED
    BY <2>1 DEF IInv, SessionPart, SessionsHeld
<1>2. QED
  BY <1>1, ServiceInvariant, PTL

(* ServiceSessions counts the sessions not yet cleaned up, and rtg.library  *)
(* is held open once for each session and each task that opens or closes    *)
(* one: neither count is dropped twice or not at all (Radeon3DOpen,         *)
(* Radeon3DClose, UnlockServiceBoard).                                      *)
THEOREM CountsAlwaysBalance == Spec => []CountsBalance
<1>1. IInv => CountsBalance
  BY DEF IInv, SessionPart, CountsBalance
<1>2. QED
  BY <1>1, ServiceInvariant, PTL

(* A call past LockServiceBoard owns the board lock and works on a session  *)
(* of this generation with the command processor ready: what was checked    *)
(* before the lock was waited for is checked again under it.                *)
THEOREM BodyAlwaysHasBoard == Spec => []BodyHasBoard
<1>1. IInv => BodyHasBoard
  BY DEF IInv
<1>2. QED
  BY <1>1, ServiceInvariant, PTL

(* A closed session nobody works on has been cleaned up and may be reaped:  *)
(* between the last call and Radeon3DClose one of them does it.             *)
THEOREM ClosedAlwaysCleaned == Spec => []ClosedIsCleaned
<1>1. IInv => ClosedIsCleaned
  <2> SUFFICES ASSUME IInv, NEW d \in Device, device[d].list = "retired",
                      \A t \in Task : ~(task[t].dev = d /\ Uses(t))
               PROVE  device[d].cleanupReady /\ ~device[d].pin
    BY DEF ClosedIsCleaned
  <2>1. \A t \in Task : ~Calling(t, d) /\ ~Cleaning(t, d)
    BY ServiceAssumption DEF IInv, TaskShape, Shaped, Uses, Calling, Cleaning, InCall
  <2>2. Callers(d) = {}
    BY <2>1 DEF Callers
  <2>3. device[d].calls = 0
    BY <2>2, CallsAreNatural DEF IInv
  <2>4. device[d].cleanupDone /\ ~device[d].pin
    BY <2>3 DEF IInv, SessionPart, DeviceShape
  <2>5. device[d].cleanupReady
    BY <2>1, <2>4 DEF IInv, SessionPart, CleanedOnce
  <2>6. QED
    BY <2>4, <2>5
<1>2. QED
  BY <1>1, ServiceInvariant, PTL

---------------------------------------------------------------------------
(* With one attachment.  The second attachment of a board forgets which     *)
(* segments live sessions hold (InitChip clears the mask, finding           *)
(* ServiceReattach); up to it no segment is given out twice.  Only one task *)
(* brings the board up, and no session is opened before it is done.         *)
Once ==
  /\ attaches \in {0, 1}
  /\ attaches = 0 =>
       /\ state = "EMPTY" /\ nextHandle = 1
       /\ \A t \in Task : task[t].pc \notin InCall /\ task[t].op # "init"
  /\ \A t, u \in Task : task[t].op = "init" /\ task[u].op = "init" => t = u
  /\ \A t \in Task : task[t].pc \in BringingUp =>
       /\ task[t].op = "init" /\ nextHandle = 1 /\ state # "READY"
       /\ \A u \in Task : task[u].pc \notin {"body", "rearm"}
       /\ task[t].pc = "init" => state = "INITIALIZING"

(* No segment is in two sessions, and one in a session is in the mask.      *)
Leases ==
  /\ \A c, d \in Device : c # d => device[c].segments \cap device[d].segments = {}
  /\ board => \A d \in Device : device[d].segments \subseteq mask

(* A step that brings up no board.                                          *)
Calm(t) ==
  /\ \A u \in Task \ {t} : task'[u] = task[u]
  /\ task'[t].pc \in BringingUp => task[t].pc \in BringingUp
  /\ task'[t].pc \in InCall => task[t].pc \in InCall
  /\ task'[t].pc \in {"body", "rearm"} => task[t].pc \in {"body", "rearm"}
  /\ task'[t].pc = "init" => task[t].pc = "init"
  /\ task'[t].op = "init" => task[t].op = "init"
  /\ task'[t].pc \in BringingUp => task'[t].op = task[t].op
SameSegments == \A d \in Device : device'[d].segments = device[d].segments

LEMMA OnceKept ==
  ASSUME Once, NEW t \in Task, Calm(t), UNCHANGED <<state, nextHandle, attaches>>
  PROVE  Once'
BY DEF Once, Calm

LEMMA LeasesKept ==
  ASSUME Leases, SameSegments, board' => board, mask' = mask
  PROVE  Leases'
BY DEF Leases, SameSegments

(* Before the first session is opened no memory says it has segments.       *)
LEMMA NoSessionsYet ==
  ASSUME IInv, nextHandle = 1
  PROVE  \A d \in Device : device[d].segments = {}
BY DEF IInv, SessionPart, DeviceShape, NoSession

LEMMA OpenPinLeases ==
  ASSUME IInv, Once, Leases, NEW t \in Task, OpenPin(t)
  PROVE  Once' /\ Leases'
<1> USE DEF lockVars, boardVars, sessionVars, boundVars, At
<1>1. Calm(t)
  BY DEF IInv, Typed, TaskRecord, Calm, BringingUp, InCall, Goto, OpenPin
<1>2. SameSegments
  BY DEF IInv, Typed, SameSegments, OpenPin
<1>3. QED
  BY <1>1, <1>2, OnceKept, LeasesKept DEF OpenPin

LEMMA OpenNoMemoryLeases ==
  ASSUME IInv, Once, Leases, NEW t \in Task, OpenNoMemory(t)
  PROVE  Once' /\ Leases'
<1> USE DEF lockVars, boardVars, sessionVars, boundVars, At
<1>1. Calm(t)
  BY DEF IInv, Typed, TaskRecord, Calm, BringingUp, InCall, Idle, OpenNoMemory
<1>2. SameSegments
  BY DEF IInv, Typed, SameSegments, OpenNoMemory
<1>3. QED
  BY <1>1, <1>2, OnceKept, LeasesKept DEF OpenNoMemory

LEMMA ObtainBoardLockLeases ==
  ASSUME IInv, Once, Leases, NEW t \in Task, ObtainBoardLock(t)
  PROVE  Once' /\ Leases'
<1> USE DEF lockVars, boardVars, sessionVars, boundVars, At
<1>1. Calm(t)
  BY DEF IInv, Typed, TaskRecord, Calm, BringingUp, InCall, Goto, ObtainBoardLock
<1>2. SameSegments
  BY DEF IInv, Typed, SameSegments, ObtainBoardLock
<1>3. QED
  BY <1>1, <1>2, OnceKept, LeasesKept DEF ObtainBoardLock

LEMMA OtherCallLeases ==
  ASSUME IInv, Once, Leases, NEW t \in Task, OtherCall(t)
  PROVE  Once' /\ Leases'
<1> USE DEF lockVars, boardVars, sessionVars, boundVars, At
<1>1. Calm(t)
  BY DEF IInv, Typed, TaskRecord, Calm, BringingUp, InCall, Goto, OtherCall
<1>2. SameSegments
  BY DEF IInv, Typed, SameSegments, OtherCall
<1>3. QED
  BY <1>1, <1>2, OnceKept, LeasesKept DEF OtherCall

LEMMA NoCleanupLeases ==
  ASSUME IInv, Once, Leases, NEW t \in Task, NoCleanup(t)
  PROVE  Once' /\ Leases'
<1> USE DEF lockVars, boardVars, sessionVars, boundVars, At
<1>1. Calm(t)
  BY DEF IInv, Typed, TaskRecord, Calm, BringingUp, InCall, Idle, Goto, Unpinned, NoCleanup
<1>2. SameSegments
  BY DEF IInv, Typed, SameSegments, NoCleanup
<1>3. QED
  BY <1>1, <1>2, OnceKept, LeasesKept DEF NoCleanup

LEMMA DetachLockLeases ==
  ASSUME IInv, Once, Leases, NEW t \in Task, DetachLock(t)
  PROVE  Once' /\ Leases'
<1> USE DEF lockVars, boardVars, sessionVars, boundVars, At
<1>1. Calm(t)
  BY DEF IInv, Typed, TaskRecord, Calm, BringingUp, InCall, Idle, Goto, DetachLock
<1>2. SameSegments
  BY DEF IInv, Typed, SameSegments, DetachLock
<1>3. QED
  BY <1>1, <1>2, OnceKept, LeasesKept DEF DetachLock

LEMMA ReleaseBoardLockLeases ==
  ASSUME IInv, Once, Leases, NEW t \in Task, ReleaseBoardLock(t)
  PROVE  Once' /\ Leases'
<1> USE DEF lockVars, boardVars, sessionVars, boundVars, At
<1>1. Calm(t)
  BY DEF IInv, Typed, TaskRecord, Calm, BringingUp, InCall, Idle, ReleaseBoardLock
<1>2. SameSegments
  BY DEF IInv, Typed, SameSegments, ReleaseBoardLock
<1>3. QED
  BY <1>1, <1>2, OnceKept, LeasesKept DEF ReleaseBoardLock

LEMMA CloseLibraryLeases ==
  ASSUME IInv, Once, Leases, NEW t \in Task, CloseLibrary(t)
  PROVE  Once' /\ Leases'
<1> USE DEF lockVars, boardVars, sessionVars, boundVars, At
<1>1. Calm(t)
  BY DEF IInv, Typed, TaskRecord, Calm, BringingUp, InCall, Idle, Goto, Unpinned, CloseLibrary
<1>2. SameSegments
  BY DEF IInv, Typed, SameSegments, CloseLibrary
<1>3. QED
  BY <1>1, <1>2, OnceKept, LeasesKept DEF CloseLibrary

LEMMA DetachLeases ==
  ASSUME IInv, Once, Leases, NEW t \in Task, Detach(t)
  PROVE  Once' /\ Leases'
<1> USE DEF lockVars, boardVars, sessionVars, boundVars, At
<1>1. Calm(t)
  BY DEF IInv, Typed, TaskRecord, Calm, BringingUp, InCall, Idle, Detach
<1>2. SameSegments
  BY DEF IInv, Typed, SameSegments, Detach
<1>3. QED
  BY <1>1, <1>2, OnceKept, LeasesKept DEF Detach

LEMMA ReleaseDoneLeases ==
  ASSUME IInv, Once, Leases, NEW t \in Task, ReleaseDone(t)
  PROVE  Once' /\ Leases'
<1> USE DEF lockVars, boardVars, sessionVars, boundVars, At
<1>1. Calm(t)
  BY DEF IInv, Typed, TaskRecord, Calm, BringingUp, InCall, Idle, Released, ReleaseDone
<1>2. SameSegments
  BY DEF IInv, Typed, SameSegments, ReleaseDone
<1>3. QED
  BY <1>1, <1>2, OnceKept, LeasesKept DEF ReleaseDone

LEMMA InitRadeonFeaturesLeases ==
  ASSUME IInv, Once, Leases, NEW t \in Task, InitRadeonFeatures(t)
  PROVE  Once' /\ Leases'
<1> USE DEF lockVars, boardVars, sessionVars, boundVars, At
<1>1. Calm(t)
  BY DEF IInv, Typed, TaskRecord, Calm, BringingUp, InCall, Idle, Goto, InitRadeonFeatures
<1>2. SameSegments
  BY DEF IInv, Typed, SameSegments, InitRadeonFeatures
<1>3. QED
  BY <1>1, <1>2, OnceKept, LeasesKept DEF InitRadeonFeatures

LEMMA UnlockLeases ==
  ASSUME IInv, Once, Leases, NEW t \in Task, Unlock(t)
  PROVE  Once' /\ Leases'
<1> USE DEF lockVars, boardVars, sessionVars, boundVars, At
<1>1. Calm(t)
  BY SMTT(60) DEF IInv, Typed, TaskRecord, Calm, BringingUp, InCall, DropCall, Unlock
<1>2. SameSegments
  BY DEF IInv, Typed, SameSegments, DropCall, Unlock
<1>3. QED
  BY <1>1, <1>2, OnceKept, LeasesKept, SMTT(60) DEF Unlock

LEMMA CleanupReadyLeases ==
  ASSUME IInv, Once, Leases, NEW t \in Task, CleanupReady(t)
  PROVE  Once' /\ Leases'
<1> USE DEF lockVars, boardVars, sessionVars, boundVars, At
<1>1. Calm(t)
  BY DEF IInv, Typed, TaskRecord, Calm, BringingUp, InCall, Idle, Goto, Unpinned, CleanupReady
<1>2. SameSegments
  BY DEF IInv, Typed, SameSegments, CleanupReady
<1>3. QED
  BY <1>1, <1>2, OnceKept, LeasesKept DEF CleanupReady

LEMMA CloseOwnerPinLeases ==
  ASSUME IInv, Once, Leases, NEW t \in Task, CloseOwnerPin(t)
  PROVE  Once' /\ Leases'
<1> USE DEF lockVars, boardVars, sessionVars, boundVars, At
<1>1. \/ GoesIdle(t) \/ GoesAnew(t, "retire", "close")
      \/ GoesTo(t, "closelib") \/ GoesTo(t, "detach")
  BY UnpinnedShape, GotoShape DEF IInv, CloseOwnerPin, Pc
<1>2. Calm(t)
  BY <1>1 DEF Calm, BringingUp, InCall, GoesIdle, GoesAnew, GoesTo
<1>3. SameSegments
  BY SMTT(60) DEF SameSegments, CloseOwnerPin
<1>4. QED
  BY <1>2, <1>3, OnceKept, LeasesKept DEF CloseOwnerPin

LEMMA RetireLeases ==
  ASSUME IInv, Once, Leases, NEW t \in Task, Retire(t)
  PROVE  Once' /\ Leases'
<1> USE DEF lockVars, boardVars, sessionVars, boundVars, At
<1>1. Calm(t) /\ SameSegments
  <2>1. CASE GoesIdle(t) /\ device' = device
    BY <2>1 DEF Calm, BringingUp, InCall, GoesIdle, SameSegments
  <2>2. ASSUME NEW d \in Device, SessionRetired(t, d)
        PROVE  Calm(t) /\ SameSegments
    BY <2>2 DEF Calm, BringingUp, InCall, SessionRetired, SameSegments
  <2>3. QED
    BY <2>1, <2>2, RetireShape
<1>2. QED
  BY <1>1, OnceKept, LeasesKept DEF Retire

LEMMA CallLeases ==
  ASSUME IInv, Once, Leases, NEW t \in Task, Call(t)
  PROVE  Once' /\ Leases'
<1> USE DEF lockVars, boardVars, sessionVars, boundVars, At
<1>1. UNCHANGED <<state, nextHandle, attaches, board, mask>>
  BY CallShape
<1>2. CASE device' = device /\ GoesAnew(t, "retire", "close")
  <2>1. Calm(t)
    BY <1>2 DEF Calm, BringingUp, InCall, GoesAnew
  <2>2. QED
    BY <1>1, <1>2, <2>1, OnceKept, LeasesKept DEF SameSegments
<1>3. ASSUME NEW op \in {"call", "close"}, NEW handle \in 1 .. nextHandle - 1,
             NEW d \in Device, CallBegun(t, d, op, handle)
      PROVE  Once' /\ Leases'
  <2>1. attaches # 0 /\ \A u \in Task : task[u].pc \notin BringingUp
    BY <1>3 DEF IInv, Typed, Once
  <2>2. /\ \A u \in Task \ {t} : task'[u] = task[u]
        /\ task'[t].pc = "lock" /\ task'[t].op = op
    BY <1>3 DEF CallBegun
  <2>3. Once'
    BY <1>1, <2>1, <2>2 DEF Once, BringingUp
  <2>4. SameSegments
    BY <1>3, CalledShape DEF IInv, CallBegun, SameSegments
  <2>5. QED
    BY <1>1, <2>3, <2>4, LeasesKept
<1>4. QED
  BY <1>2, <1>3, CallShape

LEMMA RevalidateLeases ==
  ASSUME IInv, Once, Leases, NEW t \in Task, Revalidate(t)
  PROVE  Once' /\ Leases'
<1> USE DEF lockVars, boardVars, sessionVars, boundVars, At
<1>1. UNCHANGED <<state, nextHandle, attaches, board, mask>> /\ task[t].pc = "revalidate"
  BY DEF Revalidate
<1>2. CASE device[task[t].dev].list = "service" /\ IsUsableDevice(task[t].dev)
  BY <1>2, GotoShape, <1>1, LeasesKept DEF IInv, Pc, InCall, IsUsableDevice, Revalidate, Once, BringingUp, GoesTo,
     SameSegments
<1>3. CASE ~(device[task[t].dev].list = "service" /\ IsUsableDevice(task[t].dev))
  <2>1. DropCall(t)
    BY <1>3 DEF Revalidate
  <2>2. TaskDrops(t, task[t].dev)
    BY <1>1, <2>1, DropCallShape DEF IInv
  <2>3. Calm(t)
    BY <2>2, SMTT(60) DEF Calm, BringingUp, InCall, TaskDrops
  <2>4. SameSegments
    BY <2>1 DEF IInv, Typed, SameSegments, DropCall
  <2>5. QED
    BY <1>1, <2>3, <2>4, OnceKept, LeasesKept
<1>4. QED
  BY <1>2, <1>3

LEMMA OpenSessionLeases ==
  ASSUME IInv, Once, Leases, NEW t \in Task, OpenSession(t)
  PROVE  Once' /\ Leases'
<1> USE DEF lockVars, boardVars, sessionVars, boundVars, At
<1>1. GoesIdle(t) /\ UNCHANGED <<state, attaches, board, mask>>
  BY OpenShape DEF OpenSession
<1>2. Calm(t)
  BY <1>1 DEF Calm, BringingUp, InCall, GoesIdle
<1>3. ASSUME nextHandle' = nextHandle PROVE Once'
  BY <1>1, <1>3, <1>2, OnceKept
<1>4. ASSUME nextHandle' # nextHandle PROVE Once'
  <2>1. state = "READY" /\ state' = "READY" /\ attaches' = attaches
    BY <1>1, <1>4 DEF OpenSession
  <2>2. attaches # 0 /\ \A u \in Task : task[u].pc \notin BringingUp
    BY <2>1 DEF Once
  <2>3. \A u \in Task : task'[u].pc \notin BringingUp
    BY <1>2, <2>2 DEF Calm
  <2>4. \A u \in Task : task'[u].op = "init" => task[u].op = "init"
    BY <1>2 DEF Calm
  <2>5. attaches' # 0 /\ attaches' \in {0, 1}
    BY <2>1, <2>2 DEF Once
  <2>6. QED
    BY <2>3, <2>4, <2>5 DEF Once
<1>5. \A e \in Device : device'[e].segments = device[e].segments \/ device'[e].segments = {}
  <2>1. NoSession.segments = {}
    BY DEF NoSession
  <2>2. ASSUME NEW d \in Device, SessionOpened(d)
        PROVE  \A e \in Device : device'[e].segments = device[e].segments \/ device'[e].segments = {}
    BY <2>1, <2>2 DEF SessionOpened
  <2>3. ASSUME NoneOpened
        PROVE  \A e \in Device : device'[e].segments = device[e].segments \/ device'[e].segments = {}
    BY <2>1, <2>3 DEF NoneOpened
  <2>4. QED
    BY <2>2, <2>3, OpenShape
<1>6. Leases'
  BY <1>1, <1>5 DEF Leases
<1>7. QED
  BY <1>3, <1>4, <1>6

LEMMA AllocSegmentLeases ==
  ASSUME IInv, Once, Leases, NEW t \in Task, NEW s \in Segment, AllocSegment(t, s)
  PROVE  Once' /\ Leases'
<1> USE DEF lockVars, boardVars, sessionVars, boundVars, At
<1> PICK d : d = task[t].dev
  OBVIOUS
<1>1. GoesTo(t, "leave")
  BY GotoShape DEF IInv, Pc, InCall, AllocSegment
<1>2. Calm(t)
  BY <1>1 DEF Calm, BringingUp, InCall, GoesTo, AllocSegment
<1>3. d \in Device /\ board
  BY DEF IInv, TaskShape, Shaped, InCall, BodyHasBoard, IsUsableDevice, AllocSegment
<1>4. /\ \A e \in Device : e # d => device'[e].segments = device[e].segments
      /\ device'[d].segments = device[d].segments \cup {s}
      /\ mask' = mask \cup {s} /\ s \notin mask
  BY <1>3 DEF IInv, Typed, SessionRecord, AllocSegment
<1>5. \A e \in Device : s \notin device[e].segments
  BY <1>3, <1>4 DEF Leases
<1>6. Leases'
  BY <1>3, <1>4, <1>5 DEF Leases
<1>7. QED
  BY <1>2, <1>6, OnceKept DEF AllocSegment

LEMMA SegmentGivenBack ==
  ASSUME Leases, NEW d \in Device, NEW s \in device[d].segments, board' => board,
         mask' = mask \ {s},
         \A e \in Device : e # d => device'[e].segments = device[e].segments,
         device'[d].segments = device[d].segments \ {s}
  PROVE  Leases'
<1>1. \A e \in Device : e # d => s \notin device[e].segments
  BY DEF Leases
<1>2. \A e \in Device : device'[e].segments = device[e].segments \ {s}
  BY <1>1
<1>3. QED
  BY <1>2 DEF Leases

LEMMA FreeSegmentLeases ==
  ASSUME IInv, Once, Leases, NEW t \in Task, NEW s \in Segment, FreeSegment(t, s)
  PROVE  Once' /\ Leases'
<1> USE DEF lockVars, boardVars, sessionVars, boundVars, At
<1> PICK d : d = task[t].dev
  OBVIOUS
<1>1. GoesTo(t, "leave")
  BY GotoShape DEF IInv, Pc, InCall, FreeSegment
<1>2. Calm(t)
  BY <1>1 DEF Calm, BringingUp, InCall, GoesTo, FreeSegment
<1>3. d \in Device
  BY DEF IInv, TaskShape, Shaped, InCall, FreeSegment
<1>4. /\ \A e \in Device : e # d => device'[e].segments = device[e].segments
      /\ device'[d].segments = device[d].segments \ {s}
      /\ mask' = mask \ {s} /\ s \in device[d].segments /\ board' = board
  BY <1>3 DEF IInv, Typed, SessionRecord, FreeSegment
<1>5. Leases'
  BY <1>3, <1>4, SegmentGivenBack
<1>6. QED
  BY <1>2, <1>5, OnceKept DEF FreeSegment

LEMMA FreeDeviceSegmentsLeases ==
  ASSUME IInv, Once, Leases, NEW t \in Task, FreeDeviceSegments(t)
  PROVE  Once' /\ Leases'
<1> USE DEF lockVars, boardVars, sessionVars, boundVars, At
<1> PICK d : d = task[t].dev
  OBVIOUS
<1>1. d \in Device /\ UNCHANGED <<state, nextHandle, attaches, board>> /\ task[t].pc = "cleanup"
  BY DEF IInv, TaskShape, Shaped, FreeDeviceSegments
<1>2. ASSUME NEW s \in device[d].segments, mask' = mask \ {s}, task' = task,
             device' = [device EXCEPT ![d].segments = @ \ {s}]
      PROVE  Once' /\ Leases'
  BY <1>1, <1>2, SegmentGivenBack DEF IInv, Typed, SessionRecord, Once
<1>3. ASSUME Goto(t, "ready"), UNCHANGED <<mask, device>>
      PROVE  Once' /\ Leases'
  BY <1>3, GotoShape, <1>1, OnceKept, LeasesKept DEF IInv, Pc, Calm, BringingUp, InCall, GoesTo, SameSegments
<1>4. \/ \E s \in device[d].segments : /\ mask' = mask \ {s} /\ task' = task
                                       /\ device' = [device EXCEPT ![d].segments = @ \ {s}]
      \/ Goto(t, "ready") /\ UNCHANGED <<mask, device>>
  BY DEF FreeDeviceSegments
<1>5. QED
  BY <1>2, <1>3, <1>4

LEMMA RecoverAbortLeases ==
  ASSUME IInv, Once, Leases, NEW t \in Task, RecoverAbort(t)
  PROVE  Once' /\ Leases'
<1> USE DEF lockVars, boardVars, sessionVars, boundVars, At
<1>1. GoesTo(t, "rearm") /\ task[t].pc = "body" /\ device' = device
  BY GotoShape DEF IInv, Pc, InCall, RecoverAbort
<1>2. attaches # 0 /\ \A u \in Task : task[u].pc \notin BringingUp
  BY <1>1 DEF Once, InCall
<1>3. Once'
  BY <1>1, <1>2 DEF Once, BringingUp, InCall, GoesTo, RecoverAbort
<1>4. QED
  BY <1>1, <1>3, LeasesKept DEF SameSegments, RecoverAbort

LEMMA RecoverRearmLeases ==
  ASSUME IInv, Once, Leases, NEW t \in Task, RecoverRearm(t)
  PROVE  Once' /\ Leases'
<1> USE DEF lockVars, boardVars, sessionVars, boundVars, At
<1>1. GoesTo(t, "leave") /\ task[t].pc = "rearm" /\ device' = device
  BY GotoShape DEF IInv, Pc, InCall, RecoverRearm
<1>2. attaches # 0 /\ \A u \in Task : task[u].pc \notin BringingUp
  BY <1>1 DEF Once, InCall
<1>3. Once'
  BY <1>1, <1>2 DEF Once, BringingUp, InCall, GoesTo, RecoverRearm
<1>4. QED
  BY <1>1, <1>3, LeasesKept DEF SameSegments, RecoverRearm

LEMMA DrawLeases ==
  ASSUME IInv, Once, Leases, NEW t \in Task, Draw(t)
  PROVE  Once' /\ Leases'
<1> USE DEF lockVars, boardVars, sessionVars, boundVars, At
<1>1. GoesAnew(t, "body", "draw") /\ device' = device
  BY AnewShape DEF IInv, Draw, Pc, InCall
<1>2. attaches # 0 /\ \A u \in Task : task[u].pc \notin BringingUp
  BY DEF Once, BringingUp, Draw
<1>3. Once'
  BY <1>1, <1>2 DEF Once, BringingUp, InCall, GoesAnew, Draw
<1>4. QED
  BY <1>1, <1>3, LeasesKept DEF SameSegments, Draw

LEMMA DetachCheckLeases ==
  ASSUME IInv, Once, Leases, NEW t \in Task, DetachCheck(t)
  PROVE  Once' /\ Leases'
<1> USE DEF lockVars, boardVars, sessionVars, boundVars, At
<1>1. /\ \/ GoesTo(t, "closelib") \/ GoesIdle(t) \/ GoesTo(t, "finish")
      /\ task[t].pc = "detaching" /\ UNCHANGED <<nextHandle, attaches, mask, device>>
      /\ board' => board
  BY ReleasedShape, GotoShape DEF IInv, Pc, UnderBoardLock, DetachCheck
<1>2. Calm(t)
  BY <1>1 DEF Calm, BringingUp, InCall, GoesIdle, GoesTo
<1>3. Once'
  <2>1. CASE state' = state
    BY <1>1, <1>2, <2>1, OnceKept
  <2>2. CASE state' # state
    BY <2>2, <1>1, <1>2 DEF DetachCheck, IInv, BoardState, Once, BringingUp, Calm
  <2>3. QED
    BY <2>1, <2>2
<1>4. QED
  BY <1>1, <1>3, LeasesKept DEF SameSegments

LEMMA FinishBoardReleaseLeases ==
  ASSUME IInv, Once, Leases, NEW t \in Task, FinishBoardRelease(t)
  PROVE  Once' /\ Leases'
<1> USE DEF lockVars, boardVars, sessionVars, boundVars, At
<1>1. GoesTo(t, "released") /\ task[t].pc = "finish" /\ device' = device
  BY GotoShape DEF IInv, Pc, UnderBoardLock, FinishBoardRelease
<1>2. state = "DETACHING" /\ ~board /\ ~board'
  BY <1>1 DEF IInv, BoardState, FinishBoardRelease
<1>3. Calm(t) /\ \A u \in Task : task[u].pc # "init"
  BY <1>1, <1>2 DEF Once, Calm, BringingUp, InCall, GoesTo
<1>4. Once'
  BY <1>1, <1>3 DEF Once, Calm, BringingUp, FinishBoardRelease
<1>5. Leases'
  BY <1>1, <1>2 DEF Leases
<1>6. QED
  BY <1>4, <1>5

LEMMA InitChipLeases ==
  ASSUME IInv, Once, Leases, MaxAttach <= 1, NEW t \in Task, InitChip(t)
  PROVE  Once' /\ Leases'
<1> USE DEF lockVars, boardVars, sessionVars, boundVars, At
<1>1. GoesAnew(t, "init", "init") /\ device' = device
  BY AnewShape DEF IInv, InitChip, Pc, BringingUp
<1>2. attaches = 0 /\ attaches' = 1 /\ nextHandle = 1 /\ nextHandle' = 1 /\ state' = "INITIALIZING"
  BY ServiceAssumption DEF Once, InitChip
<1>3. \A u \in Task : task[u].pc \notin InCall /\ task[u].op # "init" /\ task[u].pc \notin BringingUp
  BY <1>2 DEF Once
<1>4. Once'
  BY <1>1, <1>2, <1>3 DEF Once, BringingUp, InCall, GoesAnew
<1>5. \A d \in Device : device[d].segments = {}
  BY <1>2, NoSessionsYet
<1>6. Leases'
  BY <1>1, <1>5 DEF Leases
<1>7. QED
  BY <1>4, <1>6

LEMMA AttachLeases ==
  ASSUME IInv, Once, Leases, NEW t \in Task, Attach(t)
  PROVE  Once' /\ Leases'
<1> USE DEF lockVars, boardVars, sessionVars, boundVars, At
<1>1. /\ GoesTo(t, "detach") \/ GoesTo(t, "attached")
      /\ task[t].pc = "init" /\ device' = device
  BY GotoShape DEF IInv, Attach, Pc, BringingUp
<1>2. /\ task[t].op = "init" /\ attaches # 0
      /\ \A u \in Task : u # t => task[u].pc \notin BringingUp
  BY <1>1 DEF Once, BringingUp
<1>3. state' \in {state, "ATTACHED"} /\ nextHandle' = nextHandle /\ attaches' = attaches
  BY DEF Attach
<1>4. Once'
  BY <1>1, <1>2, <1>3 DEF Once, BringingUp, InCall, GoesTo
<1>5. QED
  BY <1>1, <1>4, LeasesKept DEF SameSegments, Attach

LEMMA InitAccelerationLeases ==
  ASSUME IInv, Once, Leases, NEW t \in Task, InitAcceleration(t)
  PROVE  Once' /\ Leases'
<1> USE DEF lockVars, boardVars, sessionVars, boundVars, At
<1>1. GoesTo(t, "enable") /\ task[t].pc = "features" /\ device' = device
  BY GotoShape DEF IInv, InitAcceleration, Pc, BringingUp
<1>2. Calm(t) /\ nextHandle = 1
  BY <1>1 DEF Once, Calm, BringingUp, InCall, GoesTo
<1>3. Once'
  BY <1>2, OnceKept DEF InitAcceleration
<1>4. \A d \in Device : device[d].segments = {}
  BY <1>2, NoSessionsYet
<1>5. Leases'
  BY <1>1, <1>4 DEF Leases
<1>6. QED
  BY <1>3, <1>5

LEMMA EnableServiceLeases ==
  ASSUME IInv, Once, Leases, NEW t \in Task, EnableService(t)
  PROVE  Once' /\ Leases'
<1> USE DEF lockVars, boardVars, sessionVars, boundVars, At
<1>1. GoesIdle(t) /\ task[t].pc = "enable" /\ device' = device
  BY IdleShape DEF IInv, EnableService
<1>2. /\ task[t].op = "init" /\ attaches # 0
      /\ \A u \in Task : u # t => task[u].pc \notin BringingUp
  BY <1>1 DEF Once, BringingUp
<1>3. Once'
  BY <1>1, <1>2 DEF Once, BringingUp, InCall, GoesIdle, EnableService
<1>4. QED
  BY <1>1, <1>3, LeasesKept DEF SameSegments, EnableService

LEMMA NextLeases ==
  ASSUME IInv, Once, Leases, MaxAttach <= 1, [Next]_vars
  PROVE  Once' /\ Leases'
<1>1. ASSUME NEW t \in Task, Begin(t)
      PROVE  Once' /\ Leases'
  BY <1>1, OpenPinLeases, CallLeases, DrawLeases, DetachLeases, InitChipLeases DEF Begin
<1>2. ASSUME NEW t \in Task, Continue(t)
      PROVE  Once' /\ Leases'
  <2>1. ASSUME NEW s \in Segment, AllocSegment(t, s) \/ FreeSegment(t, s)
        PROVE  Once' /\ Leases'
    BY <2>1, AllocSegmentLeases, FreeSegmentLeases
  <2>2. QED
    BY <1>2, <2>1, OpenNoMemoryLeases, OpenSessionLeases, ObtainBoardLockLeases,
         RevalidateLeases, OtherCallLeases, RecoverAbortLeases, RecoverRearmLeases,
         ReleaseBoardLockLeases, UnlockLeases, RetireLeases, FreeDeviceSegmentsLeases,
         NoCleanupLeases, CleanupReadyLeases, CloseOwnerPinLeases, CloseLibraryLeases,
         DetachLockLeases, DetachCheckLeases, FinishBoardReleaseLeases, ReleaseDoneLeases,
         AttachLeases, InitRadeonFeaturesLeases, InitAccelerationLeases, EnableServiceLeases
    DEF Continue
<1>3. CASE UNCHANGED vars
  BY <1>3 DEF vars, lockVars, boardVars, sessionVars, boundVars, Once, Leases
<1>4. QED
  BY <1>1, <1>2, <1>3 DEF Next

(* As long as a board is attached at most once, no stream segment is leased *)
(* to two usable sessions (AllocSegment, FreeSegment, FreeDeviceSegments).  *)
(* The hypothesis is on a bound of the model and says what the code needs:  *)
(* with a second attachment the property fails, see ServiceReattach.        *)
THEOREM OneAttachmentSegments ==
  ASSUME MaxAttach <= 1
  PROVE  Spec => []SegmentsExclusive
<1>1. Init => Once /\ Leases
  <2> SUFFICES ASSUME Init PROVE Once /\ Leases
    OBVIOUS
  <2>1. \A t \in Task : task[t].pc = "idle" /\ task[t].op = "none"
    BY DEF Init, Idle
  <2>2. \A d \in Device : device[d].segments = {}
    BY DEF Init, NoSession
  <2>3. QED
    BY <2>1, <2>2 DEF Init, Once, Leases, BringingUp, InCall
<1>2. IInv /\ Once /\ Leases /\ [Next]_vars => (Once /\ Leases)'
  BY NextLeases
<1>3. Leases => SegmentsExclusive
  BY DEF Leases, SegmentsExclusive
<1>4. QED
  BY <1>1, <1>2, <1>3, ServiceInvariant, PTL DEF Spec
===========================================================================
