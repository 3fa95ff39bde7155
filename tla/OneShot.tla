-------------------------------- MODULE OneShot --------------------------------
(***************************************************************************)
(* The earlier pair of programs on the same ring, phase2host and ppcphase2: *)
(* one grant, no heartbeat and no generation.  The child's arrival is a     *)
(* marker in the word it later puts its stage in; both sides' words lie in  *)
(* two lines of one block, and the child looks at them through its cache.   *)
(* The ring, the driver and the command processor are DirectRing's, and so  *)
(* is what both children do alike.                                          *)
(***************************************************************************)
EXTENDS DirectRing

Marker == "0xffffffff"
------------------------------------------------------------------------------
(* phase2host.  Up to the first publication, which clears the whole block;  *)
(* nobody looks at it yet.                                                  *)
OneHostStart ==
  /\ hosting.pc = "start" /\ hosting.run < MaxHosts
  /\ granted.ready /\ ~granted.lease
  /\ hosting' = [NoHost EXCEPT !.pc = "arrival", !.run = hosting.run + 1, !.batches = BatchDefault]
  /\ block' = [Blank EXCEPT !.magic = TRUE]
  /\ UNCHANGED <<cached, child, cpring, granted, orphan>>

OneHostArrival ==
  IF block.stage = Marker
  THEN HostGoes("arrival", "leasing") /\ UNCHANGED <<block, cached, child, cpring, granted, orphan>>
  ELSE HostQuits("arrival")

(* The lease, its check, the results and the release are as in phase3host;  *)
(* a run that fails gives its lease back with no fence, as a Close would.   *)
OneAcquire == HostAcquire
OneWaitFails == HostWaitFails
OneResults == HostResults
OneRelease == HostRelease
OneClose == HostClose

(* PublishBlock stores every word in order, the child's too, and            *)
(* PublishHostDone the one the child waits for.                             *)
OnePublishFirst ==
  /\ HostGoes("acquired", "filling")
  /\ block' = [block EXCEPT !.magic = TRUE, !.ready = FALSE, !.done = FALSE, !.ring = hosting.run]
  /\ UNCHANGED <<cached, child, cpring, granted, orphan>>
OnePublishSecond ==
  /\ HostGoes("filling", "flagging")
  /\ block' = [block EXCEPT !.bar = TRUE, !.fence = hosting.next, !.batches = BatchDefault,
                            !.submits = 0, !.last = 0, !.retired = FALSE, !.stage = "ok"]
  /\ UNCHANGED <<cached, child, cpring, granted, orphan>>

PublishHostDone ==
  /\ hosting.pc = "flagging"
  /\ block' = [block EXCEPT !.ready = TRUE]
  /\ hosting' = [hosting EXCEPT !.pc = "waiting", !.due = FALSE,
       !.last = LET n == SeqSum(hosting.next, BatchDefault - 1) IN IF n = 0 THEN 1 ELSE n]
  /\ UNCHANGED <<cached, child, cpring, granted, orphan>>

(* The wait for the acknowledgement renews nothing.                         *)
OneHostWait ==
  /\ hosting.pc = "waiting" /\ ~block.done /\ hosting.due
  /\ hosting' = [hosting EXCEPT !.due = FALSE]
  /\ UNCHANGED <<block, cached, child, cpring, granted, orphan>>
------------------------------------------------------------------------------
(* ppcphase2.  Its first look at the block is whatever its cache has.       *)
OneStart ==
  /\ child.pc = "idle" /\ child.runs < MaxChildren /\ hosting.pc = "arrival" /\ block.stage # Marker
  /\ child' = [NoChild EXCEPT !.pc = "validate", !.runs = child.runs + 1,
                             !.gen = hosting.run]                 \* history: the host it came to
  /\ UNCHANGED <<block, cached, hosting, cpring, granted, orphan>>

OneValidate ==
  /\ cached' = Loaded("first", cached)
  /\ ChildGoes("validate", IF Load("first", cached).magic THEN "mark" ELSE "idle")
  /\ UNCHANGED <<block, hosting, cpring, granted, orphan>>

(* The marker is stored and loaded back, its line with it.                  *)
OneMark ==
  /\ ChildGoes("mark", "poll")
  /\ block' = [block EXCEPT !.stage = Marker]
  /\ cached' = Loaded("second", cached)
  /\ UNCHANGED <<hosting, cpring, granted, orphan>>

Flushed == Lines            \* 64 bytes

OnePoll ==
  /\ child.pc = "poll"
  /\ LET copies == P0FlushRange(Flushed) IN
     /\ cached' = Loaded("first", copies)
     /\ IF Load("first", copies).ready THEN ChildGoes("poll", "range")
        ELSE child' = child \/ child' = [child EXCEPT !.pc = "result", !.stage = "reserve"]
  /\ UNCHANGED <<block, hosting, cpring, granted, orphan>>

(* The descriptors: one line as the last poll found it, one as it is now.   *)
OneDescriptors ==
  /\ child.pc = "range"
  /\ LET ring == Load("first", cached).ring  rest == Load("second", cached) IN
     /\ cached' = Loaded("second", cached)
     /\ child' = IF ring = 0 \/ ~rest.bar THEN [child EXCEPT !.pc = "result", !.stage = "ring_range"]
                 ELSE [child EXCEPT !.pc = "reserve", !.grant = ring,
                         !.next = IF rest.fence = 0 THEN 1 ELSE rest.fence,
                         !.batches = IF rest.batches = 0 THEN BatchDefault ELSE rest.batches,
                         !.wptr = cpring.wptr]
  /\ UNCHANGED <<block, hosting, cpring, granted, orphan>>

(* From the space to the fence it is ppcphase3.                             *)
OneReserve == ChildReserve
OneWrite == ChildWrite
OneCommit == ChildCommit
OneRetire == ChildRetire

(* The results and, when they are in memory, the acknowledgement.           *)
OnePublish ==
  \/ /\ ChildGoes("result", "done")
     /\ block' = [block EXCEPT !.submits = child.submits, !.last = child.last,
                               !.retired = child.retired, !.stage = child.stage]
     /\ UNCHANGED <<cached, hosting, cpring, granted, orphan>>
  \/ /\ ChildGoes("done", "idle") /\ block' = [block EXCEPT !.done = TRUE]
     /\ UNCHANGED <<cached, hosting, cpring, granted, orphan>>
------------------------------------------------------------------------------
OneShotNext ==
  /\ ~orphan
  /\ \/ hosting.pc = "start" /\ OwnSubmit          \* bound: the driver draws between runs only
     \/ FetchUnit \/ LeaseReclaim \/ HalfSecond
     \/ OneHostStart \/ OneHostArrival \/ OneAcquire \/ OnePublishFirst \/ OnePublishSecond \/ PublishHostDone
     \/ OneHostWait \/ OneWaitFails \/ OneResults \/ OneRelease \/ OneClose
     \/ OneStart \/ OneValidate \/ OneMark \/ OnePoll \/ OneDescriptors
     \/ OneReserve \/ OneWrite \/ OneCommit \/ OneRetire \/ OnePublish

OneShotSpec == DirectInit /\ [][OneShotNext]_directvars
------------------------------------------------------------------------------
(* A child that sees HOST_DONE reads the whole grant it announces, though   *)
(* its cache still may have the line of the marker, and never finds it      *)
(* without a ring while that host is there (ppcphase2.c, phase2host.c).     *)
GrantReadWhole ==
  /\ child.stage = "ring_range" => child.gen # hosting.run
  /\ ~orphan /\ granted.lease /\ child.pc \in {"reserve", "write", "rest", "back", "fence"} =>
       /\ child.grant = hosting.run /\ child.next = hosting.next /\ child.batches = hosting.batches

OneShotSound == GrantReadWhole /\ AcceptedIsDone
==============================================================================
