------------------------------- MODULE CpQueue -------------------------------
(***************************************************************************)
(* What the command-processor ring promises to the code above it: a        *)
(* bounded first-in first-out queue of command dwords.  A submission       *)
(* enters whole or not at all, the command processor takes the dwords in   *)
(* the order they were submitted and each exactly once, and a reset        *)
(* empties the queue.  CpRing shows how the ring in video memory           *)
(* implements it.                                                          *)
(***************************************************************************)
EXTENDS Naturals, Sequences

CONSTANTS
  Streams,   \* the dword streams a submission may consist of
  Capacity   \* the most dwords the queue holds

VARIABLE
  queue      \* the dwords submitted and not yet taken

Init == queue = <<>>

(* A submission is appended whole, and only where it fits. *)
Submit(s) ==
  /\ Len(queue) + Len(s) <= Capacity
  /\ queue' = queue \o s

(* The command processor takes the oldest dword. *)
Fetch ==
  /\ queue # <<>>
  /\ queue' = Tail(queue)

(* A reset of the command processor drops what it has not taken. *)
Reset == queue' = <<>>

Next ==
  \/ \E s \in Streams : Submit(s)
  \/ Fetch
  \/ Reset

Spec == Init /\ [][Next]_queue
==============================================================================
