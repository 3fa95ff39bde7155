------------------------------ MODULE MCCpFence ------------------------------
(* CpFence with sixteen sequence numbers, so that the numbering wraps and   *)
(* skips zero within a few submissions, and a ring test marker in the same  *)
(* part of the range as 0xdeadbeef.                                         *)
EXTENDS CpFence
==============================================================================
