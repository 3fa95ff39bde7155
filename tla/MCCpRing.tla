------------------------------ MODULE MCCpRing -------------------------------
(* CpRing on a ring of eight dwords with alignment two: streams of four and *)
(* six dwords behind a startup of two, so that a stream can wrap at every   *)
(* aligned place and the ring can be full.  Commands, fence tail and padding *)
(* are told apart.                                                          *)
EXTENDS CpRing

MCDword == {"c", "d", "wait", "f1", "nop", "empty"}
MCBatches == {<<"d", "c", "d">>}
MCFences == {"f1"}
MCFenceCommands == <<"wait">>
MCStartup == <<"c", "c">>
==============================================================================
