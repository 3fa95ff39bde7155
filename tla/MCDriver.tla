------------------------------- MODULE MCDriver -------------------------------
(* Driver with the instances of its parts.                                  *)
EXTENDS Driver, MCBios, MCBringup, MCEngine, MCDisplay
==============================================================================
