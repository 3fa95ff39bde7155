----------------------------- MODULE MCService -------------------------------
(* Service for TLC.  Tasks and devices are model values; there is no        *)
(* symmetry, for OperationsEnd is about a task.                             *)
EXTENDS Service
==============================================================================
