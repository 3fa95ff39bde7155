------------------------------- MODULE MCPools --------------------------------
(* Small instances of the surface pool.                                      *)
EXTENDS Pools, TLC

NotOvertaken == ~overtaken
PoolSymmetry == Permutations(PoolSession)
==============================================================================
