------------------------------- MODULE MCClients ------------------------------
(* Clients with the instances of its parts.                                 *)
EXTENDS Clients, MCCpFence, MCPools, MCSamples, MCRequests, MCDirectRing, MCProbes
==============================================================================
