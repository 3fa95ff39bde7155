-------------------------------- MODULE Clients --------------------------------
(***************************************************************************)
(* Parts of the driver and its programs that share no state, side by side: *)
(* fence numbers (CpFence), the surface pool (Pools), execution samples    *)
(* (Samples), the requests of a client (Requests), the PowerPC's direct    *)
(* ring in its two forms (DirectRing, OneShot, which share their           *)
(* variables), the probes of a debug build (Probes) and its counters       *)
(* (Accounts).  A behaviour here is one of a part, while the others rest   *)
(* in an initial state of theirs: what holds of Clients holds of each part. *)
(***************************************************************************)
EXTENDS CpFence, Pools, Samples, Requests, OneShot, Probes, Accounts

VARIABLE part

clientsvars == <<part, fencevars, poolvars, samplevars, requestvars, directvars,
                 probevars, accountvars>>

ClientsInit ==
  /\ part \in {"fence", "pools", "samples", "requests", "direct", "oneshot", "probes", "accounts"}
  /\ IF part = "requests" THEN RequestsInit
     ELSE LET k == CHOOSE k \in DOMAIN Asked : TRUE
          IN kind = k /\ shared = (CHOOSE r \in Asked[k] : TRUE) /\ RequestsInit
  /\ IF part \in {"direct", "oneshot"} THEN DirectInit
     ELSE LET seq == CHOOSE n \in FirstSeqs : TRUE  at == CHOOSE p \in FirstPlaces : TRUE
          IN block = Blank /\ DirectInit /\ granted.next = seq /\ granted.write = at
  /\ IF part = "probes" THEN ProbesInit
     ELSE LET old == CHOOSE old \in OldScratch : TRUE
          IN ProbesInit /\ ~cp.Ready /\ card.faults = {} /\ card.scratch1 = old /\ probe.pool
  /\ FenceInit /\ PoolsInit /\ SamplesInit /\ AccountsInit

ClientsNext ==
  /\ part' = part
  /\ \/ /\ part = "fence" /\ FenceNext
        /\ UNCHANGED <<poolvars, samplevars, requestvars, directvars, probevars, accountvars>>
     \/ /\ part = "pools" /\ PoolsNext
        /\ UNCHANGED <<fencevars, samplevars, requestvars, directvars, probevars, accountvars>>
     \/ /\ part = "samples" /\ SamplesNext
        /\ UNCHANGED <<fencevars, poolvars, requestvars, directvars, probevars, accountvars>>
     \/ /\ part = "requests" /\ RequestsNext
        /\ UNCHANGED <<fencevars, poolvars, samplevars, directvars, probevars, accountvars>>
     \/ /\ part = "direct" /\ DirectNext
        /\ UNCHANGED <<fencevars, poolvars, samplevars, requestvars, probevars, accountvars>>
     \/ /\ part = "oneshot" /\ OneShotNext
        /\ UNCHANGED <<fencevars, poolvars, samplevars, requestvars, probevars, accountvars>>
     \/ /\ part = "probes" /\ ProbesNext
        /\ UNCHANGED <<fencevars, poolvars, samplevars, requestvars, directvars, accountvars>>
     \/ /\ part = "accounts" /\ AccountsNext
        /\ UNCHANGED <<fencevars, poolvars, samplevars, requestvars, directvars, probevars>>

ClientsSpec == ClientsInit /\ [][ClientsNext]_clientsvars
------------------------------------------------------------------------------
(* The properties of the parts, put together where they say one thing; each *)
(* is said of the part that runs.                                           *)
ClientsTypeOK ==
  CASE part = "fence" -> FenceTypeOK
    [] part = "pools" -> PoolsTypeOK
    [] part = "samples" -> SamplesTypeOK
    [] part = "requests" -> RequestsTypeOK
    [] part \in {"direct", "oneshot"} -> DirectTypeOK
    [] part = "probes" -> ProbesTypeOK
    [] part = "accounts" -> AccountsTypeOK

(* A fence that is still unanswered is the last one handed out, and a wait  *)
(* returns only when its fence was reached (radeon_cp.c).                   *)
FencesAnswered == part = "fence" => PendingFenceIsLast /\ WaitSeesFence

(* Surfaces share no memory, a pool loses none and fails only when it has   *)
(* no room (AuxPoolAlloc, AuxPoolFree, radeon3d_service.c).                 *)
PoolSound == part = "pools" => SurfacesDisjoint /\ PoolNotLeaked /\ FirstFit

(* A sample read is one that was written, and a reader nobody overtakes     *)
(* misses none (RecordExecSample, DumpSamples of radeon3dinfo.c).           *)
SamplesWhole == part = "samples" => NoTornSample /\ QuietReaderGetsAll

(* Whatever a client asks, the engine fetches inside the client's segment,  *)
(* draws and imports inside memory it may draw to, the answer fits its      *)
(* buffer and a fence it may ask about is near the last                     *)
(* (radeon3d_service.c).                                                    *)
RequestsInside ==
  part = "requests" =>
    /\ FetchInsideSegment /\ BatchDrawsInside /\ ImportInsideMemory
    /\ InfoFillsBuffer /\ NearFencesTestable

(* The PowerPC and the host agree on what was granted, announced and        *)
(* executed, in either form of their exchange (phase3host.c, phase2host.c). *)
HandshakesSound ==
  /\ part = "direct" => HandshakeSound
  /\ part = "oneshot" => OneShotSound

(* What a debug build says of the card is so: its probes leave nothing      *)
(* behind and report what the card can do, and its counters add up to what  *)
(* happened (radeon_cp.c, radeon_debug.c).                                  *)
DebugHonest ==
  /\ part = "probes" => ProbesSound
  /\ part = "accounts" => AccountsBalance
==============================================================================
