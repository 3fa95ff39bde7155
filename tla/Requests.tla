------------------------------- MODULE Requests -------------------------------
(***************************************************************************)
(* What radeon3d_service.c accepts of a client: the descriptor of an       *)
(* indirect dispatch, the batch of Radeon3DSubmit, a bitmap to import, the *)
(* size of an info buffer and a fence.  The request stays in the client's  *)
(* memory, where another of its tasks may change it while the service      *)
(* works on it.                                                            *)
(*                                                                         *)
(* Sizes of a segment are in dwords.  A dword of a batch is a triple:      *)
(* what it is as a packet header, the register or packet, and its value.   *)
(* The registers of which a batch must set the published value are a few   *)
(* names for the nineteen of the source.                                   *)
(***************************************************************************)
EXTENDS Integers, Sequences, FiniteSets, SequencesExt, FiniteSetsExt

CONSTANTS
  WORD,          \* 2^32
  SegmentDwords, \* the segments of the session, of 0 dwords if not allocated
  SegmentGpu,    \* their addresses
  IB_ALIGNMENT,  \* of an indirect buffer, in dwords
  MAX_BATCH,     \* RADEON3D_MAX_BATCH_DWORDS
  Before, After, \* the fixed registers before and after RE_WIDTH_HEIGHT
  Target,        \* surfaces a batch can draw to: address -> width, height, pitch
  MAX_VERTICES,
  Memory,        \* of the board: base, and three limits, and address on the card
  PITCH_UNIT,    \* pitches of bitmaps must be its multiples
  InfoSize,      \* the sizes of the four versions of struct Radeon3DInfo
  Asked,         \* what clients ask: sets of dispatches, batches, bitmaps, infos, fences
  Rewrites       \* what they may make of it meanwhile

ASSUME RequestsAssumption ==
  /\ WORD \in Nat \ {0} /\ IB_ALIGNMENT \in Nat \ {0} /\ PITCH_UNIT \in Nat \ {0}
  /\ {MAX_BATCH, MAX_VERTICES} \subseteq Nat
  /\ {Memory.base, Memory.size, Memory.installed, Memory.space, Memory.gpu} \subseteq Nat
  /\ Memory.gpu + Memory.installed <= WORD /\ Memory.base + Memory.space <= WORD
  /\ \A i \in DOMAIN SegmentDwords :
       {SegmentGpu[i], SegmentDwords[i]} \subseteq Nat /\ SegmentGpu[i] + SegmentDwords[i] <= WORD
  /\ \A i \in 1 .. 4 : InfoSize[i] \in Nat
  /\ \A i \in 1 .. 3 : InfoSize[i] < InfoSize[i + 1]

VARIABLES
  kind,    \* which call
  shared,  \* the request in the client's memory
  own,     \* the service's copy
  stage,   \* how far the call is
  emitted  \* what it gave to the command processor, or its answer

requestvars == <<kind, shared, own, stage, emitted>>
------------------------------------------------------------------------------
(* Radeon3DDispatchIndirect, up to Prepare3D; the board is not leased.      *)
Overruns(r) ==
  \/ r.offset >= SegmentDwords[r.segment]
  \/ r.count > SegmentDwords[r.segment] - r.offset

DispatchAccepted(r) ==
  /\ r.flags \in {"none", "NO_FENCE"}
  /\ r.count # 0 /\ r.count % 2 = 0 /\ r.count <= MAX_BATCH
  /\ r.offset % IB_ALIGNMENT = 0
  /\ r.interface >= 18 /\ (r.flags = "NO_FENCE" => r.interface >= 19)
  /\ r.segment \in DOMAIN SegmentDwords /\ SegmentDwords[r.segment] # 0
  /\ ~Overruns(r)
  /\ SegmentGpu[r.segment] <= WORD - 1 - r.offset
------------------------------------------------------------------------------
(* ValidateBatch.                                                           *)
Fill == <<"packet2", "", 0>>
Header(reg) == <<"packet0", reg, 0>>
Draw(dwords) == <<"packet3", "3D_DRAW_IMMD_2", dwords>>
Val(n) == <<"value", "", n>>
Dword == ({"packet0", "packet2", "packet3"} \X STRING \X Nat) \cup ({"value"} \X STRING \X Int)
Extents(width, height) == 16 * (height - 1) + width - 1

(* The stream sets no register twice.                                       *)
ASSUME StreamAssumption ==
  /\ Before \in Seq(STRING) /\ After \in Seq(STRING)
  /\ \A i, j \in DOMAIN Before : Before[i] = Before[j] => i = j
  /\ \A i, j \in DOMAIN After : After[i] = After[j] => i = j
  /\ \A i \in DOMAIN Before, j \in DOMAIN After : Before[i] # After[j]
  /\ {"RE_WIDTH_HEIGHT", "RB3D_COLOROFFSET", "RB3D_COLORPITCH"} \cap (ToSet(Before) \cup ToSet(After)) = {}
  /\ \A address \in DOMAIN Target : {Target[address].width, Target[address].height} \subseteq Nat

(* MatchRegister, for the registers of a sequence one after the other.      *)
MatchRegisters(batch, at, regs) ==
  /\ at + 2 * Len(regs) - 1 <= Len(batch)
  /\ \A i \in 1 .. Len(regs) : /\ batch[at + 2 * i - 2] = Header(regs[i])
                               /\ batch[at + 2 * i - 1] = Val(0)

(* ValidScreenCoordinate of both: not negative, at most the limit.          *)
ValidVertex(x, y, target) == 0 <= x /\ x <= target.width /\ 0 <= y /\ y <= target.height

IsValue(dword) == dword[1] = "value"

(* Exactly the published stream: the fixed registers, the extents of the    *)
(* target that its address then names, its pitch, and one list of whole     *)
(* triangles.                                                               *)
ValidateTriangleBatch(batch) ==
  LET a == 1 + 2 * Len(Before)
      b == a + 2 + 2 * Len(After)
      head == b + 5
      vertexDwords == Len(batch) - head
      vertices == vertexDwords \div 3 IN
  /\ Len(batch) >= head /\ vertexDwords % 3 = 0
  /\ vertices >= 3 /\ vertices <= MAX_VERTICES /\ vertices % 3 = 0
  /\ MatchRegisters(batch, 1, Before)
  /\ batch[a] = Header("RE_WIDTH_HEIGHT")
  /\ MatchRegisters(batch, a + 2, After)
  /\ batch[b] = Header("RB3D_COLOROFFSET")
  /\ \E address \in DOMAIN Target :
       LET target == Target[address] IN
       /\ batch[b + 1] = Val(address)
       /\ batch[a + 1] = Val(Extents(target.width, target.height))
       /\ batch[b + 2] = Header("RB3D_COLORPITCH") /\ batch[b + 3] = Val(target.pitch)
       /\ batch[b + 4] = Draw(vertexDwords)
       /\ batch[b + 5] = Val(vertices)
       /\ \A v \in 0 .. vertices - 1 :
            /\ IsValue(batch[head + 3 * v + 1]) /\ IsValue(batch[head + 3 * v + 2])
            /\ ValidVertex(batch[head + 3 * v + 1][3], batch[head + 3 * v + 2][3], target)

(* Nothing but fill, or the stream from the first dword on.                 *)
ValidateBatch(batch) ==
  /\ batch # <<>> /\ Len(batch) <= MAX_BATCH
  /\ (\A i \in DOMAIN batch : batch[i] = Fill) \/ ValidateTriangleBatch(batch)

(* The command processor: reads a batch packet by packet and does nothing   *)
(* but set registers and draw.  What is left when a packet is cut short, or *)
(* no header, is garbage to it.                                             *)
Executed(batch) ==
  LET step[at \in 1 .. Len(batch) + 1] ==
        IF at > Len(batch) THEN <<>>
        ELSE LET d == batch[at] IN
          IF d[1] = "packet2" THEN step[at + 1]
          ELSE IF d[1] = "packet0" /\ at + 1 <= Len(batch)
          THEN <<[set |-> d[2], to |-> batch[at + 1]]>> \o step[at + 2]
          ELSE IF d[1] = "packet3" /\ at + 1 + d[3] <= Len(batch)
          THEN <<[draw |-> SubSeq(batch, at + 2, at + 1 + d[3])]>> \o step[at + 2 + d[3]]
          ELSE <<[garbage |-> at]>>
  IN step[1]
------------------------------------------------------------------------------
(* Radeon3DImportBitMap.                                                    *)
Formats == [CLUT |-> 1, R5G6B5PC |-> 2, B8G8R8A8 |-> 4]

(* PublicSurfaceFormat: a known format of the size it should have.          *)
PublicSurfaceFormat(m) == m.format \in DOMAIN Formats /\ Formats[m.format] = m.perPixel

MemoryLimit == Min({Memory.size, Memory.installed, Memory.space})

RowFitsWord(m) == m.width <= (WORD - 1) \div m.perPixel

ImportAccepted(m) ==
  LET offset == m.address - Memory.base
      rowBytes == (m.width * m.perPixel) % WORD IN
  /\ m.address # 0 /\ m.address >= Memory.base /\ offset < MemoryLimit
  /\ m.pitch # 0 /\ m.pitch % PITCH_UNIT = 0 /\ m.width # 0 /\ m.height # 0
  /\ PublicSurfaceFormat(m) /\ RowFitsWord(m)
  /\ rowBytes <= m.pitch /\ rowBytes <= MemoryLimit - offset
  /\ m.height - 1 <= (MemoryLimit - offset - rowBytes) \div m.pitch
  /\ Memory.gpu <= WORD - 1 - offset
------------------------------------------------------------------------------
(* FillInfo, and its callers' test of the size: each version that the       *)
(* buffer holds is filled, and the size says how far.                       *)
InfoAccepted(size) == size >= InfoSize[1]

InfoFilled(size) == Max({InfoSize[v] : v \in {w \in 1 .. 4 : size >= InfoSize[w]}})

(* IsSessionFence: the distance to the last fence, as a signed word.        *)
SignedWord(n) == IF n % WORD < WORD \div 2 THEN n % WORD ELSE (n % WORD) - WORD

IsSessionFence(f) == f.fence # 0 /\ f.last # 0 /\ SignedWord(f.last - f.fence) >= 0
------------------------------------------------------------------------------
Accepted(k, r) ==
  CASE k = "dispatch" -> DispatchAccepted(r)
    [] k = "batch" -> ValidateBatch(r)
    [] k = "import" -> ImportAccepted(r)
    [] k = "info" -> InfoAccepted(r.size)
    [] k = "fence" -> IsSessionFence(r)

(* What another task may make of a request as well.                         *)
Asks(k) == Asked[k] \cup (IF k \in DOMAIN Rewrites THEN Rewrites[k] ELSE {})

(* Every argument is of its type.                                           *)
ASSUME AskedAssumption ==
  \A k \in DOMAIN Asked : \A r \in Asks(k) :
    \/ k = "dispatch" /\ {r.offset, r.count} \subseteq 0 .. WORD - 1
    \/ k = "batch" /\ r \in Seq(Dword)
    \/ k = "import" /\ {r.address, r.pitch, r.width, r.height} \subseteq 0 .. WORD - 1
    \/ k = "info" /\ r.size \in 0 .. WORD - 1
    \/ k = "fence" /\ {r.last, r.fence} \subseteq 0 .. WORD - 1

RequestsInit ==
  /\ kind \in DOMAIN Asked
  /\ shared \in Asked[kind]
  /\ own = shared /\ emitted = shared /\ stage = "called"

(* Another task of the client changes a descriptor or a batch.              *)
Rewrite ==
  /\ kind \in DOMAIN Rewrites /\ stage \in {"called", "copied", "accepted"}
  /\ shared' \in Rewrites[kind]
  /\ UNCHANGED <<kind, own, stage, emitted>>

(* The whole request is read before it is looked at.                        *)
TakeCopy ==
  /\ stage = "called" /\ stage' = "copied" /\ own' = shared
  /\ UNCHANGED <<kind, shared, emitted>>

Check ==
  /\ stage = "copied"
  /\ stage' = IF Accepted(kind, own) THEN "accepted" ELSE "refused"
  /\ UNCHANGED <<kind, shared, own, emitted>>

\* Mutant: the client's memory is read again.
UsedAgain == shared

Used == own

(* Prepare3D has come in between; the copy is what is submitted or kept.    *)
Emit ==
  /\ stage = "accepted" /\ stage' = "emitted" /\ emitted' = Used
  /\ UNCHANGED <<kind, shared, own>>

RequestsNext == Rewrite \/ TakeCopy \/ Check \/ Emit

RequestsSpec == RequestsInit /\ [][RequestsNext]_requestvars
------------------------------------------------------------------------------
(* Properties.                                                              *)

RequestsTypeOK ==
  /\ kind \in DOMAIN Asked /\ stage \in {"called", "copied", "accepted", "refused", "emitted"}
  /\ {shared, own, emitted} \subseteq Asks(kind)

Done(k) == stage = "emitted" /\ kind = k

(* What the command processor fetches is inside the session's own segment,  *)
(* whatever the client did to its descriptor meanwhile.                     *)
FetchInsideSegment ==
  Done("dispatch") =>
    /\ emitted.segment \in DOMAIN SegmentDwords
    /\ emitted.count > 0 /\ emitted.offset + emitted.count <= SegmentDwords[emitted.segment]
    /\ SegmentGpu[emitted.segment] + emitted.offset + emitted.count <= WORD

Fixed == ToSet(Before) \cup ToSet(After)

(* What a batch does when it is executed: it sets the fixed registers to    *)
(* their values, draws only inside one surface of the session, with that    *)
(* surface's address, pitch and extents, and every packet is whole.         *)
BatchDrawsInside ==
  Done("batch") =>
    LET did == Executed(emitted)
        sets(reg) == {i \in DOMAIN did : "set" \in DOMAIN did[i] /\ did[i].set = reg}
    IN \/ did = <<>>
       \/ \E address \in DOMAIN Target :
            /\ \A i \in DOMAIN did :
                 \/ /\ "set" \in DOMAIN did[i]
                    /\ \/ did[i].set \in Fixed /\ did[i].to = Val(0)
                       \/ did[i].set = "RB3D_COLOROFFSET" /\ did[i].to = Val(address)
                       \/ did[i].set = "RB3D_COLORPITCH" /\ did[i].to = Val(Target[address].pitch)
                       \/ /\ did[i].set = "RE_WIDTH_HEIGHT"
                          /\ did[i].to = Val(Extents(Target[address].width, Target[address].height))
                 \/ /\ "draw" \in DOMAIN did[i] /\ i = Len(did)
                    /\ \A v \in DOMAIN did[i].draw :
                         /\ v % 3 = 1 => did[i].draw[v][3] \in 0 .. Target[address].width
                         /\ v % 3 = 2 => did[i].draw[v][3] \in 0 .. Target[address].height
            /\ \A reg \in Fixed \cup {"RB3D_COLOROFFSET", "RB3D_COLORPITCH", "RE_WIDTH_HEIGHT"} :
                 Cardinality(sets(reg)) = 1

(* An imported bitmap lies inside the memory of the board with all of its   *)
(* rows, and so do its addresses on the card.                               *)
ImportInsideMemory ==
  Done("import") =>
    LET end == (emitted.height - 1) * emitted.pitch + emitted.width * emitted.perPixel
    IN /\ emitted.width * emitted.perPixel <= emitted.pitch
       /\ emitted.address - Memory.base + end <= MemoryLimit
       /\ Memory.gpu + (emitted.address - Memory.base) + end <= WORD

(* A buffer is never filled beyond its size, and as far as it can be.       *)
InfoFillsBuffer ==
  Done("info") =>
    /\ InfoFilled(emitted.size) <= emitted.size
    /\ \A v \in 1 .. 4 : InfoSize[v] <= emitted.size => InfoSize[v] <= InfoFilled(emitted.size)

(* Of the fences near the last one, those before it can be asked for and    *)
(* those after it cannot, across the wrap as well.                          *)
NearFencesTestable ==
  kind = "fence" /\ stage \in {"refused", "emitted"} =>
    \A d \in 0 .. WORD \div 2 - 1 :
      own.last # 0 /\ own.fence # 0 =>
        /\ own.fence = (own.last - d) % WORD => stage = "emitted"
        /\ d # 0 /\ own.fence = (own.last + d) % WORD => stage = "refused"
==============================================================================
