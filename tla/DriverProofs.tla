------------------------------ MODULE DriverProofs -----------------------------
(***************************************************************************)
(* Theorems about Driver.  About the bring-up of the library for every      *)
(* board, memory and firmware: the blocks of private VRAM tile the top of   *)
(* the memory, the bus is given back, and the service is ready only while   *)
(* the command processor runs.  About the display and the card's POST for   *)
(* every board, mode, ROM and set of registers that the assumptions allow.  *)
(* And from these, and from those about the engine, about the parts side by *)
(* side.                                                                    *)
(***************************************************************************)
EXTENDS Driver, EngineProofs, SequenceTheorems

------------------------------------------------------------------------------
(* The bring-up of the library, and private VRAM.                           *)

(* Blocks are carved in one order whatever is left out, so each can be freed *)
(* when its turn comes.                                                     *)
Rank(kind) ==
  IF kind = "stage" THEN 1 ELSE IF kind = "ring" THEN 2
  ELSE IF kind = "segments" THEN 3 ELSE IF kind = "aux" THEN 4 ELSE 5

Block == [kind : Kinds, at : Int]
Memory == [size : Int, installed : Int, blocks : Seq(Block)]

Tiled(m) ==
  /\ m \in Memory
  /\ \A i \in 1..Len(m.blocks) :
       m.blocks[i].at + BlockBytes(m.blocks[i]) =
         (IF i = 1 THEN m.installed ELSE m.blocks[i - 1].at)
  /\ m.size = IF m.blocks = <<>> THEN m.installed ELSE m.blocks[Len(m.blocks)].at
  /\ \A i, j \in 1..Len(m.blocks) :
       i < j => Rank(m.blocks[i].kind) < Rank(m.blocks[j].kind)
  /\ m.installed \in {0} \cup Installed
  /\ \A i \in 1..Len(m.blocks) : 0 =< m.blocks[i].at /\ m.blocks[i].at =< m.installed

(* All blocks come before the rank n in that order.                         *)
Below(m, n) == \A i \in 1..Len(m.blocks) : Rank(m.blocks[i].kind) < n

LEMMA RankIsInjective ==
  ASSUME NEW a \in Kinds, NEW b \in Kinds
  PROVE  Rank(a) \in 1..5 /\ (Rank(a) = Rank(b) => a = b)
BY DEF Rank, Kinds

(* A whole number of units is no negative size.                             *)
LEMMA RoundedIsInt ==
  ASSUME NEW kind \in Kinds
  PROVE  Rounded(Bytes[kind]) \in Int /\ Rounded(Bytes[kind]) >= 0
<1> DEFINE a == PRIVATE_VRAM_ALIGNMENT
           n == Bytes[kind] + a - 1
           q == n \div a
<1>1. n \in Nat /\ a \in Nat /\ a > 0
  BY BringupAssumption
<1>2. Rounded(Bytes[kind]) = q * a
  BY DEF Rounded
<1>3. q \in Nat
  <2>1. ASSUME NEW u \in Nat, NEW v \in Nat, v > 0
        PROVE  u \div v \in Nat
    BY <2>1
  <2> HIDE DEF n, a
  <2>2. QED
    BY <1>1, <2>1
<1>4. q * a \in Nat
  <2>1. ASSUME NEW u \in Nat, NEW v \in Nat
        PROVE  u * v \in Nat
    BY <2>1
  <2> HIDE DEF q, a
  <2>2. QED
    BY <1>1, <1>3, <2>1
<1> HIDE DEF q, a
<1>5. QED
  BY <1>2, <1>4

LEMMA BlocksTyped ==
  ASSUME NEW m, Tiled(m)
  PROVE  /\ m \in Memory /\ m.size \in Int /\ m.installed \in Int
         /\ m.blocks \in Seq(Block)
         /\ Len(m.blocks) \in Nat /\ DOMAIN m.blocks = 1..Len(m.blocks)
         /\ \A i \in 1..Len(m.blocks) :
              m.blocks[i].kind \in Kinds /\ m.blocks[i].at \in Int /\ Rank(m.blocks[i].kind) \in Int
<1>1. m \in Memory
  BY DEF Tiled
<1>2. /\ m.size \in Int /\ m.installed \in Int
      /\ m.blocks \in Seq(Block)
  BY <1>1 DEF Memory
<1>3. \A i \in 1..Len(m.blocks) : m.blocks[i] \in Block
  BY <1>2, ElementOfSeq
<1>4. \A i \in 1..Len(m.blocks) : m.blocks[i].kind \in Kinds /\ m.blocks[i].at \in Int
  BY <1>3 DEF Block
<1>5. \A i \in 1..Len(m.blocks) : Rank(m.blocks[i].kind) \in Int
  BY <1>4, RankIsInjective
<1>6. QED
  BY <1>1, <1>2, <1>4, <1>5

(* What is left of the memory is inside what is installed.                  *)
LEMMA SizeBounded ==
  ASSUME NEW m, Tiled(m)
  PROVE  m.installed \in Nat /\ m.size \in Int /\ 0 =< m.size /\ m.size =< m.installed
<1>1. m.installed \in Nat
  BY BringupAssumption DEF Tiled
<1>2. CASE m.blocks = <<>>
  BY <1>1, <1>2 DEF Tiled
<1>3. CASE m.blocks # <<>>
  <2>1. Len(m.blocks) \in 1..Len(m.blocks) /\ m.blocks[Len(m.blocks)].at \in Int
    <3>1. Len(m.blocks) \in Nat /\ m.blocks \in Seq(Block)
      BY BlocksTyped
    <3>2. Len(m.blocks) # 0
      BY <1>3, <3>1
    <3>3. Len(m.blocks) \in 1..Len(m.blocks)
      BY <3>1, <3>2
    <3>4. QED
      BY <3>3, BlocksTyped
  <2>2. m.size = m.blocks[Len(m.blocks)].at
    BY <1>3 DEF Tiled
  <2>3. 0 =< m.blocks[Len(m.blocks)].at /\ m.blocks[Len(m.blocks)].at =< m.installed
    BY <2>1 DEF Tiled
  <2>4. QED
    BY <1>1, <2>1, <2>2, <2>3
<1>4. QED
  BY <1>2, <1>3

LEMMA AllocateTiles ==
  ASSUME NEW m, Tiled(m), NEW kind \in Kinds, Below(m, Rank(kind)),
         NEW r, r = RadeonAllocatePrivateVram(m, kind)
  PROVE  Tiled(r) /\ Below(r, Rank(kind) + 1) /\ (Holds(r, "ring") => Holds(m, "ring") \/ kind = "ring")
<1> DEFINE b == [kind |-> kind, at |-> m.size - Rounded(Bytes[kind])]
           n == Len(m.blocks)
<1>1. /\ m.blocks \in Seq(Block) /\ m.size \in Int
      /\ m.installed \in Int /\ m \in Memory
  BY BlocksTyped
<1>2. n \in Nat /\ DOMAIN m.blocks = 1..n
  BY BlocksTyped
<1>3. Rank(kind) \in Int /\ \A i \in 1..n : Rank(m.blocks[i].kind) \in Int
  BY BlocksTyped, RankIsInjective
<1>4. CASE r = m
  <2>1. Below(r, Rank(kind) + 1)
    <3>1. \A i \in 1..n : Rank(m.blocks[i].kind) < Rank(kind) + 1
      BY <1>3 DEF Below
    <3>2. QED
      BY <1>4, <3>1 DEF Below
  <2>2. QED
    BY <1>4, <2>1
<1>5. CASE r # m
  <2>1. /\ r = [m EXCEPT !.size = @ - Rounded(Bytes[kind]), !.blocks = Append(@, b)]
        /\ ~(Rounded(Bytes[kind]) > m.size)
    BY <1>5 DEF RadeonAllocatePrivateVram
  <2>2. b \in Block /\ b.kind = kind /\ b.at = m.size - Rounded(Bytes[kind])
    BY <1>1, RoundedIsInt DEF Block
  <2> HIDE DEF b
  <2>3. /\ r.size = b.at /\ r.installed = m.installed /\ r.blocks = Append(m.blocks, b)
        /\ r \in Memory
    <3> DEFINE q == Append(m.blocks, b)
               z == m.size - Rounded(Bytes[kind])
    <3>1. r = [m EXCEPT !.size = z, !.blocks = q]
      BY <2>1
    <3>2. q \in Seq(Block) /\ z \in Int
      BY <1>1, <2>2, RoundedIsInt
    <3> HIDE DEF q, z
    <3>3. r \in Memory /\ r.size = z /\ r.installed = m.installed /\ r.blocks = q
      BY <1>1, <3>1, <3>2 DEF Memory
    <3>4. QED
      BY <2>2, <3>3 DEF q, z
  <2>4. /\ Len(r.blocks) = n + 1 /\ r.blocks # <<>> /\ r.blocks[n + 1] = b
        /\ \A i \in 1..n : r.blocks[i] = m.blocks[i]
    BY <1>1, <2>2, <2>3
  <2>5. b.at + BlockBytes(b) = m.size
    BY <1>1, <2>2, RoundedIsInt DEF BlockBytes
  <2>6. m.size = IF n = 0 THEN m.installed ELSE m.blocks[n].at
    BY <1>1 DEF Tiled
  <2>7. ASSUME NEW i \in 1..(n + 1)
        PROVE  r.blocks[i].at + BlockBytes(r.blocks[i]) =
                 (IF i = 1 THEN r.installed ELSE r.blocks[i - 1].at)
    <3>1. CASE i = n + 1
      BY <1>2, <2>3, <2>4, <2>5, <2>6, <3>1
    <3>2. CASE i \in 1..n
      <4>1. i = 1 \/ i - 1 \in 1..n
        BY <1>2, <3>2
      <4>2. QED
        BY <2>3, <2>4, <3>2, <4>1 DEF Tiled
    <3>3. QED
      BY <1>2, <2>7, <3>1, <3>2
  <2>8. ASSUME NEW i \in 1..(n + 1), NEW j \in 1..(n + 1), i < j
        PROVE  Rank(r.blocks[i].kind) < Rank(r.blocks[j].kind)
    <3>1. i \in 1..n
      BY <1>2, <2>8
    <3>2. CASE j = n + 1
      BY <2>2, <2>4, <3>1, <3>2 DEF Below
    <3>3. CASE j \in 1..n
      BY <2>4, <2>8, <3>1, <3>3 DEF Tiled
    <3>4. QED
      BY <1>2, <2>8, <3>2, <3>3
  <2>8a. 0 =< b.at /\ b.at =< m.installed
    BY <2>1, <2>2, SizeBounded, RoundedIsInt
  <2>8b. ASSUME NEW i \in 1..(n + 1)
         PROVE  0 =< r.blocks[i].at /\ r.blocks[i].at =< r.installed
    <3>1. CASE i = n + 1
      BY <2>3, <2>4, <2>8a, <3>1
    <3>2. CASE i \in 1..n
      BY <2>3, <2>4, <3>2 DEF Tiled
    <3>3. QED
      BY <1>2, <3>1, <3>2
  <2>8c. r.installed \in {0} \cup Installed
    BY <2>3 DEF Tiled
  <2>9. Tiled(r)
    BY <1>2, <2>3, <2>4, <2>7, <2>8, <2>8b, <2>8c DEF Tiled
  <2>10. Below(r, Rank(kind) + 1)
    <3>1. \A i \in 1..n : Rank(r.blocks[i].kind) < Rank(kind)
      BY <2>4 DEF Below
    <3>2. \A i \in 1..(n + 1) : i \in 1..n \/ i = n + 1
      BY <1>2
    <3>3. Rank(r.blocks[n + 1].kind) = Rank(kind)
      BY <2>2, <2>4
    <3>4. ASSUME NEW i \in 1..(n + 1)
          PROVE  Rank(r.blocks[i].kind) < Rank(kind) + 1
      <4>1. CASE i = n + 1
        BY <1>3, <3>3, <4>1
      <4>2. CASE i \in 1..n
        <5>1. r.blocks[i] = m.blocks[i] /\ Rank(m.blocks[i].kind) \in Int
          BY <1>3, <2>4, <4>2
        <5>2. QED
          BY <1>3, <3>1, <4>2, <5>1
      <4>3. QED
        BY <3>2, <4>1, <4>2
    <3>5. QED
      BY <2>4, <3>4 DEF Below
  <2>11. Holds(r, "ring") => Holds(m, "ring") \/ kind = "ring"
    BY <1>2, <2>2, <2>3, <2>4 DEF Holds
  <2>12. QED
    BY <2>9, <2>10, <2>11
<1>6. QED
  BY <1>4, <1>5

LEMMA FreeTiles ==
  ASSUME NEW m, Tiled(m), NEW kind \in Kinds, Below(m, Rank(kind) + 1),
         NEW r, r = RadeonFreePrivateVram(m, kind)
  PROVE  Tiled(r) /\ Below(r, Rank(kind)) /\ (Holds(r, "ring") => Holds(m, "ring"))
<1> DEFINE n == Len(m.blocks)
<1>1. /\ m.blocks \in Seq(Block) /\ m.size \in Int
      /\ m.installed \in Int /\ m \in Memory
  BY BlocksTyped
<1>2. n \in Nat /\ DOMAIN m.blocks = 1..n
  BY BlocksTyped
<1>3. /\ Rank(kind) \in Int
      /\ \A i \in 1..n : /\ Rank(m.blocks[i].kind) \in Int
                         /\ Rank(m.blocks[i].kind) = Rank(kind) => m.blocks[i].kind = kind
  BY BlocksTyped, RankIsInjective
<1>4. CASE ~Holds(m, kind)
  <2>1. r = m
    BY <1>4 DEF RadeonFreePrivateVram
  <2>2. \A i \in 1..n : Rank(m.blocks[i].kind) < Rank(kind) + 1 /\ m.blocks[i].kind # kind
    BY <1>2, <1>4 DEF Below, Holds
  <2>3. Below(m, Rank(kind))
    BY <1>3, <2>2 DEF Below
  <2>4. QED
    BY <2>1, <2>3
<1>5. CASE Holds(m, kind)
  <2> DEFINE k == CHOOSE j \in DOMAIN m.blocks : m.blocks[j].kind = kind
  <2>1. k \in 1..n /\ m.blocks[k].kind = kind
    BY <1>2, <1>5 DEF Holds
  <2>2. r = IF m.blocks[k].at = m.size
            THEN [m EXCEPT !.size = @ + Rounded(Bytes[kind]), !.blocks = RemoveAt(@, k)]
            ELSE [m EXCEPT !.blocks[k].kind = "lost"]
    BY <1>5 DEF RadeonFreePrivateVram
  <2> HIDE DEF k
(* The block asked for is the last one.                                     *)
  <2>3. k = n
    <3>1. SUFFICES ASSUME k < n PROVE FALSE
      BY <1>2, <2>1
    <3>2. n \in 1..n /\ k \in 1..n
      BY <1>2, <2>1
    <3>3. Rank(m.blocks[k].kind) < Rank(m.blocks[n].kind)
      BY <3>1, <3>2 DEF Tiled
    <3>4. Rank(m.blocks[n].kind) < Rank(kind) + 1
      BY <3>2 DEF Below
    <3>5. Rank(m.blocks[k].kind) = Rank(kind) /\ Rank(m.blocks[n].kind) \in Int
      BY <1>3, <2>1, <3>2
    <3>6. QED
      BY <1>3, <3>3, <3>4, <3>5
  <2>4. m.blocks[n].at = m.size /\ n \in 1..n
    BY <1>1, <2>1, <2>3 DEF Tiled
  <2> DEFINE q == RemoveAt(m.blocks, n)
  <2>5. /\ q \in Seq(Block) /\ Len(q) = n - 1
        /\ \A i \in 1..(n - 1) : q[i] = m.blocks[i]
    <3> DEFINE p == SubSeq(m.blocks, 1, n - 1)
               t == SubSeq(m.blocks, n + 1, n)
    <3>1. t = <<>>
      BY <1>1, <1>2
    <3>2. /\ p \in Seq(Block) /\ Len(p) = n - 1
          /\ \A i \in 1..(n - 1) : p[i] = m.blocks[i]
      BY <1>1, <1>2, <2>4
    <3>3. q = p \o t
      BY DEF RemoveAt
    <3> HIDE DEF p, t, q
    <3>4. q = p
      BY <3>1, <3>2, <3>3
    <3>5. QED
      BY <3>2, <3>4
  <2> HIDE DEF q
  <2>6. r = [m EXCEPT !.size = @ + Rounded(Bytes[kind]), !.blocks = q]
    BY <2>2, <2>3, <2>4 DEF q
  <2>7. /\ r.size = m.size + Rounded(Bytes[kind]) /\ r.installed = m.installed
        /\ r.blocks = q /\ r \in Memory
    <3> DEFINE z == m.size + Rounded(Bytes[kind])
    <3>1. z \in Int /\ r = [m EXCEPT !.size = z, !.blocks = q]
      BY <1>1, <2>6, RoundedIsInt
    <3> HIDE DEF z
    <3>2. r \in Memory /\ r.size = z /\ r.installed = m.installed /\ r.blocks = q
      BY <1>1, <2>5, <3>1 DEF Memory
    <3>3. QED
      BY <3>2 DEF z
  <2>8. r.size = IF n = 1 THEN m.installed ELSE m.blocks[n - 1].at
    <3>1. m.blocks[n].at + BlockBytes(m.blocks[n]) = IF n = 1 THEN m.installed ELSE m.blocks[n - 1].at
      BY <2>4 DEF Tiled
    <3>2. BlockBytes(m.blocks[n]) = Rounded(Bytes[kind])
      BY <2>1, <2>3 DEF BlockBytes
    <3>3. QED
      BY <2>4, <2>7, <3>1, <3>2
  <2>9. \A i \in 1..(n - 1) : i \in 1..n /\ (i = 1 \/ i - 1 \in 1..(n - 1))
    BY <1>2
  <2>10. Tiled(r)
    <3>1. \A i \in 1..Len(q) : q[i].at + BlockBytes(q[i]) = (IF i = 1 THEN m.installed ELSE q[i - 1].at)
      BY <2>5, <2>9 DEF Tiled
    <3>2. r.size = IF q = <<>> THEN m.installed ELSE q[Len(q)].at
      <4>1. CASE n = 1
        BY <2>5, <2>8, <4>1
      <4>2. CASE n # 1
        <5>1. n - 1 \in 1..(n - 1) /\ Len(q) = n - 1 /\ q # <<>>
          <6>1. n \in Nat /\ n \in 1..n /\ n # 1
            BY <1>2, <2>4, <4>2
          <6> HIDE DEF n
          <6>2. n - 1 \in 1..(n - 1) /\ n - 1 # 0
            BY <6>1
          <6>3. Len(q) = n - 1 /\ Len(<<>>) = 0
            BY <2>5
          <6>4. QED
            BY <6>2, <6>3
        <5>2. q[n - 1] = m.blocks[n - 1]
          BY <2>5, <5>1
        <5>3. QED
          BY <2>8, <4>2, <5>1, <5>2
      <4>3. QED
        BY <4>1, <4>2
    <3>3. \A i, j \in 1..Len(q) : i < j => Rank(q[i].kind) < Rank(q[j].kind)
      BY <2>5, <2>9 DEF Tiled
    <3>4. \A i \in 1..Len(q) : 0 =< q[i].at /\ q[i].at =< m.installed
      BY <2>5, <2>9 DEF Tiled
    <3>5. m.installed \in {0} \cup Installed
      BY DEF Tiled
    <3>6. QED
      BY <2>7, <3>1, <3>2, <3>3, <3>4, <3>5 DEF Tiled
  <2>11. Below(r, Rank(kind))
    <3>1. \A i \in 1..(n - 1) : Rank(m.blocks[i].kind) < Rank(m.blocks[n].kind)
      BY <1>2, <2>4 DEF Tiled
    <3>2. QED
      BY <2>1, <2>3, <2>5, <2>7, <3>1 DEF Below
  <2>12. Holds(r, "ring") => Holds(m, "ring")
    <3>1. DOMAIN q = 1..(n - 1)
      BY <2>5
    <3>2. QED
      BY <1>2, <2>5, <2>7, <2>9, <3>1 DEF Holds
  <2>13. QED
    BY <2>10, <2>11, <2>12
<1>6. QED
  BY <1>4, <1>5
------------------------------------------------------------------------------
(* The chip as the functions of the driver pass it on.                      *)
Words == {"master", "enabled"} \cup {f.command : f \in Firmware} \cup {f.cntl : f \in Firmware}
Libs == [alive : BOOLEAN, open : 0..MaxOpen, delexp : BOOLEAN, prometheus : BOOLEAN, sessions : 0..1]
Services == [state : {"EMPTY", "INITIALIZING", "ATTACHED", "READY"}, bound : BOOLEAN,
             at : {"idle", "hardware", "attach"}, featured : BOOLEAN]
Cps == [up : BOOLEAN, ready : BOOLEAN, configured : BOOLEAN, saved : Firmware]
Buses == [command : Words, cntl : Words, queue : BOOLEAN, microcode : BOOLEAN,
          firmware : Firmware]
Chip == [lib : Libs, service : Services, mem : Memory, cp : Cps, bus : Buses]

Bussed(c, b) ==
  /\ ~c.configured => b.command = b.firmware.command /\ b.cntl = b.firmware.cntl
  /\ c.configured => c.saved.command = b.firmware.command /\ c.saved.cntl = b.firmware.cntl

(* What holds in the middle of a start, too, ...                            *)
Sane(s) ==
  /\ s \in Chip /\ Tiled(s.mem) /\ Bussed(s.cp, s.bus)
  /\ Holds(s.mem, "ring") => s.cp.up

(* ... and what only between them.                                          *)
Running(c, b) ==
  /\ c.ready => c.up
  /\ c.configured => c.ready
  /\ b.queue => c.ready /\ b.microcode

Resting(s) == Sane(s) /\ Running(s.cp, s.bus)

(* Nothing changed but the command processor, the bus and the memory.       *)
Alike(s, r) == r.lib = s.lib /\ r.service = s.service

LEMMA ChipFields ==
  ASSUME NEW s \in Chip
  PROVE  /\ s = [lib |-> s.lib, service |-> s.service, mem |-> s.mem, cp |-> s.cp, bus |-> s.bus]
         /\ s.lib \in Libs /\ s.service \in Services /\ s.mem \in Memory
         /\ s.cp \in Cps /\ s.bus \in Buses
BY DEF Chip

LEMMA ChipFrom ==
  ASSUME NEW l \in Libs, NEW v \in Services, NEW m \in Memory, NEW c \in Cps, NEW b \in Buses,
         NEW s, s = [lib |-> l, service |-> v, mem |-> m, cp |-> c, bus |-> b]
  PROVE  s \in Chip /\ s.lib = l /\ s.service = v /\ s.mem = m /\ s.cp = c /\ s.bus = b
BY DEF Chip

LEMMA FirmwareWords ==
  /\ {"master", "enabled"} \subseteq Words
  /\ \A f \in Firmware : f.command \in Words /\ f.cntl \in Words
<1>1. ASSUME NEW f \in Firmware
      PROVE  f.command \in Words /\ f.cntl \in Words
  BY DEF Words
<1>2. QED
  BY <1>1 DEF Words

LEMMA NoCpIsOff ==
  NoCp \in Cps /\ ~NoCp.up /\ ~NoCp.ready /\ ~NoCp.configured
<1>1. (CHOOSE f \in Firmware : TRUE) \in Firmware
  BY BringupAssumption
<1>2. QED
  BY <1>1, FirmwareWords DEF NoCp, Cps

(* The command processor stopped and its bus settings given back.           *)
LEMMA CpOff ==
  ASSUME NEW s, Sane(s), NEW r, r = CpRestoreBus(CpDisable(s))
  PROVE  /\ Resting(r) /\ ~r.cp.ready /\ ~r.cp.configured /\ ~r.bus.queue
         /\ r.cp.up = s.cp.up /\ r.mem = s.mem /\ Alike(s, r)
<1> DEFINE c == [s.cp EXCEPT !.ready = FALSE]
           b == [s.bus EXCEPT !.queue = FALSE]
           d == [s EXCEPT !.cp = c, !.bus = b]
<1>1. CpDisable(s) = d
  BY DEF CpDisable
<1>2. /\ s.lib \in Libs /\ s.service \in Services /\ s.mem \in Memory
      /\ s.cp \in Cps /\ s.bus \in Buses /\ s \in Chip
  BY ChipFields DEF Sane
<1>3. /\ c \in Cps /\ ~c.ready /\ c.up = s.cp.up /\ c.configured = s.cp.configured
      /\ c.saved = s.cp.saved /\ c.saved \in Firmware /\ c.saved.command \in Words /\ c.saved.cntl \in Words
  BY <1>2, FirmwareWords DEF Cps
<1>4. /\ b \in Buses /\ ~b.queue /\ b.command = s.bus.command /\ b.cntl = s.bus.cntl
      /\ b.firmware = s.bus.firmware /\ b.firmware \in Firmware
  BY <1>2 DEF Buses
<1> HIDE DEF c, b
<1>5. /\ d \in Chip /\ d.cp = c /\ d.bus = b /\ d.mem = s.mem /\ Alike(s, d)
  BY <1>2, <1>3, <1>4 DEF Chip, Alike
<1> HIDE DEF d
<1>6. CASE ~c.configured
  <2>1. r = d
    BY <1>1, <1>5, <1>6 DEF CpRestoreBus
  <2>2. QED
    BY <1>3, <1>4, <1>5, <1>6, <2>1 DEF Resting, Running, Sane, Bussed
<1>7. CASE c.configured
  <2> DEFINE k == [c EXCEPT !.configured = FALSE]
             u == [b EXCEPT !.command = c.saved.command, !.cntl = c.saved.cntl]
  <2>1. r = [d EXCEPT !.cp = k, !.bus = u]
    BY <1>1, <1>5, <1>7 DEF CpRestoreBus
  <2>2. k \in Cps /\ ~k.ready /\ ~k.configured /\ k.up = c.up
    BY <1>3 DEF Cps
  <2>3. /\ u \in Buses /\ ~u.queue /\ u.command = c.saved.command /\ u.cntl = c.saved.cntl
        /\ u.firmware = b.firmware
    BY <1>3, <1>4 DEF Buses
  <2> HIDE DEF k, u
  <2>4. /\ r \in Chip /\ r.cp = k /\ r.bus = u /\ r.mem = s.mem /\ Alike(s, r)
    BY <1>5, <2>1, <2>2, <2>3 DEF Chip, Alike
  <2>5. u.command = u.firmware.command /\ u.cntl = u.firmware.cntl
    BY <1>3, <1>4, <1>7, <2>3 DEF Sane, Bussed
  <2>6. QED
    BY <1>3, <2>2, <2>3, <2>4, <2>5 DEF Resting, Running, Sane, Bussed
<1>8. QED
  BY <1>6, <1>7

LEMMA CpStarts ==
  ASSUME NEW s, Sane(s), s.cp.up, ~s.cp.configured, NEW fails, NEW r, r = CpStart(s, fails)
  PROVE  /\ Sane(r) /\ r.cp.up /\ r.mem = s.mem /\ Alike(s, r)
         /\ fails = "none" => Resting(r) /\ r.cp.ready
<1> DEFINE reached == Reaches(fails, "microcode")
           mastered == Reaches(fails, "master")
           runs == reached /\ fails # "configure"
           word == IF fails = "master" THEN s.bus.command ELSE "master"
           cntl == IF mastered THEN "enabled" ELSE s.bus.cntl
           loaded == s.bus.microcode \/ reached
           kept == [command |-> s.bus.command, cntl |-> s.bus.cntl]
           c == [s.cp EXCEPT !.configured = TRUE, !.saved = kept, !.ready = runs]
           b == [s.bus EXCEPT !.command = word, !.cntl = cntl, !.microcode = loaded,
                              !.queue = reached]
<1>1. r = [s EXCEPT !.cp = c, !.bus = b]
  BY DEF CpStart
<1>2. /\ s.lib \in Libs /\ s.service \in Services /\ s.mem \in Memory
      /\ s.cp \in Cps /\ s.bus \in Buses /\ s \in Chip
  BY ChipFields DEF Sane
<1>3. reached \in BOOLEAN /\ mastered \in BOOLEAN /\ (fails = "none" => reached)
  BY DEF Reaches, Hurdles
<1> HIDE DEF reached, mastered
<1>4. runs \in BOOLEAN /\ (runs => reached) /\ (fails = "none" => runs)
  BY <1>3
<1>5. s.bus.command \in Words /\ s.bus.cntl \in Words /\ s.bus.microcode \in BOOLEAN
  BY <1>2 DEF Buses
<1>6. word \in Words /\ cntl \in Words
  BY <1>3, <1>5, FirmwareWords
<1>7. loaded \in BOOLEAN /\ (reached => loaded)
  BY <1>3, <1>5
<1>8. kept \in Firmware /\ kept.command = s.bus.command /\ kept.cntl = s.bus.cntl
  <2>1. s.bus.command = s.bus.firmware.command /\ s.bus.cntl = s.bus.firmware.cntl
    BY DEF Sane, Bussed
  <2>2. s.bus.firmware \in Firmware
    BY <1>2 DEF Buses
  <2>3. s.bus.firmware = [command |-> s.bus.firmware.command, cntl |-> s.bus.firmware.cntl]
    BY <2>2, BringupAssumption
  <2>4. kept = s.bus.firmware
    BY <2>1, <2>3
  <2>5. QED
    BY <2>1, <2>2, <2>4
<1> HIDE DEF runs, word, cntl, loaded, kept
<1>9. c \in Cps /\ c.up /\ c.configured /\ c.saved = kept /\ c.ready = runs
  BY <1>2, <1>4, <1>8 DEF Cps
<1>10. /\ b \in Buses /\ b.firmware = s.bus.firmware /\ b.queue = reached /\ b.microcode = loaded
  BY <1>2, <1>3, <1>6, <1>7 DEF Buses
<1> HIDE DEF c, b
<1>11. /\ r \in Chip /\ r.cp = c /\ r.bus = b /\ r.mem = s.mem /\ Alike(s, r)
  BY <1>1, <1>2, <1>9, <1>10 DEF Chip, Alike
<1>12. Bussed(c, b)
  BY <1>8, <1>9, <1>10 DEF Sane, Bussed
<1>13. Sane(r)
  BY <1>9, <1>11, <1>12 DEF Sane
<1>14. fails = "none" => Running(c, b) /\ c.ready
  BY <1>3, <1>4, <1>7, <1>9, <1>10 DEF Running
<1>15. QED
  BY <1>9, <1>11, <1>13, <1>14 DEF Resting

LEMMA RankValues ==
  /\ Rank("stage") = 1 /\ Rank("ring") = 2 /\ Rank("segments") = 3
  /\ Rank("aux") = 4 /\ Rank("cursor") = 5
BY DEF Rank

LEMMA BelowRing ==
  ASSUME NEW m, Tiled(m), Below(m, 3), ~Holds(m, "ring")
  PROVE  Below(m, 2)
<1>1. \A i \in 1..Len(m.blocks) :
        /\ Rank(m.blocks[i].kind) < 3 /\ m.blocks[i].kind # "ring"
        /\ m.blocks[i].kind \in Kinds
  BY BlocksTyped DEF Below, Holds
<1>2. \A k \in Kinds : Rank(k) < 3 /\ k # "ring" => Rank(k) < 2
  BY DEF Rank, Kinds
<1>3. QED
  BY <1>1, <1>2 DEF Below

LEMMA BelowMore ==
  ASSUME NEW m, Tiled(m), NEW n \in Int, NEW k \in Int, n =< k, Below(m, n)
  PROVE  Below(m, k)
BY BlocksTyped DEF Below

(* The same chip with other memory.                                         *)
LEMMA WithMemory ==
  ASSUME NEW s, Sane(s), NEW m, Tiled(m), Holds(m, "ring") => s.cp.up,
         NEW r, r = [s EXCEPT !.mem = m]
  PROVE  /\ Sane(r) /\ r.mem = m /\ r.cp = s.cp /\ r.bus = s.bus /\ Alike(s, r)
         /\ Resting(s) => Resting(r)
<1>1. m \in Memory /\ s \in Chip
  BY DEF Tiled, Sane
<1>2. r \in Chip /\ r.mem = m /\ r.cp = s.cp /\ r.bus = s.bus /\ Alike(s, r)
  BY <1>1 DEF Chip, Alike
<1>3. QED
  BY <1>2 DEF Sane, Resting

LEMMA CpShutdownRests ==
  ASSUME NEW s, Sane(s), Below(s.mem, 3), s.cp.up \/ Resting(s),
         NEW r, r = RadeonCpShutdown(s)
  PROVE  Resting(r) /\ ~r.cp.up /\ ~r.cp.ready /\ Below(r.mem, 2) /\ Alike(s, r)
<1>1. CASE ~s.cp.up
  <2>1. r = s
    BY <1>1 DEF RadeonCpShutdown
  <2>2. ~Holds(s.mem, "ring") /\ Tiled(s.mem) /\ ~s.cp.ready
    BY <1>1 DEF Sane, Resting, Running
  <2>3. QED
    BY <1>1, <2>1, <2>2, BelowRing DEF Alike
<1>2. CASE s.cp.up
  <2> DEFINE o == CpRestoreBus(CpDisable(s))
             m == RadeonFreePrivateVram(o.mem, "ring")
  <2>1. /\ Resting(o) /\ ~o.cp.ready /\ ~o.cp.configured /\ ~o.bus.queue
        /\ o.mem = s.mem /\ Alike(s, o)
    BY CpOff
  <2>2. r = [o EXCEPT !.mem = m, !.cp = NoCp]
    BY <1>2 DEF RadeonCpShutdown
  <2> HIDE DEF o
  <2>3. Tiled(o.mem) /\ Below(o.mem, Rank("ring") + 1) /\ "ring" \in Kinds /\ o \in Chip
    BY <2>1, RankValues DEF Resting, Sane, Kinds
  <2>4. Tiled(m) /\ Below(m, Rank("ring"))
    BY <2>3, FreeTiles
  <2> HIDE DEF m
  <2>5. Below(m, 2) /\ m \in Memory
    BY <2>4, RankValues DEF Tiled
  <2>6. /\ r \in Chip /\ r.mem = m /\ r.cp = NoCp /\ r.bus = o.bus
        /\ r.lib = o.lib /\ r.service = o.service
    BY <2>2, <2>3, <2>5, NoCpIsOff DEF Chip
  <2>7. \A i \in 1..Len(m.blocks) : m.blocks[i].kind # "ring"
    BY <2>5, RankValues DEF Below
  <2>8. ~Holds(m, "ring")
    BY <2>4, <2>7, BlocksTyped DEF Holds
  <2>9. Bussed(NoCp, o.bus) /\ Running(NoCp, o.bus)
    BY <2>1, NoCpIsOff DEF Resting, Sane, Bussed, Running
  <2>10. QED
    BY <2>1, <2>4, <2>5, <2>6, <2>8, <2>9, NoCpIsOff DEF Resting, Sane, Alike
<1>3. QED
  BY <1>1, <1>2

LEMMA CpInitializeRests ==
  ASSUME NEW s, Resting(s), ~s.cp.up, Below(s.mem, 2), NEW fails,
         NEW r, r = RadeonCpInitialize(s, fails)
  PROVE  Resting(r) /\ Below(r.mem, 3) /\ Alike(s, r)
<1> DEFINE ring == RadeonAllocatePrivateVram(s.mem, "ring")
           c == [s.cp EXCEPT !.up = TRUE]
           up == [s EXCEPT !.cp = c]
           on == [up EXCEPT !.mem = ring]
           started == CpStart(on, fails)
<1>1. \/ r = s
      \/ r = RadeonCpShutdown(up)
      \/ fails = "none" /\ r = started
      \/ r = RadeonCpShutdown(started)
  BY DEF RadeonCpInitialize
<1>2. s \in Chip /\ Tiled(s.mem) /\ s.cp \in Cps /\ ~s.cp.configured /\ Below(s.mem, 3)
  BY BelowMore, ChipFields DEF Resting, Sane, Running
<1>3. c \in Cps /\ c.up /\ ~c.configured /\ c.saved = s.cp.saved
  BY <1>2 DEF Cps
<1> HIDE DEF c
<1>4. /\ up \in Chip /\ up.cp = c /\ up.bus = s.bus /\ up.mem = s.mem /\ Alike(s, up)
  BY <1>2, <1>3 DEF Chip, Alike
<1> HIDE DEF up
<1>5. Sane(up)
  BY <1>2, <1>3, <1>4 DEF Resting, Sane, Bussed
<1>6. Tiled(ring) /\ Below(ring, 3)
  <2>1. Below(s.mem, Rank("ring")) /\ "ring" \in Kinds /\ Rank("ring") + 1 = 3
    BY RankValues DEF Kinds
  <2>2. Tiled(ring) /\ Below(ring, Rank("ring") + 1)
    BY <1>2, <2>1, AllocateTiles
  <2>3. QED
    BY <2>1, <2>2
<1> HIDE DEF ring
<1>7. Sane(on) /\ on.mem = ring /\ on.cp = c /\ Alike(up, on)
  BY <1>3, <1>4, <1>5, <1>6, WithMemory
<1> HIDE DEF on
<1>8. /\ Sane(started) /\ started.cp.up /\ started.mem = ring /\ Alike(on, started)
      /\ fails = "none" => Resting(started)
  BY <1>3, <1>7, CpStarts
<1> HIDE DEF started
<1>9. CASE r = s
  BY <1>2, <1>9 DEF Alike
<1>10. CASE r = RadeonCpShutdown(up)
  <2>1. Resting(r) /\ Below(r.mem, 2) /\ Alike(up, r)
    BY <1>2, <1>3, <1>4, <1>5, <1>10, CpShutdownRests
  <2>2. QED
    BY <1>4, <2>1, BelowMore DEF Alike, Resting, Sane
<1>11. CASE fails = "none" /\ r = started
  BY <1>4, <1>6, <1>7, <1>8, <1>11 DEF Alike
<1>12. CASE r = RadeonCpShutdown(started)
  <2>1. Resting(r) /\ Below(r.mem, 2) /\ Alike(started, r)
    BY <1>6, <1>8, <1>12, CpShutdownRests
  <2>2. Alike(s, r)
    BY <1>4, <1>7, <1>8, <2>1 DEF Alike
  <2>3. QED
    BY <2>1, <2>2, BelowMore DEF Resting, Sane
<1>13. QED
  BY <1>1, <1>9, <1>10, <1>11, <1>12

(* A pool or the cursor, carved where its turn is.                          *)
LEMMA AllocateRests ==
  ASSUME NEW s, Resting(s), NEW kind \in Kinds, kind # "ring", Below(s.mem, Rank(kind)),
         NEW m, m = RadeonAllocatePrivateVram(s.mem, kind), NEW r, r = [s EXCEPT !.mem = m]
  PROVE  /\ Resting(r) /\ Below(r.mem, Rank(kind) + 1) /\ r.mem = m
         /\ r.cp = s.cp /\ Alike(s, r)
<1>1. /\ Tiled(m) /\ Below(m, Rank(kind) + 1)
      /\ Holds(m, "ring") => Holds(s.mem, "ring")
  BY AllocateTiles DEF Resting, Sane
<1>2. QED
  BY <1>1, WithMemory DEF Resting, Sane

LEMMA FreeRests ==
  ASSUME NEW s, Resting(s), NEW kind \in Kinds, Below(s.mem, Rank(kind) + 1),
         NEW m, m = RadeonFreePrivateVram(s.mem, kind), NEW r, r = [s EXCEPT !.mem = m]
  PROVE  Resting(r) /\ Below(r.mem, Rank(kind)) /\ r.mem = m /\ r.cp = s.cp /\ Alike(s, r)
<1>1. Tiled(m) /\ Below(m, Rank(kind)) /\ (Holds(m, "ring") => Holds(s.mem, "ring"))
  BY FreeTiles DEF Resting, Sane
<1>2. QED
  BY <1>1, WithMemory DEF Resting, Sane

LEMMA AccelerationRests ==
  ASSUME NEW s, Resting(s), ~s.cp.up, Below(s.mem, 1),
         NEW enableCp \in BOOLEAN, NEW stage \in BOOLEAN, NEW eng \in BOOLEAN, NEW fails,
         NEW r, r = RadeonInitializeAcceleration(s, enableCp, stage, eng, fails)
  PROVE  Resting(r) /\ Below(r.mem, 5) /\ Alike(s, r)
<1> DEFINE staged == stage /\ s.mem.size > Bytes["stage"] + STAGE_SLACK
           m == RadeonAllocatePrivateVram(s.mem, "stage")
           t == [s EXCEPT !.mem = m]
           s1 == IF staged THEN t ELSE s
           s2 == IF enableCp THEN RadeonCpInitialize(s1, fails) ELSE s1
           seg == RadeonAllocatePrivateVram(s2.mem, "segments")
           aux == RadeonAllocatePrivateVram(seg, "aux")
           p == [s2 EXCEPT !.mem = seg]
           q == [s2 EXCEPT !.mem = aux]
<1>1. r = s \/ r = s2 \/ r = q
  BY DEF RadeonInitializeAcceleration
<1>2. Tiled(s.mem) /\ Below(s.mem, 2) /\ Below(s.mem, 5)
  BY BelowMore DEF Resting, Sane
<1>3. Resting(s1) /\ ~s1.cp.up /\ Below(s1.mem, 2) /\ Alike(s, s1)
  <2>1. "stage" \in Kinds /\ "stage" # "ring" /\ Below(s.mem, Rank("stage"))
    BY RankValues DEF Kinds
  <2>2. Resting(t) /\ Below(t.mem, Rank("stage") + 1) /\ t.cp = s.cp /\ Alike(s, t)
    BY <2>1, AllocateRests
  <2> HIDE DEF t
  <2>3. Below(t.mem, 2)
    BY <2>2, RankValues
  <2>4. QED
    BY <1>2, <2>2, <2>3 DEF Alike
<1> HIDE DEF s1
<1>4. Resting(s2) /\ Below(s2.mem, 3) /\ Alike(s, s2)
  <2>1. CASE enableCp
    <3>1. s2 = RadeonCpInitialize(s1, fails)
      BY <2>1
    <3> HIDE DEF s2
    <3>2. Resting(s2) /\ Below(s2.mem, 3) /\ Alike(s1, s2)
      BY <1>3, <3>1, CpInitializeRests
    <3>3. QED
      BY <1>3, <3>2 DEF Alike
  <2>2. CASE ~enableCp
    <3>1. s2 = s1
      BY <2>2
    <3> HIDE DEF s2
    <3>2. QED
      BY <1>3, <3>1, BelowMore DEF Resting, Sane
  <2>3. QED
    BY <2>1, <2>2
<1> HIDE DEF s2
<1>5. Below(s2.mem, 5)
  BY <1>4, BelowMore DEF Resting, Sane
<1>6. Resting(q) /\ Below(q.mem, 5) /\ Alike(s2, q)
  <2>1. {"segments", "aux"} \subseteq Kinds /\ Below(s2.mem, Rank("segments"))
    BY <1>4, RankValues DEF Kinds
  <2>2. Resting(p) /\ Below(p.mem, Rank("segments") + 1) /\ p.mem = seg /\ Alike(s2, p)
    BY <1>4, <2>1, AllocateRests
  <2>3. q = [p EXCEPT !.mem = aux]
    OBVIOUS
  <2>4. aux = RadeonAllocatePrivateVram(p.mem, "aux")
    BY <2>2
  <2> HIDE DEF p, q, aux
  <2>5. Below(p.mem, Rank("aux"))
    BY <2>2, RankValues
  <2>6. Resting(q) /\ Below(q.mem, Rank("aux") + 1) /\ Alike(p, q)
    BY <2>1, <2>2, <2>3, <2>4, <2>5, AllocateRests
  <2>7. QED
    BY <2>2, <2>6, RankValues DEF Alike
<1> HIDE DEF q
<1>7. QED
  BY <1>1, <1>2, <1>4, <1>5, <1>6 DEF Alike

LEMMA CallbacksRest ==
  ASSUME NEW s, Resting(s), Below(s.mem, 5), NEW sprite \in BOOLEAN,
         NEW r, r = InstallBoardCallbacks(s, sprite)
  PROVE  Resting(r) /\ r.cp = s.cp /\ Alike(s, r)
<1> DEFINE m == RadeonAllocatePrivateVram(s.mem, "cursor")
           t == [s EXCEPT !.mem = m]
<1>1. r = s \/ r = t
  BY DEF InstallBoardCallbacks
<1>2. "cursor" \in Kinds /\ "cursor" # "ring" /\ Below(s.mem, Rank("cursor"))
  BY RankValues DEF Kinds
<1>3. Resting(t) /\ t.cp = s.cp /\ Alike(s, t)
  BY <1>2, AllocateRests
<1> HIDE DEF t
<1>4. QED
  BY <1>1, <1>3 DEF Alike

LEMMA FinishRests ==
  ASSUME NEW s, Resting(s), NEW r, r = RadeonFinishBoardRelease(s)
  PROVE  /\ Resting(r) /\ ~r.cp.up /\ Below(r.mem, 2) /\ r.lib = s.lib
         /\ r.service.state = "EMPTY" /\ r.service.bound = s.service.bound
         /\ r.service.at = s.service.at
<1> DEFINE m1 == RadeonFreePrivateVram(s.mem, "cursor")
           s1 == [s EXCEPT !.mem = m1]
           m2 == RadeonFreePrivateVram(s1.mem, "aux")
           s2 == [s1 EXCEPT !.mem = m2]
           m3 == RadeonFreePrivateVram(s2.mem, "segments")
           s3 == [s2 EXCEPT !.mem = m3]
           f == RadeonCpShutdown(s3)
           v == [f.service EXCEPT !.state = "EMPTY"]
<1>1. {"cursor", "aux", "segments"} \subseteq Kinds /\ Tiled(s.mem) /\ s \in Chip
  BY DEF Kinds, Resting, Sane
<1>2. Below(s.mem, Rank("cursor") + 1)
  <2>1. \A i \in 1..Len(s.mem.blocks) : Rank(s.mem.blocks[i].kind) \in 1..5
    BY <1>1, BlocksTyped, RankIsInjective
  <2>2. QED
    BY <2>1, RankValues DEF Below
<1>3. Resting(s1) /\ Below(s1.mem, Rank("cursor")) /\ s1.mem = m1 /\ Alike(s, s1)
  BY <1>1, <1>2, FreeRests
<1>4. RadeonShutdownCursor(s) = s1
  BY DEF RadeonShutdownCursor
<1> HIDE DEF s1
<1>5. Below(s1.mem, Rank("aux") + 1) /\ s1 \in Chip
  BY <1>3, RankValues DEF Resting, Sane
<1>6. Resting(s2) /\ Below(s2.mem, Rank("aux")) /\ s2.mem = m2 /\ Alike(s1, s2)
  BY <1>1, <1>3, <1>5, FreeRests
<1>7. s3 = [s1 EXCEPT !.mem = RadeonFreePrivateVram(m2, "segments")]
  BY <1>6
<1>8. r = [f EXCEPT !.service = v]
  BY <1>4, <1>7 DEF RadeonFinishBoardRelease, RadeonShutdownAcceleration
<1> HIDE DEF s2
<1>9. Below(s2.mem, Rank("segments") + 1)
  BY <1>6, RankValues
<1>10. Resting(s3) /\ Below(s3.mem, Rank("segments")) /\ Alike(s2, s3)
  BY <1>1, <1>6, <1>9, FreeRests
<1> HIDE DEF s3
<1>11. Below(s3.mem, 3) /\ Sane(s3)
  BY <1>10, RankValues DEF Resting
<1>12. Resting(f) /\ ~f.cp.up /\ Below(f.mem, 2) /\ Alike(s3, f)
  BY <1>10, <1>11, CpShutdownRests
<1> HIDE DEF f
<1>13. f.service = s.service /\ f.lib = s.lib /\ f \in Chip
  BY <1>3, <1>6, <1>10, <1>12 DEF Alike, Resting, Sane
<1>14. /\ v \in Services /\ v.state = "EMPTY" /\ v.bound = f.service.bound
       /\ v.at = f.service.at
  BY <1>13, ChipFields DEF Services
<1> HIDE DEF v
<1>15. r \in Chip /\ r.mem = f.mem /\ r.cp = f.cp /\ r.bus = f.bus /\ r.lib = f.lib /\ r.service = v
  BY <1>8, <1>13, <1>14 DEF Chip
<1>16. QED
  BY <1>12, <1>13, <1>14, <1>15 DEF Resting, Sane

(* Who calls InitChip has the library open, and a board has prometheus's.   *)
Opened(l, v) ==
  /\ v.at # "idle" => l.open >= 1
  /\ v.bound => l.alive /\ l.prometheus

(* The chip between two calls.                                              *)
Whole(s) ==
  /\ Resting(s)
  /\ s.service.state = "READY" => s.service.bound /\ s.service.featured /\ s.cp.ready
  /\ s.service.state = "EMPTY" => ~s.service.bound /\ ~s.cp.up /\ Below(s.mem, 2)
  /\ s.service.state = "INITIALIZING" => s.service.bound /\ ~s.cp.up
  /\ s.service.state = "ATTACHED" /\ ~s.service.featured => s.mem.blocks = <<>> /\ ~s.cp.up
  /\ s.service.at # "idle" => s.service.state = "INITIALIZING"
  /\ s.service.at = "attach" => s.mem.blocks = <<>>
  /\ s.service.state = "INITIALIZING" => s.service.at # "idle"
  /\ ~s.service.bound => s.service.state = "EMPTY"
  /\ Opened(s.lib, s.service)

BringupInv == Whole(ChipNow)

(* A step that changes the library base alone.                              *)
LEMMA WithLib ==
  ASSUME NEW s, Whole(s), NEW l \in Libs, Opened(l, s.service), NEW r, r = [s EXCEPT !.lib = l]
  PROVE  Whole(r)
<1>1. /\ r \in Chip /\ r.lib = l /\ r.service = s.service /\ r.mem = s.mem /\ r.cp = s.cp /\ r.bus = s.bus
  BY DEF Whole, Resting, Sane, Chip
<1>2. QED
  BY <1>1 DEF Whole, Resting, Sane

(* And one that changes the service state alone.                            *)
LEMMA WithService ==
  ASSUME NEW s, Resting(s), NEW v \in Services, NEW r, r = [s EXCEPT !.service = v]
  PROVE  /\ Resting(r) /\ r.service = v /\ r.lib = s.lib /\ r.mem = s.mem
         /\ r.cp = s.cp /\ r.bus = s.bus
<1>1. /\ r \in Chip /\ r.service = v /\ r.lib = s.lib /\ r.mem = s.mem
      /\ r.cp = s.cp /\ r.bus = s.bus
  BY DEF Resting, Sane, Chip
<1>2. QED
  BY <1>1 DEF Resting, Sane

LEMMA ReleaseIsWhole ==
  ASSUME NEW s, Resting(s), NEW allow \in BOOLEAN,
         NEW r, r = RadeonReleaseBoard(s, allow),
         ~allow => Whole(s),
         allow => s.service.bound /\ s.service.at = "idle"
  PROVE  Whole(r) /\ r.lib = s.lib /\ (s.service.at = "idle" => ~r.service.bound /\ r.service.at = "idle")
<1> DEFINE v == [s.service EXCEPT !.bound = FALSE, !.featured = FALSE]
           u == [s EXCEPT !.service = v]
           f == RadeonFinishBoardRelease(u)
<1>1. /\ s.service \in Services /\ s \in Chip
      /\ s.service.state \in {"EMPTY", "INITIALIZING", "ATTACHED", "READY"}
  BY ChipFields DEF Resting, Sane, Services
<1>2. \/ r = s /\ ~allow /\ (~s.service.bound \/ s.service.state = "INITIALIZING")
      \/ r = f /\ (~allow => s.service.state # "INITIALIZING")
  <2>1. u = [s EXCEPT !.service.bound = FALSE, !.service.featured = FALSE]
    BY <1>1 DEF Chip
  <2>2. QED
    BY <1>1, <2>1 DEF RadeonReleaseBoard
<1>3. v \in Services /\ ~v.bound /\ v.at = s.service.at
  BY <1>1 DEF Services
<1> HIDE DEF v
<1>4. Resting(u) /\ u.service = v /\ u.lib = s.lib
  BY <1>3, WithService
<1> HIDE DEF u
<1>5. /\ Resting(f) /\ ~f.cp.up /\ Below(f.mem, 2) /\ f.service.state = "EMPTY" /\ f.lib = s.lib
      /\ ~f.service.bound /\ f.service.at = s.service.at
  BY <1>3, <1>4, FinishRests
<1> HIDE DEF f
<1>6. CASE r = s /\ ~allow /\ (~s.service.bound \/ s.service.state = "INITIALIZING")
  BY <1>6 DEF Whole
<1>7. CASE r = f /\ (~allow => s.service.state # "INITIALIZING")
  <2>1. s.service.at = "idle"
    BY <1>7 DEF Whole
  <2>2. QED
    BY <1>5, <1>7, <2>1 DEF Whole, Opened
<1>8. QED
  BY <1>2, <1>6, <1>7

LEMMA NowFields ==
  ASSUME BringupInv
  PROVE  /\ lib \in Libs /\ service \in Services /\ mem \in Memory
         /\ cp \in Cps /\ bus \in Buses /\ ChipNow \in Chip
         /\ ChipNow.lib = lib /\ ChipNow.service = service /\ ChipNow.mem = mem
         /\ ChipNow.cp = cp /\ ChipNow.bus = bus /\ Whole(ChipNow)
<1>1. ChipNow \in Chip
  BY DEF BringupInv, Whole, Resting, Sane
<1>2. /\ ChipNow.lib = lib /\ ChipNow.service = service /\ ChipNow.mem = mem
      /\ ChipNow.cp = cp /\ ChipNow.bus = bus
  BY DEF ChipNow
<1>3. QED
  BY <1>1, <1>2, ChipFields DEF BringupInv

(* A board that stays the library's.                                        *)
LEMMA OpenedStill ==
  ASSUME BringupInv, NEW v, v.at = "idle" \/ v.at = service.at, v.bound = service.bound
  PROVE  Opened(lib, v)
BY NowFields DEF Whole, Opened

LEMMA BecomesWhole ==
  ASSUME NEW s, Whole(s), ChipBecomes(s)
  PROVE  BringupInv'
<1>1. s = [lib |-> s.lib, service |-> s.service, mem |-> s.mem, cp |-> s.cp, bus |-> s.bus]
  BY ChipFields DEF Whole, Resting, Sane
<1>2. ChipNow' = s
  BY <1>1 DEF ChipBecomes, ChipNow
<1>3. QED
  BY <1>2 DEF BringupInv
------------------------------------------------------------------------------
LEMMA BringupStarts == BringupInit => BringupInv
<1> SUFFICES ASSUME BringupInit PROVE BringupInv
  OBVIOUS
<1>1. lib \in Libs /\ service \in Services
  BY BringupAssumption DEF BringupInit, LibInit, Libs, Services
<1>2. mem = [size |-> 0, installed |-> 0, blocks |-> <<>>] /\ cp = NoCp
  BY DEF BringupInit
<1>3. mem \in Memory /\ mem.blocks = <<>> /\ mem.size = 0 /\ mem.installed = 0
  BY <1>2 DEF Memory
<1>4. Len(mem.blocks) = 0 /\ DOMAIN mem.blocks = {}
  BY <1>3
<1>5. Tiled(mem) /\ Below(mem, 2) /\ ~Holds(mem, "ring")
  BY <1>3, <1>4 DEF Tiled, Below, Holds
<1>6. PICK f \in Firmware : bus = [command |-> f.command, cntl |-> f.cntl, queue |-> FALSE,
                                   microcode |-> FALSE, firmware |-> f]
  BY DEF BringupInit
<1>7. bus \in Buses /\ Bussed(cp, bus) /\ Running(cp, bus)
  BY <1>2, <1>6, FirmwareWords, NoCpIsOff DEF Buses, Bussed, Running
<1>8. /\ ChipNow \in Chip /\ ChipNow.lib = lib /\ ChipNow.service = service
      /\ ChipNow.mem = mem /\ ChipNow.cp = cp /\ ChipNow.bus = bus
  BY <1>1, <1>2, <1>3, <1>7, NoCpIsOff, ChipFrom DEF ChipNow
<1>9. /\ service.state = "EMPTY" /\ ~service.bound /\ service.at = "idle" /\ ~cp.up
  BY <1>2, NoCpIsOff DEF BringupInit
<1>10. QED
  BY <1>3, <1>5, <1>7, <1>8, <1>9 DEF BringupInv, Whole, Resting, Sane, Opened

(* Steps of the library base alone.                                         *)
LEMMA LibraryKeeps ==
  ASSUME BringupInv, lib' \in Libs, Opened(lib', service), UNCHANGED <<service, mem, cp, bus>>
  PROVE  BringupInv'
<1> DEFINE r == [ChipNow EXCEPT !.lib = lib']
<1>1. ChipNow' = r
  BY DEF ChipNow
<1>2. Whole(r)
  BY NowFields, WithLib
<1>3. QED
  BY <1>1, <1>2 DEF BringupInv

LEMMA LibOpenKeeps == ASSUME BringupInv, NEW p \in BOOLEAN, LibOpen(p) PROVE BringupInv'
<1>1. lib \in Libs
  BY NowFields
<1> DEFINE n == lib.open + 1
           l == [lib EXCEPT !.open = n, !.delexp = FALSE, !.prometheus = TRUE]
<1>2. lib' = l
  BY DEF LibOpen
<1>3. l \in Libs
  <2>1. n \in 0..MaxOpen
    BY <1>1, BringupAssumption DEF Libs, LibOpen
  <2> HIDE DEF n
  <2>2. QED
    BY <1>1, <2>1 DEF Libs
<1>4. Opened(l, service)
  <2>1. lib.alive /\ n >= 1
    BY <1>1, BringupAssumption DEF LibOpen, Libs
  <2> HIDE DEF n
  <2>2. l.open = n /\ l.prometheus /\ l.alive = lib.alive
    BY <1>1 DEF Libs
  <2>3. QED
    BY <2>1, <2>2 DEF Opened
<1>5. QED
  BY <1>2, <1>3, <1>4, LibraryKeeps DEF LibOpen

LEMMA SessionKeeps == ASSUME BringupInv, Radeon3DOpen \/ Radeon3DClose PROVE BringupInv'
<1>1. lib' \in Libs /\ lib'.open = lib.open /\ lib'.alive = lib.alive /\ lib'.prometheus = lib.prometheus
  <2>1. lib \in Libs /\ 0 \in 0..1 /\ 1 \in 0..1
    BY NowFields
  <2>2. QED
    BY <2>1 DEF Radeon3DOpen, Radeon3DClose, Libs
<1>2. Opened(lib', service)
  BY <1>1, NowFields DEF Whole, Opened
<1>3. QED
  BY <1>1, <1>2, LibraryKeeps DEF Radeon3DOpen, Radeon3DClose

(* A release by somebody who did not initialise the board.                  *)
LEMMA OthersRelease ==
  ASSUME NEW s, Whole(s)
  PROVE  LET r == RadeonReleaseBoard(s, FALSE)
         IN Whole(r) /\ r.lib = s.lib /\ (s.service.at = "idle" => ~r.service.bound /\ r.service.at = "idle")
BY ReleaseIsWhole DEF Whole

LEMMA ExpungedWhole ==
  ASSUME NEW s, Whole(s), s.service.at = "idle"
  PROVE  Whole(Expunged(s))
<1> DEFINE t == RadeonReleaseBoard(s, FALSE)
           l == [t.lib EXCEPT !.alive = FALSE, !.prometheus = FALSE]
<1>1. Whole(t) /\ ~t.service.bound /\ t.service.at = "idle"
  BY OthersRelease
<1>2. t \in Chip
  BY <1>1 DEF Whole, Resting, Sane
<1>3. Expunged(s) = [t EXCEPT !.lib.alive = FALSE, !.lib.prometheus = FALSE]
  BY DEF Expunged
<1> HIDE DEF t
<1>4. Expunged(s) = [t EXCEPT !.lib = l]
  BY <1>2, <1>3 DEF Chip
<1>5. l \in Libs
  BY <1>2, ChipFields DEF Libs
<1> HIDE DEF l
<1>6. Opened(l, t.service)
  BY <1>1 DEF Opened
<1>7. QED
  BY <1>1, <1>4, <1>5, <1>6, WithLib

LEMMA LibCloseKeeps == ASSUME BringupInv, LibClose PROVE BringupInv'
<1> DEFINE s == [ChipNow EXCEPT !.lib.open = @ - 1]
           n == lib.open - 1
           k == [lib EXCEPT !.open = n]
           t == RadeonReleaseBoard(s, FALSE)
           l == [t.lib EXCEPT !.prometheus = FALSE]
           d == [s EXCEPT !.lib.delexp = TRUE]
           e == [k EXCEPT !.delexp = TRUE]
           u == [t EXCEPT !.lib.prometheus = FALSE]
<1>1. \/ ChipBecomes(s) \/ ChipBecomes(d)
      \/ ~(s.lib.open > 0) /\ (ChipBecomes(Expunged(s)) \/ ChipBecomes(u))
  BY DEF LibClose
<1>2. n \in 0..MaxOpen /\ (service.at # "idle" => n >= 1)
  <2>1. lib.open \in 0..MaxOpen
    BY NowFields DEF Libs
  <2>2. lib.open > (IF service.at = "idle" THEN 0 ELSE 1)
    BY DEF LibClose
  <2>3. QED
    BY <2>1, <2>2, BringupAssumption
<1>3. k \in Libs /\ e \in Libs /\ k.open = n /\ Opened(k, service) /\ Opened(e, service)
  <2>1. lib \in Libs /\ Opened(lib, service)
    BY NowFields DEF Whole
  <2> HIDE DEF n
  <2>2. k \in Libs /\ k.open = n /\ k.alive = lib.alive /\ k.prometheus = lib.prometheus
    BY <1>2, <2>1 DEF Libs
  <2> HIDE DEF k
  <2>3. e \in Libs /\ e.open = n /\ e.alive = lib.alive /\ e.prometheus = lib.prometheus
    BY <2>2 DEF Libs
  <2>4. QED
    BY <1>2, <2>1, <2>2, <2>3 DEF Opened
<1>4. s = [ChipNow EXCEPT !.lib = k] /\ d = [ChipNow EXCEPT !.lib = e]
  BY NowFields DEF Chip
<1>5. s.lib = k /\ s.service = service
  BY <1>4, NowFields DEF Chip
<1> HIDE DEF k, e, n
<1>6. Whole(s) /\ Whole(d)
  BY <1>3, <1>4, NowFields, WithLib
<1>7. ~(s.lib.open > 0) => s.service.at = "idle"
  BY <1>2, <1>3, <1>5
<1> HIDE DEF s, d
<1>8. Whole(t) /\ t \in Chip /\ (s.service.at = "idle" => ~t.service.bound /\ t.service.at = "idle")
  BY <1>6, OthersRelease DEF Whole, Resting, Sane
<1> HIDE DEF t
<1>9. u = [t EXCEPT !.lib = l] /\ l \in Libs
  BY <1>8, ChipFields DEF Chip, Libs
<1> HIDE DEF u, l
<1>10. s.service.at = "idle" => Whole(u)
  BY <1>8, <1>9, WithLib DEF Opened
<1>11. QED
  BY <1>1, <1>6, <1>7, <1>10, ExpungedWhole, BecomesWhole

LEMMA LibExpungeKeeps == ASSUME BringupInv, LibExpunge PROVE BringupInv'
<1> DEFINE e == [lib EXCEPT !.delexp = TRUE]
           d == [ChipNow EXCEPT !.lib.delexp = TRUE]
<1>1. ChipBecomes(d) \/ (~(lib.open > 0) /\ ChipBecomes(Expunged(ChipNow)))
  <2>1. CASE lib.open > 0
    BY <2>1 DEF LibExpunge
  <2>2. CASE ~(lib.open > 0)
    BY <2>2 DEF LibExpunge
  <2>3. QED
    BY <2>1, <2>2
<1>2. e \in Libs /\ d = [ChipNow EXCEPT !.lib = e]
  <2>1. lib \in Libs /\ TRUE \in BOOLEAN
    BY NowFields
  <2>2. e \in Libs
    BY <2>1 DEF Libs
  <2>3. QED
    BY <2>2, NowFields DEF Chip
<1>2a. Opened(e, service)
  <2>1. e.open = lib.open /\ e.alive = lib.alive /\ e.prometheus = lib.prometheus /\ Opened(lib, service)
    BY NowFields DEF Whole, Libs
  <2>2. QED
    BY <2>1 DEF Opened
<1> HIDE DEF e, d
<1>3. Whole(d)
  BY <1>2, <1>2a, NowFields, WithLib
<1>4. ~(lib.open > 0) => service.at = "idle"
  BY NowFields, BringupAssumption DEF Whole, Opened, Libs
<1>5. QED
  BY <1>1, <1>3, <1>4, NowFields, ExpungedWhole, BecomesWhole

LEMMA DetachKeeps == ASSUME BringupInv, Radeon3DDetachOwner PROVE BringupInv'
BY NowFields, OthersRelease, BecomesWhole DEF Radeon3DDetachOwner

(* A step of the board alone.                                               *)
LEMMA InitChipKeeps == ASSUME BringupInv, InitChip PROVE BringupInv'
<1> DEFINE v == [service EXCEPT !.state = "INITIALIZING", !.bound = TRUE, !.at = "hardware",
                                !.featured = FALSE]
           r == [ChipNow EXCEPT !.service = v]
<1>1. /\ service' = v /\ UNCHANGED <<lib, mem, cp, bus>> /\ service.state = "EMPTY"
      /\ lib.open > 0 /\ lib.alive /\ lib.prometheus
  BY DEF InitChip
<1>2. /\ v \in Services /\ v.state = "INITIALIZING" /\ v.bound /\ v.at = "hardware"
  BY NowFields DEF Services
<1> HIDE DEF v
<1>3. ChipNow' = r
  BY <1>1 DEF ChipNow
<1>4. Resting(ChipNow) /\ ~ChipNow.cp.up
  BY <1>1, NowFields DEF Whole
<1>5. Resting(r) /\ r.service = v /\ r.cp = ChipNow.cp /\ r.lib = lib
  BY <1>2, <1>4, NowFields, WithService
<1> HIDE DEF r
<1>6. Opened(lib, v)
  <2>1. lib.open \in 0..MaxOpen
    BY NowFields DEF Libs
  <2>2. QED
    BY <1>1, <2>1, BringupAssumption DEF Opened
<1>7. Whole(r)
  BY <1>2, <1>4, <1>5, <1>6 DEF Whole
<1>8. QED
  BY <1>3, <1>7 DEF BringupInv

LEMMA InitChipHardwareKeeps ==
  ASSUME BringupInv, NEW memory \in Installed, NEW ok \in BOOLEAN, InitChipHardware(memory, ok)
  PROVE  BringupInv'
<1> DEFINE m == [size |-> memory, installed |-> memory, blocks |-> <<>>]
           v == [service EXCEPT !.at = IF ok THEN "attach" ELSE "idle"]
           u == [ChipNow EXCEPT !.mem = m]
           s == [u EXCEPT !.service = v]
<1>1. service.at = "hardware" /\ ChipBecomes(IF ok THEN s ELSE RadeonReleaseBoard(s, TRUE))
  <2>1. service.at = "hardware"
    BY DEF InitChipHardware
  <2>2. s = [ChipNow EXCEPT !.mem = m, !.service.at = IF ok THEN "attach" ELSE "idle"]
    BY NowFields DEF Chip
  <2>3. QED
    BY <2>1, <2>2 DEF InitChipHardware
<1>2. m \in Memory /\ m.blocks = <<>> /\ m.size = memory /\ m.installed = memory
  BY BringupAssumption DEF Memory
<1>3. Len(m.blocks) = 0 /\ DOMAIN m.blocks = {}
  BY <1>2
<1>4. Tiled(m) /\ ~Holds(m, "ring")
  BY <1>2, <1>3 DEF Tiled, Holds
<1>5. /\ v \in Services /\ v.state = service.state /\ v.bound = service.bound
      /\ v.at = IF ok THEN "attach" ELSE "idle"
  BY NowFields DEF Services
<1> HIDE DEF m, v
<1>6. /\ Resting(ChipNow) /\ service.state = "INITIALIZING" /\ service.bound /\ ~cp.up
      /\ Opened(lib, service)
  BY <1>1, NowFields DEF Whole
<1>7. Resting(u) /\ u.mem = m /\ u.cp = cp /\ u.lib = lib
  BY <1>4, <1>6, NowFields, WithMemory DEF Resting, Alike
<1> HIDE DEF u
<1>8. Resting(s) /\ s.service = v /\ s.mem = m /\ s.cp = cp /\ s.lib = lib
  BY <1>5, <1>7, WithService
<1> HIDE DEF s
<1>9. CASE ok
  <2>1. Opened(lib, v)
    BY <1>1, <1>5, <1>6, <1>9 DEF Opened
  <2>1a. Whole(s)
    BY <1>2, <1>5, <1>6, <1>8, <1>9, <2>1 DEF Whole
  <2>2. QED
    BY <1>1, <1>9, <2>1a, BecomesWhole
<1>10. CASE ~ok
  <2>1. s.service.bound /\ s.service.at = "idle"
    BY <1>5, <1>6, <1>8, <1>10
  <2>2. Whole(RadeonReleaseBoard(s, TRUE))
    BY <1>8, <2>1, ReleaseIsWhole
  <2>3. QED
    BY <1>1, <1>10, <2>2, BecomesWhole
<1>11. QED
  BY <1>9, <1>10

LEMMA InitChipAttachKeeps == ASSUME BringupInv, InitChipAttach PROVE BringupInv'
<1> DEFINE v == [service EXCEPT !.at = "idle"]
           s == [ChipNow EXCEPT !.service = v]
           w == [v EXCEPT !.state = "ATTACHED"]
           r == [s EXCEPT !.service = w]
           t == [ChipNow EXCEPT !.service.at = "idle"]
<1>1. /\ service.at = "attach" /\ service.state = "INITIALIZING" /\ service.bound
      /\ ~cp.up /\ mem.blocks = <<>> /\ Resting(ChipNow)
  BY NowFields DEF InitChipAttach, Whole
<1>2. s = t
  BY NowFields DEF Chip
<1>3. ChipBecomes([t EXCEPT !.service.state = "ATTACHED"])
  BY <1>1 DEF InitChipAttach
<1> HIDE DEF t
<1>4. v \in Services
  BY NowFields DEF Services
<1>5. w \in Services /\ w.state = "ATTACHED" /\ w.at = "idle" /\ w.bound = service.bound
  BY <1>4, NowFields DEF Services
<1>6. /\ Resting(s) /\ s.service = v /\ s.mem = mem /\ s.cp = cp /\ s.lib = lib /\ s \in Chip
  BY <1>1, <1>4, NowFields, WithService DEF Resting, Sane
<1> HIDE DEF s
<1>7. ChipBecomes(r)
  BY <1>2, <1>3, <1>6 DEF Chip
<1> HIDE DEF v, w
<1>8. Resting(r) /\ r.service = w /\ r.mem = mem /\ r.cp = cp /\ r.lib = lib
  BY <1>5, <1>6, WithService
<1> HIDE DEF r
<1>9. Whole(r)
  BY <1>1, <1>5, <1>8, OpenedStill DEF Whole
<1>10. QED
  BY <1>7, <1>9, BecomesWhole

LEMMA FeaturesKeep ==
  ASSUME BringupInv, NEW enableCp \in BOOLEAN, NEW stage \in BOOLEAN, NEW sprite \in BOOLEAN,
         NEW eng \in BOOLEAN, NEW fails, InitRadeonFeatures(enableCp, stage, sprite, eng, fails)
  PROVE  BringupInv'
<1> DEFINE a == RadeonInitializeAcceleration(ChipNow, enableCp, stage, eng, fails)
           s == InstallBoardCallbacks(a, sprite)
           v == [s.service EXCEPT !.featured = TRUE,
                                  !.state = IF s.cp.ready THEN "READY" ELSE @]
           r == [s EXCEPT !.service = v]
<1>1. /\ service.bound /\ service.state = "ATTACHED" /\ ~cp.up /\ mem.blocks = <<>>
      /\ Resting(ChipNow) /\ service.at = "idle"
  <2>1. service.bound /\ service.state = "ATTACHED" /\ ~service.featured
    BY DEF InitRadeonFeatures
  <2>2. service \in Services
    BY NowFields
  <2>3. QED
    BY <2>1, <2>2, NowFields DEF Whole, Services
<1>2. Below(ChipNow.mem, 1) /\ ~ChipNow.cp.up
  <2>1. Len(mem.blocks) = 0
    BY <1>1
  <2>2. QED
    BY <1>1, <2>1, NowFields DEF Below
<1>3. Resting(a) /\ Below(a.mem, 5) /\ Alike(ChipNow, a)
  BY <1>1, <1>2, AccelerationRests
<1>4. ChipBecomes([s EXCEPT !.service.featured = TRUE,
                            !.service.state = IF s.cp.ready THEN "READY" ELSE @])
  BY DEF InitRadeonFeatures
<1> HIDE DEF a
<1>5. Resting(s) /\ Alike(a, s)
  BY <1>3, CallbacksRest
<1> HIDE DEF s
<1>6. s.service = service /\ s.lib = lib /\ s \in Chip
  BY <1>3, <1>5, NowFields DEF Alike, Resting, Sane
<1>7. ChipBecomes(r)
  BY <1>4, <1>6 DEF Chip
<1>8. /\ v \in Services /\ v.featured /\ v.bound /\ v.at = "idle" /\ v.bound = service.bound
      /\ v.state = IF s.cp.ready THEN "READY" ELSE "ATTACHED"
  BY <1>1, <1>6, NowFields DEF Services
<1> HIDE DEF v
<1>9. Resting(r) /\ r.service = v /\ r.cp = s.cp /\ r.lib = lib
  BY <1>5, <1>6, <1>8, WithService
<1> HIDE DEF r
<1>10. Whole(r)
  BY <1>8, <1>9, OpenedStill DEF Whole
<1>11. QED
  BY <1>7, <1>10, BecomesWhole

LEMMA CpAbortsKeeps == ASSUME BringupInv, CpAborts PROVE BringupInv'
<1> DEFINE state == IF service.state = "READY" THEN "ATTACHED" ELSE service.state
           v == [service EXCEPT !.state = state]
           s == [ChipNow EXCEPT !.service = v]
           r == CpRestoreBus(CpDisable(s))
<1>1. /\ cp.up /\ service.bound /\ Resting(ChipNow) /\ Whole(ChipNow)
      /\ service \in Services
  BY NowFields DEF CpAborts, Whole
<1>2. service.state \in {"ATTACHED", "READY"} /\ service.featured /\ service.at = "idle"
  BY <1>1, NowFields DEF Whole, Services
<1>3. ChipBecomes(r)
  <2>1. s = [ChipNow EXCEPT !.service.state = IF @ = "READY" THEN "ATTACHED" ELSE @]
    BY NowFields DEF Chip
  <2>2. QED
    BY <2>1 DEF CpAborts
<1>4. /\ v \in Services /\ v.state = "ATTACHED" /\ v.featured = service.featured
      /\ v.at = service.at /\ v.bound = service.bound
  BY <1>1, <1>2 DEF Services
<1> HIDE DEF v
<1>5. Resting(s) /\ s.service = v /\ s.lib = lib
  BY <1>1, <1>4, NowFields, WithService
<1> HIDE DEF s
<1>6. Resting(r) /\ Alike(s, r)
  BY <1>5, CpOff DEF Resting
<1> HIDE DEF r
<1>7. Whole(r)
  BY <1>1, <1>2, <1>4, <1>5, <1>6, OpenedStill DEF Whole, Alike
<1>8. QED
  BY <1>3, <1>7, BecomesWhole

LEMMA CpRecoverKeeps ==
  ASSUME BringupInv, NEW fails, RadeonCpRecover(fails)
  PROVE  BringupInv'
<1> DEFINE s == CpStart(ChipNow, fails)
           o == CpRestoreBus(CpDisable(s))
           state == IF s.service.state = "ATTACHED" THEN "READY" ELSE s.service.state
           v == [s.service EXCEPT !.state = state]
           r == [s EXCEPT !.service = v]
<1>1. /\ cp.up /\ ~cp.ready /\ service.bound /\ Resting(ChipNow) /\ Whole(ChipNow)
      /\ service \in Services
  BY NowFields DEF RadeonCpRecover, Whole
<1>2. service.state = "ATTACHED" /\ service.featured /\ service.at = "idle"
  BY <1>1, NowFields DEF Whole, Services
<1>3. ~cp.configured /\ Sane(ChipNow)
  BY <1>1, NowFields DEF Resting, Running
<1>4. /\ Sane(s) /\ s.cp.up /\ s.mem = mem /\ Alike(ChipNow, s)
      /\ fails = "none" => Resting(s) /\ s.cp.ready
  BY <1>1, <1>3, NowFields, CpStarts
<1>5. ChipBecomes(IF fails # "none" THEN o
                  ELSE [s EXCEPT !.service.state = IF @ = "ATTACHED" THEN "READY" ELSE @])
  BY DEF RadeonCpRecover
<1> HIDE DEF s
<1>6. s \in Chip /\ s.service = service /\ s.lib = lib
  BY <1>4, NowFields DEF Sane, Alike
<1>7. CASE fails # "none"
  <2>1. Resting(o) /\ Alike(s, o)
    BY <1>4, CpOff
  <2> HIDE DEF o
  <2>2. Whole(o)
    BY <1>1, <1>2, <1>6, <2>1, OpenedStill DEF Whole, Alike
  <2>3. QED
    BY <1>5, <1>7, <2>2, BecomesWhole
<1>8. CASE fails = "none"
  <2>1. ChipBecomes(r)
    BY <1>5, <1>6, <1>8 DEF Chip
  <2>2. /\ v \in Services /\ v.state = "READY" /\ v.featured /\ v.bound /\ v.at = "idle"
        /\ v.bound = service.bound
    BY <1>1, <1>2, <1>6 DEF Services
  <2> HIDE DEF v
  <2>3. Resting(r) /\ r.service = v /\ r.cp = s.cp /\ r.lib = lib
    BY <1>4, <1>6, <1>8, <2>2, WithService
  <2> HIDE DEF r
  <2>4. Whole(r)
    BY <1>4, <1>8, <2>2, <2>3, OpenedStill DEF Whole
  <2>5. QED
    BY <2>1, <2>4, BecomesWhole
<1>9. QED
  BY <1>7, <1>8
------------------------------------------------------------------------------
(* The inductive invariant of the library and the board: memory carved in   *)
(* one order, the bus's settings kept, the state of the service.            *)
THEOREM BringupInvariant == BringupSpec => []BringupInv
<1>1. BringupInv /\ [BringupNext]_bringupvars => BringupInv'
  <2> SUFFICES ASSUME BringupInv, [BringupNext]_bringupvars PROVE BringupInv'
    OBVIOUS
  <2>1. ASSUME NEW p \in BOOLEAN, LibOpen(p)
        PROVE  BringupInv'
    BY <2>1, LibOpenKeeps
  <2>2. CASE LibClose \/ LibExpunge
    BY <2>2, LibCloseKeeps, LibExpungeKeeps
  <2>3. CASE InitChip \/ InitChipAttach
    BY <2>3, InitChipKeeps, InitChipAttachKeeps
  <2>4. ASSUME NEW memory \in Installed, NEW ok \in BOOLEAN, InitChipHardware(memory, ok)
        PROVE  BringupInv'
    BY <2>4, InitChipHardwareKeeps
  <2>5. ASSUME NEW enableCp \in BOOLEAN, NEW stage \in BOOLEAN, NEW sprite \in BOOLEAN,
               NEW eng \in BOOLEAN, NEW fails \in Failures,
               InitRadeonFeatures(enableCp, stage, sprite, eng, fails)
        PROVE  BringupInv'
    BY <2>5, FeaturesKeep
  <2>6. CASE CpAborts \/ Radeon3DDetachOwner \/ Radeon3DOpen \/ Radeon3DClose
    BY <2>6, CpAbortsKeeps, DetachKeeps, SessionKeeps
  <2>7. ASSUME NEW fails \in Failures, RadeonCpRecover(fails)
        PROVE  BringupInv'
    BY <2>7, CpRecoverKeeps
  <2>8. CASE UNCHANGED bringupvars
    BY <2>8 DEF bringupvars, BringupInv, ChipNow
  <2>9. QED
    BY <2>1, <2>2, <2>3, <2>4, <2>5, <2>6, <2>7, <2>8 DEF BringupNext
<1>2. QED
  BY BringupStarts, <1>1, PTL DEF BringupSpec

(* The blocks of private VRAM tile the top of the memory, whatever fails in *)
(* between and for every size of block and memory (dma.c).                  *)
THEOREM MemoryStaysTiled == BringupSpec => []MemoryTiled
<1>1. BringupInv => MemoryTiled
  BY NowFields, BlocksTyped, ZenonT(60) DEF Whole, Resting, Sane, Tiled, MemoryTiled
<1>2. QED
  BY BringupInvariant, <1>1, PTL

(* Sessions can be opened only while the command processor runs, and its    *)
(* queue runs only with the microcode loaded, wherever a start or a         *)
(* recovery failed (radeon_cp.c, radeon3d_service.c).                       *)
THEOREM ReadyStaysRunning == BringupSpec => []ReadyIsRunning
<1>1. BringupInv => ReadyIsRunning
  BY NowFields DEF Whole, Resting, Running, ReadyIsRunning
<1>2. QED
  BY BringupInvariant, <1>1, PTL

(* The board's bus registers are the firmware's again whenever the command  *)
(* processor is not set up (CpRestoreBus).                                  *)
THEOREM BusGivenBack == BringupSpec => []BusRestored
<1>1. ASSUME BringupInv
      PROVE  BusRestored
  <2>1. Bussed(cp, bus) /\ cp \in Cps /\ bus \in Buses
    BY <1>1, NowFields DEF Whole, Resting, Sane
  <2>2. /\ cp.saved = [command |-> cp.saved.command, cntl |-> cp.saved.cntl]
        /\ bus.firmware = [command |-> bus.firmware.command, cntl |-> bus.firmware.cntl]
    BY <2>1, BringupAssumption DEF Cps, Buses
  <2>3. cp.configured => cp.saved = bus.firmware
    BY <2>1, <2>2 DEF Bussed
  <2>4. QED
    BY <2>1, <2>3 DEF Bussed, BusRestored
<1>2. QED
  BY BringupInvariant, <1>1, PTL

(* Without a board nothing of the last one is left but a stage at the top   *)
(* of its memory (RadeonFinishBoardRelease).                                *)
THEOREM EmptyStaysClean == BringupSpec => []EmptyMeansClean
<1>1. ASSUME BringupInv, service.state = "EMPTY"
      PROVE  /\ ~service.bound /\ ~cp.up /\ ~bus.queue
             /\ \A i \in DOMAIN mem.blocks : mem.blocks[i].kind = "stage"
  <2>1. ~service.bound /\ ~cp.up /\ ~bus.queue /\ Below(mem, 2) /\ Tiled(mem)
    BY <1>1, NowFields DEF Whole, Resting, Running, Sane
  <2>2. \A k \in Kinds : Rank(k) < 2 => k = "stage"
    BY DEF Rank, Kinds
  <2>3. QED
    BY <2>1, <2>2, BlocksTyped DEF Below
<1>2. BringupInv => EmptyMeansClean
  BY <1>1 DEF EmptyMeansClean
<1>3. QED
  BY BringupInvariant, <1>2, PTL

(* prometheus.library stays open as long as a board is bound or its command *)
(* processor is set up, whoever closes the library meanwhile (LibClose,     *)
(* LibExpunge, RadeonReleaseBoard).                                         *)
THEOREM PrometheusStaysHeld == BringupSpec => []PrometheusHeld
<1>1. ASSUME BringupInv
      PROVE  PrometheusHeld
  <2>1. /\ ~service.bound => service.state = "EMPTY" /\ ~cp.up
        /\ service.bound => lib.alive /\ lib.prometheus
    BY <1>1, NowFields DEF Whole, Opened
  <2>2. QED
    BY <2>1 DEF PrometheusHeld
<1>2. QED
  BY BringupInvariant, <1>1, PTL

(* The states of the library, the board and its memory are the ones that    *)
(* were meant: no block reaches past either end of the memory.              *)
THEOREM BringupTypeCorrect == BringupSpec => []BringupTypeOK
<1> DEFINE Stepped == steps \in 0..MaxSteps
<1>1. BringupInit => Stepped
  BY BringupAssumption DEF BringupInit
<1>2. Stepped /\ [BringupNext]_bringupvars => Stepped'
  <2> SUFFICES ASSUME steps \in 0..MaxSteps, [BringupNext]_bringupvars
               PROVE  Stepped'
    OBVIOUS
  <2>1. CASE steps' = steps
    BY <2>1
  <2>2. CASE Count
    BY <2>2, BringupAssumption DEF Count
  <2>3. CASE \/ InitChip \/ CpAborts \/ (\E fails \in Failures : RadeonCpRecover(fails))
             \/ Radeon3DDetachOwner \/ Radeon3DOpen \/ Radeon3DClose
    BY <2>2, <2>3 DEF InitChip, CpAborts, RadeonCpRecover, Radeon3DDetachOwner, Radeon3DOpen, Radeon3DClose
  <2>4. CASE \/ (\E prometheus \in BOOLEAN : LibOpen(prometheus)) \/ LibClose \/ LibExpunge \/ InitChipAttach
             \/ (\E memory \in Installed, ok \in BOOLEAN : InitChipHardware(memory, ok))
             \/ UNCHANGED bringupvars
    BY <2>1, <2>4 DEF LibOpen, LibClose, LibExpunge, InitChipAttach, InitChipHardware, bringupvars
  <2>5. CASE \E enableCp, stage, sprite, eng \in BOOLEAN, fails \in Failures :
               InitRadeonFeatures(enableCp, stage, sprite, eng, fails)
    BY <2>1, <2>5 DEF InitRadeonFeatures
  <2>6. QED
    BY <2>3, <2>4, <2>5 DEF BringupNext
<1>2a. BringupSpec => []Stepped
  BY <1>1, <1>2, PTL DEF BringupSpec
<1>3. ASSUME BringupInv, Stepped
      PROVE  BringupTypeOK
  <2>1. lib \in Libs /\ service \in Services /\ cp \in Cps /\ bus \in Buses /\ Tiled(mem)
    BY <1>3, NowFields DEF Whole, Resting, Sane
  <2>2. lib.open \in 0..MaxOpen /\ lib.sessions \in 0..1
    BY <2>1 DEF Libs
  <2>3. /\ lib.alive \in BOOLEAN /\ lib.delexp \in BOOLEAN /\ lib.prometheus \in BOOLEAN
        /\ service.bound \in BOOLEAN /\ service.featured \in BOOLEAN
        /\ cp.up \in BOOLEAN /\ cp.ready \in BOOLEAN /\ cp.configured \in BOOLEAN
        /\ bus.queue \in BOOLEAN /\ bus.microcode \in BOOLEAN
    BY <2>1 DEF Libs, Services, Cps, Buses
  <2>4. {lib.alive, lib.delexp, lib.prometheus, service.bound, service.featured, cp.up, cp.ready,
         cp.configured, bus.queue, bus.microcode} \subseteq BOOLEAN
    BY <2>3
  <2>5. /\ service.state \in {"EMPTY", "INITIALIZING", "ATTACHED", "READY", "DETACHING"}
        /\ service.at \in {"idle", "hardware", "attach"}
    BY <2>1 DEF Services
  <2>6. mem.size \in 0..mem.installed /\ mem.installed \in {0} \cup Installed
    <3>1. Tiled(mem)
      BY <2>1
    <3>2. mem.installed \in Nat /\ mem.size \in Int /\ 0 =< mem.size /\ mem.size =< mem.installed
      BY <3>1, SizeBounded
    <3>3. mem.installed \in {0} \cup Installed
      BY <3>1 DEF Tiled
    <3>4. QED
      BY <3>2, <3>3
  <2>7. cp.saved \in Firmware
    BY <2>1 DEF Cps
  <2>8. QED
    BY <1>3, <2>2, <2>4, <2>5, <2>6, <2>7 DEF BringupTypeOK
<1>4. QED
  BY BringupInvariant, <1>2a, <1>3, PTL

------------------------------------------------------------------------------
(* The display.                                                             *)
(* What the driver's own words on the display, a mode's clock and the       *)
(* registers may be, whatever the boards and the modes are.                 *)
Phases == {"found", "up", "ready", "failed", "released"}
Indices == 0 .. (PaletteSize - 1)
Palette == [Indices -> Colors \cup 0 .. (2 * PaletteSize - 1)]
Place == [x : Int, y : Int, ox : Int, oy : Int, row : Int]
Setting == [fb : 0 .. FeedbackMax, code : Int, hz : Nat]
Drv ==
  [phase : Phases, startup : BOOLEAN, mode : Modes \cup {Startup, NoMode}, valid : BOOLEAN,
   enabled : BOOLEAN, dpms : 0 .. 3, timingReady : BOOLEAN, formatReady : BOOLEAN,
   format : Formats \ {0}, clut : Palette, xOffset : Int, yOffset : Int,
   sprite : SUBSET BOOLEAN, mouse : Int \X Int, shape : Int, color : Int]
Rasters == {<<>>} \cup {Raster(Timing[m]) : m \in {n \in DOMAIN Timing : ValidateMode(Timing[n])}}
Images == {<<>>} \cup [shape : Int, color : Int]
TmdsValues == {0} \cup UNION {SelectTmdsPll(b, hz) : b \in Boards, hz \in Nat}
Hw ==
  [off : SUBSET {"display", "h", "v"}, fp : BOOLEAN, raster : Rasters, width : Int, tmds : TmdsValues,
   fb : Int, code : Int, vclk : {"cpu", "ppll"}, reset : BOOLEAN, palette : Palette,
   pitch : Int, start : Int, shown : BOOLEAN, image : Images, at : Place]
State == [drv : Drv, clock : [Modes \cup {Startup} -> Setting], hw : Hw]

DrvFields == {"phase", "startup", "mode", "valid", "enabled", "dpms", "timingReady", "formatReady",
              "format", "clut", "xOffset", "yOffset", "sprite", "mouse", "shape", "color"}
HwFields == {"off", "fp", "raster", "width", "tmds", "fb", "code", "vclk", "reset", "palette",
             "pitch", "start", "shown", "image", "at"}
(* Two records with the same fields F: what is not written stays.           *)
Agree(r, q, F) == \A f \in F : r[f] = q[f]

(* What holds after every call, of what it did and of what it left alone:   *)
(* the raster is that of the driver's mode, the panel is driven only where  *)
(* there is one, and the cursor is shown only while it is Picasso96's.      *)
Steady(b, s) ==
  /\ s \in State
  /\ s.drv.valid => /\ s.drv.mode # NoMode /\ s.hw.raster = Raster(Timing[s.drv.mode])
                    /\ ValidateMode(Timing[s.drv.mode])
  /\ s.drv.mode = Startup => s.drv.startup
  /\ s.hw.fp => DviActive(b)
  /\ s.hw.vclk = "ppll" => ~s.hw.reset
  /\ s.hw.shown => s.drv.sprite # {}
  /\ s.drv.phase # "ready" => s.drv.sprite = {}

(* A picture is lit only in a mode that holds, enabled, at full power, with *)
(* both syncs on, and a panel only once its mode was set whole.             *)
LitRight(s) ==
  "display" \notin s.hw.off =>
    /\ s.drv.valid /\ s.drv.enabled /\ s.drv.dpms = 0 /\ s.hw.off = {}
    /\ s.hw.fp => s.drv.timingReady /\ s.drv.formatReady

(* What each call leaves right when it succeeds: the palette of the         *)
(* format, the memory that is read, the panel's rate, the cursor's place.   *)
Colored(s) == s.hw.palette = (IF s.drv.format = 1 THEN s.drv.clut ELSE Linear) /\ s.hw.width = s.drv.format
Read(t, p, w) == ((t.h - 1) * p + t.w) * w
Panned(b, s) ==
  s.drv.valid => LET t == Timing[s.drv.mode]
                 IN s.hw.start % 8 = 0 /\ s.hw.start + Read(t, s.hw.pitch, FormatOfDepth(t.depth)) <= b.limit
Linked(b, s) ==
  s.drv.valid /\ DviActive(b) => {s.hw.tmds} = SelectTmdsPll(b, s.clock[s.drv.mode].hz)
Placed(s) == s.drv.sprite # {} => s.hw.at = CursorPlace(s.drv, FALSE)

(* c is what succeeded since the mode was set (since): only that is         *)
(* promised, as a mode that fails leaves what it had half written.          *)
Promised(b, s, c) ==
  /\ "dac" \in c => Colored(s)
  /\ "pan" \in c => Panned(b, s)
  /\ "clock" \in c => s.hw.vclk = "ppll"
  /\ "resolved" \notin c => Linked(b, s)
  /\ "placed" \in c => Placed(s)

Things == {"dac", "clock", "pan", "placed", "resolved"}

Good(b, s, c) ==
  /\ b \in Boards /\ Steady(b, s) /\ (s.drv.phase # "found" => LitRight(s))
  /\ c \subseteq Things /\ Promised(b, s, c)

DispInv == Good(board, Now, since)

(* Every step ends in Becomes(s): the invariant is shown of s, and the      *)
(* lemmas show what of it a step that changes few fields can disturb.       *)
LEMMA Become ==
  ASSUME NEW s \in State, Becomes(s), UNCHANGED board, Good(board, s, since')
  PROVE  DispInv'
<1>1. Now' = s
  BY DEF Becomes, Now, State
<1>2. QED
  BY <1>1 DEF DispInv

LEMMA SteadyBy ==
  ASSUME NEW b, NEW s, NEW t \in State, Steady(b, s),
         Agree(t.drv, s.drv, {"phase", "startup", "mode", "valid", "sprite"}),
         Agree(t.hw, s.hw, {"raster", "fp", "vclk", "reset", "shown"})
  PROVE  Steady(b, t)
BY DEF Steady, Agree

LEMMA PlaceBy ==
  ASSUME NEW d, NEW e, Agree(e, d, {"mouse", "xOffset", "yOffset", "mode"})
  PROVE  CursorPlace(e, FALSE) = CursorPlace(d, FALSE)
BY DEF Agree, CursorPlace

LEMMA PromisedBy ==
  ASSUME NEW b, NEW s, NEW t, NEW c, Promised(b, s, c), t.clock = s.clock,
         Agree(t.drv, s.drv, {"valid", "mode", "format", "clut", "sprite", "mouse", "xOffset", "yOffset"}),
         Agree(t.hw, s.hw, {"palette", "width", "pitch", "start", "vclk", "tmds", "at"})
  PROVE  Promised(b, t, c)
<1>1. CursorPlace(t.drv, FALSE) = CursorPlace(s.drv, FALSE)
  BY PlaceBy, ZenonT(60) DEF Agree
<1>2. Colored(s) => Colored(t)
  BY DEF Colored, Agree
<1>3. Panned(b, s) => Panned(b, t)
  BY DEF Panned, Agree
<1>4. Linked(b, s) => Linked(b, t)
  BY DEF Linked, Agree
<1>5. Placed(s) => Placed(t)
  BY <1>1 DEF Placed, Agree
<1>6. t.hw.vclk = s.hw.vclk
  BY DEF Agree
<1>7. QED
  BY <1>2, <1>3, <1>4, <1>5, <1>6 DEF Promised

LEMMA LitBy ==
  ASSUME NEW s, NEW t, LitRight(s),
         Agree(t.drv, s.drv, {"valid", "enabled", "dpms", "timingReady", "formatReady"}),
         Agree(t.hw, s.hw, {"off", "fp"})
  PROVE  LitRight(t)
BY DEF LitRight, Agree
------------------------------------------------------------------------------
(* The values that the functions compute are of their types.                *)
LEMMA LeastOfTwo ==
  ASSUME NEW a \in Int, NEW b \in Int
  PROVE  Min({a, b}) = (IF a <= b THEN a ELSE b)
<1>1. \E x \in {a, b} : \A y \in {a, b} : x <= y
  OBVIOUS
<1>2. Min({a, b}) \in {a, b} /\ \A y \in {a, b} : Min({a, b}) <= y
  BY <1>1 DEF Min
<1>3. QED
  BY <1>2

LEMMA MostOfTwo ==
  ASSUME NEW a \in Int, NEW b \in Int
  PROVE  Max({a, b}) = (IF a >= b THEN a ELSE b)
<1>1. \E x \in {a, b} : \A y \in {a, b} : x >= y
  OBVIOUS
<1>2. Max({a, b}) \in {a, b} /\ \A y \in {a, b} : Max({a, b}) >= y
  BY <1>1 DEF Max
<1>3. QED
  BY <1>2

LEMMA PlaceType ==
  ASSUME NEW d \in Drv
  PROVE  CursorPlace(d, FALSE) \in Place
<1> DEFINE x == d.mouse[1] - d.xOffset
           y == d.mouse[2] - d.yOffset
           Origin(a) == IF a < 0 THEN Min({-a, CURSOR_WIDTH - 1}) ELSE 0
           rows == IF d.mode # NoMode /\ Timing[d.mode].doublescan THEN 2 ELSE 1
<1>1. x \in Int /\ y \in Int
  BY DEF Drv
<1>2. rows \in Int
  OBVIOUS
<1>3. ASSUME NEW a \in Int PROVE Origin(a) \in Int
  BY LeastOfTwo, DisplayAssumption
<1>4. ASSUME NEW a \in Int PROVE Max({a, 0}) \in Int
  BY MostOfTwo
<1> HIDE DEF x, y, rows, Origin
<1>5. Origin(x) \in Int /\ Origin(y) \in Int /\ Max({x, 0}) \in Int /\ Max({y, 0}) * rows \in Int
  BY <1>1, <1>2, <1>3, <1>4
<1>6. CursorPlace(d, FALSE)
        = [x |-> Max({x, 0}), y |-> Max({y, 0}) * rows, ox |-> Origin(x), oy |-> Origin(y) * 1,
           row |-> Origin(y) * 1]
  BY DEF CursorPlace, x, y, rows, Origin
<1> DEFINE at == CursorPlace(d, FALSE)
           ox == Origin(x)
           oy == Origin(y) * 1
           ax == Max({x, 0})
           ay == Max({y, 0}) * rows
<1>7. oy \in Int /\ ox \in Int /\ ax \in Int /\ ay \in Int
  BY <1>5
<1>8. at = [x |-> ax, y |-> ay, ox |-> ox, oy |-> oy, row |-> oy]
  BY <1>6
<1> HIDE DEF ox, oy, ax, ay, at
<1>9. at \in Place
  BY <1>7, <1>8 DEF Place
<1>10. QED
  BY <1>9 DEF at

LEMMA Applied ==
  ASSUME board \in Boards, NEW s \in State, s.hw.fp => DviActive(board)
  PROVE  LET t == ApplyDisplayState(s)
         IN /\ t \in State /\ t.drv = s.drv /\ t.clock = s.clock /\ LitRight(t)
            /\ Agree(t.hw, s.hw, HwFields \ {"off", "fp"}) /\ (t.hw.fp => DviActive(board))
            /\ (s.drv.dpms = 0 /\ Raised(s.drv)) \/ "display" \in t.hw.off
<1> DEFINE dpms == <<{}, {"h"}, {"v"}, {"h", "v"}>>[s.drv.dpms + 1]
           off == dpms \cup (IF Raised(s.drv) THEN {} ELSE {"display"})
           fp == \/ DviActive(board) /\ Raised(s.drv) /\ s.drv.timingReady /\ s.drv.formatReady
                 \/ ~DviActive(board) /\ s.hw.fp
           h == [s.hw EXCEPT !.off = off, !.fp = fp]
           t == ApplyDisplayState(s)
<1>1. s.drv \in Drv /\ s.hw \in Hw /\ s.clock \in [Modes \cup {Startup} -> Setting]
  BY DEF State
<1>2. s.drv.dpms \in 0 .. 3 /\ {s.drv.valid, s.drv.enabled, s.drv.timingReady, s.drv.formatReady, s.hw.fp} \subseteq BOOLEAN
  BY <1>1 DEF Drv, Hw
<1>3. dpms \in SUBSET {"h", "v"} /\ (s.drv.dpms = 0 => dpms = {})
  BY <1>2
<1>4. Raised(s.drv) \in BOOLEAN /\ fp \in BOOLEAN
  BY <1>2 DEF Raised
<1>5. t = [s EXCEPT !.hw = h]
  BY <1>1 DEF ApplyDisplayState, State
<1>6. off \in SUBSET {"display", "h", "v"} /\ ("display" \in off <=> ~Raised(s.drv))
  BY <1>3
<1> HIDE DEF off, fp, t
<1>7. h \in Hw /\ h.off = off /\ (h.fp <=> fp) /\ Agree(h, s.hw, HwFields \ {"off", "fp"})
  BY <1>1, <1>4, <1>6 DEF Hw, Agree, HwFields
<1> HIDE DEF h
<1>8. t \in State /\ t.drv = s.drv /\ t.clock = s.clock /\ t.hw = h
  BY <1>1, <1>5, <1>7 DEF State
<1>9. Raised(s.drv) => off = {}
  BY <1>3 DEF off, Raised
<1>10. LitRight(t)
  BY <1>6, <1>7, <1>8, <1>9 DEF fp, LitRight, Raised
<1>13. h.fp => DviActive(board)
  BY <1>7 DEF fp
<1>11. QED
  BY <1>6, <1>7, <1>8, <1>10, <1>13 DEF Raised, t

LEMMA Applying ==
  ASSUME board \in Boards, NEW s, NEW c, Steady(board, s), Promised(board, s, c)
  PROVE  LET t == ApplyDisplayState(s)
         IN Steady(board, t) /\ Promised(board, t, c) /\ LitRight(t) /\ t.drv = s.drv /\ t.clock = s.clock
<1>1. s \in State /\ (s.hw.fp => DviActive(board))
  BY DEF Steady
<1> DEFINE t == ApplyDisplayState(s)
<1>2. /\ t \in State /\ t.drv = s.drv /\ t.clock = s.clock /\ LitRight(t)
      /\ Agree(t.hw, s.hw, HwFields \ {"off", "fp"}) /\ (t.hw.fp => DviActive(board))
  BY <1>1, Applied
<1> HIDE DEF t
<1>3. Steady(board, t)
  BY <1>2 DEF Steady, Agree, HwFields
<1>4. Promised(board, t, c)
  BY <1>2, PromisedBy DEF Agree, HwFields
<1>5. QED
  BY <1>2, <1>3, <1>4 DEF t

LEMMA Invalidating ==
  ASSUME board \in Boards, NEW s, Steady(board, s)
  PROVE  LET t == Invalid(s)
         IN Steady(board, t) /\ Promised(board, t, {}) /\ LitRight(t) /\ ~t.drv.valid
            /\ t.drv.phase = s.drv.phase
<1> DEFINE d == [s.drv EXCEPT !.valid = FALSE]
           u == [s EXCEPT !.drv.valid = FALSE]
<1>1. s \in State /\ s.drv \in Drv /\ s.hw \in Hw
  BY DEF Steady, State
<1>2. d \in Drv /\ ~d.valid /\ Agree(d, s.drv, DrvFields \ {"valid"})
  BY <1>1 DEF Drv, Agree, DrvFields
<1>3. u = [s EXCEPT !.drv = d]
  BY <1>1 DEF State
<1> HIDE DEF d, u
<1>4. u \in State /\ u.drv = d /\ u.hw = s.hw /\ u.clock = s.clock
  BY <1>1, <1>2, <1>3 DEF State
<1>5. Steady(board, u)
  BY <1>2, <1>4 DEF Steady, Agree, DrvFields
<1>6. Promised(board, u, {})
  BY <1>2, <1>4 DEF Promised, Linked
<1>7. Invalid(s) = ApplyDisplayState(u)
  BY DEF Invalid, u
<1>8. QED
  BY <1>2, <1>4, <1>5, <1>6, <1>7, Applying DEF Agree, DrvFields

LEMMA Pointed ==
  ASSUME NEW s \in State
  PROVE  LET t == UpdateCursorPosition(s)
         IN /\ t \in State /\ t.drv = s.drv /\ t.clock = s.clock /\ Placed(t)
            /\ Agree(t.hw, s.hw, HwFields \ {"at"})
<1> DEFINE h == [s.hw EXCEPT !.at = CursorPlace(s.drv, FALSE)]
           t == UpdateCursorPosition(s)
<1>1. s.drv \in Drv /\ s.hw \in Hw /\ s.clock \in [Modes \cup {Startup} -> Setting]
  BY DEF State
<1>2. CASE s.drv.sprite = {}
  BY <1>2 DEF UpdateCursorPosition, Placed, Agree
<1>3. CASE s.drv.sprite # {}
  <2>1. h \in Hw /\ h.at = CursorPlace(s.drv, FALSE) /\ Agree(h, s.hw, HwFields \ {"at"})
    BY <1>1, PlaceType DEF Hw, Agree, HwFields
  <2>2. t = [s EXCEPT !.hw = h]
    BY <1>1, <1>3 DEF UpdateCursorPosition, State
  <2> HIDE DEF h
  <2>3. t \in State /\ t.drv = s.drv /\ t.clock = s.clock /\ t.hw = h
    BY <1>1, <2>1, <2>2 DEF State
  <2>4. QED
    BY <2>1, <2>3 DEF Placed
<1>4. QED
  BY <1>2, <1>3

LEMMA Uploaded ==
  ASSUME NEW s \in State
  PROVE  LET t == UploadCursor(s)
         IN /\ t \in State /\ t.drv = s.drv /\ t.clock = s.clock
            /\ Agree(t.hw, s.hw, HwFields \ {"image"})
<1> DEFINE i == [shape |-> s.drv.shape, color |-> s.drv.color]
           h == [s.hw EXCEPT !.image = i]
           t == UploadCursor(s)
<1>1. s.drv \in Drv /\ s.hw \in Hw /\ s.clock \in [Modes \cup {Startup} -> Setting]
  BY DEF State
<1>2. CASE s.drv.sprite = {}
  BY <1>2 DEF UploadCursor, Agree
<1>3. CASE s.drv.sprite # {}
  <2>0. i \in Images
    BY <1>1 DEF Drv, Images
  <2>1. h \in Hw /\ Agree(h, s.hw, HwFields \ {"image"})
    BY <1>1, <2>0 DEF Hw, Agree, HwFields
  <2>2. t = [s EXCEPT !.hw = h]
    BY <1>1, <1>3 DEF UploadCursor, State
  <2> HIDE DEF h
  <2>3. t \in State /\ t.drv = s.drv /\ t.clock = s.clock /\ t.hw = h
    BY <1>1, <2>1, <2>2 DEF State
  <2>4. QED
    BY <2>1, <2>3
<1>4. QED
  BY <1>2, <1>3

LEMMA Timed ==
  ASSUME board \in Boards, NEW s, Steady(board, s), NEW m \in Modes \cup {Startup},
         m = Startup => s.drv.startup
  PROVE  LET t == ProgramTiming(s, m)
         IN /\ Steady(board, t) /\ LitRight(t) /\ t.clock = s.clock
            /\ Agree(t.drv, s.drv, DrvFields \ {"valid", "timingReady", "formatReady", "mode"})
            /\ Placed(t) \/ ~t.drv.valid
            /\ t.drv.valid => t.drv.mode = m
            /\ Linked(board, t)
            /\ Agree(t.hw, s.hw, {"fb", "code", "vclk", "reset", "palette", "pitch", "start"})
            /\ "display" \in t.hw.off
<1> DEFINE d0 == [s.drv EXCEPT !.valid = FALSE, !.timingReady = FALSE, !.formatReady = FALSE,
                               !.mode = NoMode]
           h0 == [s.hw EXCEPT !.off = {"display", "h", "v"}]
           s0 == TimingOff(s)
           dvi == DviActive(board)
           tmds == SelectTmdsPll(board, ModeClock(s, m))
           F == DrvFields \ {"valid", "timingReady", "formatReady", "mode"}
           G == {"fb", "code", "vclk", "reset", "palette", "pitch", "start"}
<1>1. /\ s \in State /\ s.drv \in Drv /\ s.hw \in Hw /\ s.clock \in [Modes \cup {Startup} -> Setting]
  BY DEF Steady, State
<1>2. d0 \in Drv /\ ~d0.valid /\ ~d0.timingReady /\ ~d0.formatReady /\ d0.mode = NoMode /\ Agree(d0, s.drv, F)
  BY <1>1 DEF Drv, Agree, DrvFields
<1>3. h0 \in Hw /\ h0.off = {"display", "h", "v"} /\ Agree(h0, s.hw, HwFields \ {"off"})
  BY <1>1 DEF Hw, Agree, HwFields
<1>4. s0 = [s EXCEPT !.drv = d0, !.hw = h0]
  BY <1>1 DEF State, TimingOff
<1> HIDE DEF d0, h0, s0
<1>5. s0 \in State /\ s0.drv = d0 /\ s0.hw = h0 /\ s0.clock = s.clock
  BY <1>1, <1>2, <1>3, <1>4 DEF State
<1>6. CASE ~ValidateMode(Timing[m]) \/ FormatOfDepth(Timing[m].depth) = 0 \/ (dvi /\ tmds = {})
  <2>1. ProgramTiming(s, m) = s0
    BY <1>6 DEF ProgramTiming, s0
  <2>2. Steady(board, s0)
    BY <1>2, <1>3, <1>5 DEF Steady, Agree, DrvFields, HwFields, NoMode, Startup
  <2>3. LitRight(s0)
    BY <1>3, <1>5 DEF LitRight
  <2>4. Linked(board, s0)
    BY <1>2, <1>5 DEF Linked
  <2>5. QED
    BY <1>2, <1>3, <1>5, <2>1, <2>2, <2>3, <2>4 DEF Agree, HwFields
<1>7. CASE ~(~ValidateMode(Timing[m]) \/ FormatOfDepth(Timing[m].depth) = 0 \/ (dvi /\ tmds = {}))
  <2> DEFINE v == IF dvi THEN CHOOSE x \in tmds : TRUE ELSE s.hw.tmds
             d1 == [d0 EXCEPT !.valid = TRUE, !.timingReady = dvi, !.mode = m]
             h1 == [h0 EXCEPT !.fp = FALSE, !.raster = Raster(Timing[m]), !.shown = FALSE,
                              !.width = FormatOfDepth(Timing[m].depth), !.tmds = v]
             s1 == TimingOn(s0, m, dvi, v)
             t == UpdateCursorPosition(s1)
  <2>1. ProgramTiming(s, m) = t
    BY <1>7 DEF ProgramTiming, s0
  <2>2. FormatOfDepth(Timing[m].depth) \in Int
    BY DEF FormatOfDepth
  <2>3. ValidateMode(Timing[m]) /\ m \in DOMAIN Timing /\ Raster(Timing[m]) \in Rasters
    BY <1>7, DisplayAssumption, ZenonT(60) DEF Rasters
  <2>4. dvi => tmds # {} /\ v \in tmds /\ tmds = {v}
    BY <1>7 DEF SelectTmdsPll
  <2>5. ModeClock(s, m) \in Nat /\ ModeClock(s, m) = s.clock[m].hz
    BY <1>1 DEF ModeClock, Setting
  <2>6. v \in TmdsValues
    <3>1. CASE dvi
      BY <2>4, <2>5, <3>1 DEF TmdsValues
    <3>2. CASE ~dvi
      BY <1>1, <3>2 DEF Hw
    <3>3. QED
      BY <3>1, <3>2
  <2>7. dvi \in BOOLEAN
    BY DEF DviActive
  <2>8. d1 \in Drv /\ d1.valid /\ d1.mode = m /\ Agree(d1, d0, F \cup {"formatReady"})
    BY <1>2, <2>7, ZenonT(60) DEF Drv, Agree, DrvFields
  <2> HIDE DEF v, tmds, dvi
  <2>9. h1 \in Hw /\ ~h1.fp /\ h1.raster = Raster(Timing[m]) /\ ~h1.shown /\ h1.tmds = v
        /\ Agree(h1, h0, HwFields \ {"fp", "raster", "shown", "width", "tmds"})
    BY <1>3, <2>2, <2>3, <2>6 DEF Hw, Agree, HwFields
  <2>10. s1 = [s0 EXCEPT !.drv = d1, !.hw = h1]
    BY <1>5, ZenonT(60) DEF State, TimingOn
  <2> HIDE DEF d1, h1, s1
  <2>11. s1 \in State /\ s1.drv = d1 /\ s1.hw = h1 /\ s1.clock = s.clock
    BY <1>5, <2>8, <2>9, <2>10 DEF State
  <2>12. /\ t \in State /\ t.drv = s1.drv /\ t.clock = s1.clock /\ Placed(t)
         /\ Agree(t.hw, s1.hw, HwFields \ {"at"})
    BY <2>11, Pointed
  <2> HIDE DEF t
  <2>13. Agree(t.drv, s.drv, F) /\ t.drv.valid /\ t.drv.mode = m
    BY <1>2, <2>8, <2>11, <2>12 DEF Agree, DrvFields
  <2>14. Agree(t.hw, s.hw, HwFields \ {"off", "fp", "raster", "shown", "width", "tmds", "at"})
    BY <1>3, <2>9, <2>11, <2>12 DEF Agree, HwFields
  <2>15. ~t.hw.fp /\ t.hw.raster = Raster(Timing[m]) /\ ~t.hw.shown /\ t.hw.tmds = v /\ "display" \in t.hw.off
    BY <1>3, <2>9, <2>11, <2>12 DEF Agree, HwFields
  <2>16. m # NoMode
    BY DisplayAssumption DEF NoMode, Startup
  <2>17. Steady(board, t)
    BY <2>3, <2>12, <2>13, <2>14, <2>15, <2>16 DEF Steady, Agree, DrvFields, HwFields
  <2>18. Linked(board, t)
    BY <2>4, <2>5, <2>11, <2>12, <2>13, <2>15 DEF Linked, dvi, tmds
  <2>19. LitRight(t)
    BY <2>15 DEF LitRight
  <2>20. t.clock = s.clock /\ Agree(t.hw, s.hw, G)
    BY <2>11, <2>12, <2>14 DEF Agree, HwFields
  <2>21. QED
    BY <2>1, <2>12, <2>13, <2>15, <2>17, <2>18, <2>19, <2>20
<1>8. QED
  BY <1>6, <1>7

LEMMA Formatted ==
  ASSUME board \in Boards, NEW s \in State, NEW f \in Int
  PROVE  LET t == ConfigureDac(s, f)
         IN /\ t \in State /\ t.clock = s.clock
            /\ Agree(t.drv, s.drv, DrvFields \ {"formatReady"}) /\ (t.drv.formatReady <=> DviActive(board))
            /\ Agree(t.hw, s.hw, HwFields \ {"width"}) /\ t.hw.width = f
<1> DEFINE dvi == DviActive(board)
           d == [s.drv EXCEPT !.formatReady = dvi]
           h == [s.hw EXCEPT !.width = f]
           t == ConfigureDac(s, f)
<1>1. /\ s.drv \in Drv /\ s.hw \in Hw /\ dvi \in BOOLEAN
  BY DEF State, DviActive
<1>2. t = [s EXCEPT !.drv = d, !.hw = h]
  BY DEF ConfigureDac, State
<1> HIDE DEF dvi
<1>3. d \in Drv /\ Agree(d, s.drv, DrvFields \ {"formatReady"}) /\ (d.formatReady <=> dvi)
  BY <1>1 DEF Drv, Agree, DrvFields
<1>4. h \in Hw /\ Agree(h, s.hw, HwFields \ {"width"}) /\ h.width = f
  BY <1>1 DEF Hw, Agree, HwFields
<1> HIDE DEF d, h, t
<1>5. t \in State /\ t.clock = s.clock /\ t.drv = d /\ t.hw = h
  BY <1>1, <1>2, <1>3, <1>4 DEF State
<1>6. QED
  BY <1>3, <1>4, <1>5 DEF dvi, t

LinearType == Linear \in Palette /\ StartupColors \in Palette

LEMMA Ramps == LinearType
BY DisplayAssumption DEF LinearType, Linear, StartupColors, Palette, Indices

LEMMA Painted ==
  ASSUME NEW s \in State, NEW start \in Nat, NEW count \in Nat, NEW linear \in BOOLEAN
  PROVE  LET t == ProgramPalette(s, start, count, linear)
         IN /\ t \in State /\ t.clock = s.clock /\ t.drv = s.drv
            /\ Agree(t.hw, s.hw, HwFields \ {"palette"})
            /\ start = 0 /\ count = PaletteSize => t.hw.palette = (IF linear THEN Linear ELSE s.drv.clut)
            /\ start < PaletteSize /\ count <= PaletteSize - start /\ ~linear =>
                 \A i \in Indices : t.hw.palette[i] = IF i \in start .. (start + count - 1) THEN s.drv.clut[i]
                                                      ELSE s.hw.palette[i]
<1> DEFINE old == s.hw.palette
           p == [i \in DOMAIN old |-> IF i \notin start..(start + count - 1) THEN old[i]
                              ELSE IF linear THEN Linear[i] ELSE s.drv.clut[i]]
           h == [s.hw EXCEPT !.palette = p]
           t == ProgramPalette(s, start, count, linear)
<1>1. /\ s.drv \in Drv /\ s.hw \in Hw /\ s.clock \in [Modes \cup {Startup} -> Setting]
  BY DEF State
<1>2. old \in Palette /\ s.drv.clut \in Palette /\ Linear \in Palette
  BY <1>1, Ramps DEF Drv, Hw, LinearType
<1>0. PaletteSize \in Nat \ {0}
  BY DisplayAssumption
<1>3. CASE start >= PaletteSize \/ count > PaletteSize - start
  <2>1. t = s
    BY <1>3 DEF ProgramPalette
  <2>2. QED
    BY <1>0, <1>1, <1>3, <2>1 DEF Agree
<1>4. CASE ~(start >= PaletteSize \/ count > PaletteSize - start)
  <2>1. p \in Palette
    BY <1>2 DEF Palette
  <2>2. t = [s EXCEPT !.hw = h]
    BY <1>1, <1>4 DEF ProgramPalette, State
  <2>3. \A i \in Indices : p[i] = IF i \notin start..(start + count - 1) THEN old[i]
                              ELSE IF linear THEN Linear[i] ELSE s.drv.clut[i]
    BY <1>2 DEF Palette
  <2> HIDE DEF p
  <2>4. h \in Hw /\ h.palette = p /\ Agree(h, s.hw, HwFields \ {"palette"})
    BY <1>1, <2>1 DEF Hw, Agree, HwFields
  <2> HIDE DEF h, t
  <2>5. t \in State /\ t.clock = s.clock /\ t.drv = s.drv /\ t.hw = h
    BY <1>1, <2>2, <2>4 DEF State
  <2>6. ASSUME start = 0, count = PaletteSize PROVE p = IF linear THEN Linear ELSE s.drv.clut
    <3>1. \A i \in Indices : p[i] = IF linear THEN Linear[i] ELSE s.drv.clut[i]
      BY <1>0, <2>3, <2>6 DEF Indices
    <3>2. QED
      BY <1>2, <2>1, <3>1 DEF Palette
  <2>7. QED
    BY <2>3, <2>4, <2>5, <2>6 DEF t
<1>5. QED
  BY <1>3, <1>4

LEMMA PaintedWhole ==
  ASSUME NEW s \in State, NEW linear \in BOOLEAN
  PROVE  LET t == ProgramPalette(s, 0, PaletteSize, linear)
         IN /\ t \in State /\ t.clock = s.clock /\ t.drv = s.drv
            /\ Agree(t.hw, s.hw, HwFields \ {"palette"})
            /\ t.hw.palette = (IF linear THEN Linear ELSE s.drv.clut)
<1>1. ASSUME NEW z \in Nat, NEW n \in Nat, z = 0, n = PaletteSize
      PROVE  /\ ProgramPalette(s, z, n, linear) \in State
             /\ ProgramPalette(s, z, n, linear).clock = s.clock
             /\ ProgramPalette(s, z, n, linear).drv = s.drv
             /\ Agree(ProgramPalette(s, z, n, linear).hw, s.hw, HwFields \ {"palette"})
             /\ ProgramPalette(s, z, n, linear).hw.palette = (IF linear THEN Linear ELSE s.drv.clut)
  <2>1. ProgramPalette(s, z, n, linear) \in State
    BY Painted
  <2>2. ProgramPalette(s, z, n, linear).clock = s.clock
    BY Painted
  <2>3. ProgramPalette(s, z, n, linear).drv = s.drv
    BY Painted
  <2>4. Agree(ProgramPalette(s, z, n, linear).hw, s.hw, HwFields \ {"palette"})
    BY Painted
  <2>5. ProgramPalette(s, z, n, linear).hw.palette = (IF linear THEN Linear ELSE s.drv.clut)
    BY <1>1, Painted
  <2>6. QED
    BY <2>1, <2>2, <2>3, <2>4, <2>5
<1>2. PaletteSize \in Nat
  BY DisplayAssumption
<1>3. QED
  BY <1>1, <1>2

LEMMA ClockSet ==
  ASSUME NEW s \in State, NEW c \in Setting, NEW settles \in BOOLEAN
  PROVE  LET t == ProgramClock(s, c, settles)
         IN /\ t \in State /\ t.clock = s.clock /\ t.drv = s.drv
            /\ Agree(t.hw, s.hw, HwFields \ {"fb", "code", "reset", "vclk"})
            /\ settles \/ ClockUnchanged(s, c) => t.hw.vclk = "ppll"
            /\ (s.hw.vclk = "ppll" => ~s.hw.reset) => (t.hw.vclk = "ppll" => ~t.hw.reset)
<1> DEFINE h == [s.hw EXCEPT !.fb = c.fb, !.code = c.code, !.reset = ~settles,
                             !.vclk = IF settles THEN "ppll" ELSE "cpu"]
           t == ProgramClock(s, c, settles)
<1>1. /\ s.drv \in Drv /\ s.hw \in Hw /\ s.clock \in [Modes \cup {Startup} -> Setting]
      /\ c.fb \in Int /\ c.code \in Int
  BY DEF State, Setting
<1>2. CASE ClockUnchanged(s, c)
  BY <1>2 DEF ProgramClock, Agree, ClockUnchanged
<1>3. CASE ~ClockUnchanged(s, c)
  <2>1. t = [s EXCEPT !.hw = h]
    BY <1>1, <1>3 DEF ProgramClock, State
  <2>2. h \in Hw /\ Agree(h, s.hw, HwFields \ {"fb", "code", "reset", "vclk"})
        /\ (settles <=> h.vclk = "ppll") /\ (h.reset <=> ~settles)
    BY <1>1 DEF Hw, Agree, HwFields
  <2> HIDE DEF h
  <2>3. t \in State /\ t.clock = s.clock /\ t.drv = s.drv /\ t.hw = h
    BY <1>1, <2>1, <2>2 DEF State
  <2>4. QED
    BY <1>3, <2>2, <2>3
<1>4. QED
  BY <1>2, <1>3

LEMMA NatDiv ==
  ASSUME NEW a \in Nat, NEW b \in Nat \ {0}
  PROVE  a \div b \in Nat
OBVIOUS

LEMMA IntDiv ==
  ASSUME NEW a \in Int, NEW b \in Nat \ {0}
  PROVE  a \div b \in Int
OBVIOUS

LEMMA NatTimes ==
  ASSUME NEW a \in Nat, NEW b \in Nat
  PROVE  a * b \in Nat
OBVIOUS

LEMMA PosTimes ==
  ASSUME NEW a \in Nat \ {0}, NEW b \in Nat \ {0}
  PROVE  a * b \in Nat \ {0}
OBVIOUS

LEMMA LeastOfEight ==
  ASSUME NEW S \in SUBSET (1 .. 8), S # {}
  PROVE  Min(S) \in S
<1>1. \E x \in S : \A y \in S : x <= y
  <2>1. CASE 1 \in S \/ 2 \in S
    BY <2>1
  <2>2. CASE ~(1 \in S \/ 2 \in S) /\ (3 \in S \/ 4 \in S)
    BY <2>2
  <2>3. CASE ~(1 \in S \/ 2 \in S \/ 3 \in S \/ 4 \in S) /\ (5 \in S \/ 6 \in S)
    BY <2>3
  <2>4. CASE ~(1 \in S \/ 2 \in S \/ 3 \in S \/ 4 \in S \/ 5 \in S \/ 6 \in S)
    <3>1. \A x \in S : x = 7 \/ x = 8
      BY <2>4
    <3>2. CASE 7 \in S
      BY <3>1, <3>2
    <3>3. CASE 7 \notin S
      <4>1. PICK x \in S : TRUE
        OBVIOUS
      <4>2. x = 8 /\ \A y \in S : y = 8
        BY <3>1, <3>3
      <4>3. QED
        BY <4>2
    <3>4. QED
      BY <3>2, <3>3
  <2>5. QED
    BY <2>1, <2>2, <2>3, <2>4
<1>2. QED
  BY <1>1 DEF Min

LEMMA Settings ==
  ASSUME NEW b \in Boards, NEW hz \in Int, NEW nearest \in BOOLEAN,
         NEW p \in CalculatePll(b, hz, nearest)
  PROVE  /\ p \in Setting /\ p.fb \in 1 .. FeedbackMax
         /\ DviActive(b) => p.hz <= DviMaxClock
<1> DEFINE target == (hz + KHz \div 2) \div KHz
           fits == {i \in DOMAIN Divisors : b.min <= target * Divisors[i] /\ target * Divisors[i] <= b.max}
           i == Min(fits)
           fb == (b.div * target * Divisors[i] + b.ref \div 2) \div b.ref
           actual == (b.ref * KHz * fb + (b.div * Divisors[i]) \div 2) \div (b.div * Divisors[i])
           error == Max({actual - hz, hz - actual})
<1>1. /\ b.ref \in Nat \ {0} /\ b.div \in Nat \ {0} /\ b.min \in Nat \ {0} /\ b.max \in Nat
      /\ KHz \in Nat \ {0}
  <2>1. b \in [ref : Nat, div : Nat, min : Nat, max : Nat, limit : Nat,
               tmds : Seq([limit : Nat, value : Nat])]
    BY DisplayAssumption
  <2>2. b.ref > 0 /\ b.div >= 2 /\ b.min > 0 /\ KHz \in Nat \ {0}
    BY DisplayAssumption
  <2>3. QED
    BY <2>1, <2>2
<1>2. target \in Int
  BY <1>1, IntDiv
<1>3. DOMAIN Divisors = 1 .. 8 /\ \A j \in 1 .. 8 : Divisors[j] \in Nat \ {0} /\ Codes[j] \in Int
  BY SMTT(60) DEF Divisors, Codes
<1> HIDE DEF target
<1>4. ~(hz = 0 \/ (DviActive(b) /\ hz > DviMaxClock) \/ fits = {})
      /\ ~(\/ fb = 0 \/ fb > FeedbackMax
           \/ ~nearest /\ error * 200 > hz
           \/ DviActive(b) /\ actual > DviMaxClock)
      /\ p = [fb |-> fb, code |-> Codes[i], hz |-> actual]
  BY ZenonT(60) DEF CalculatePll, target
<1>5. fits \in SUBSET (1 .. 8) /\ fits # {}
  BY <1>3, <1>4
<1>6. i \in fits
  BY <1>5, LeastOfEight
<1>7. i \in 1 .. 8 /\ b.min <= target * Divisors[i]
  BY <1>3, <1>6
<1>8. Divisors[i] \in Nat \ {0} /\ Codes[i] \in Int
  BY <1>3, <1>7
<1> DEFINE dv == Divisors[i]
<1>9. dv \in Nat \ {0}
  BY <1>8
<1> HIDE DEF fits, i, dv
<1>10. target \in Nat
  <2>1. b.min <= target * dv
    BY <1>7 DEF dv
  <2>2. QED
    BY <1>1, <1>2, <1>9, <2>1
<1>11. b.div * target \in Nat
  BY <1>1, <1>10, NatTimes
<1>12. b.div * target * dv \in Nat
  BY <1>9, <1>11, NatTimes
<1>13. b.ref \div 2 \in Nat
  BY <1>1
<1>14. fb \in Nat
  <2> DEFINE n == b.div * target * dv + b.ref \div 2
  <2>1. n \in Nat
    BY <1>12, <1>13
  <2>2. fb = n \div b.ref
    BY DEF dv
  <2> HIDE DEF n, fb
  <2>3. QED
    BY <1>1, <2>1, <2>2, NatDiv
<1> HIDE DEF fb
<1>15. b.ref * KHz * fb \in Nat
  BY <1>1, <1>14, NatTimes
<1>16. b.div * dv \in Nat \ {0}
  BY <1>1, <1>9, PosTimes
<1>17. actual \in Nat
  <2> DEFINE m == b.div * dv
             k == b.ref * KHz * fb
  <2>1. m \in Nat \ {0} /\ k \in Nat
    BY <1>15, <1>16
  <2>2. actual = (k + m \div 2) \div m
    BY DEF dv
  <2> HIDE DEF m, k, actual
  <2>3. k + m \div 2 \in Nat
    BY <2>1
  <2>4. QED
    BY <2>1, <2>2, <2>3, NatDiv
<1> HIDE DEF actual, error
<1>18. fb # 0 /\ ~(fb > FeedbackMax) /\ ~(DviActive(b) /\ actual > DviMaxClock)
  BY <1>4
<1>19. fb \in 1 .. FeedbackMax
  BY <1>14, <1>18 DEF FeedbackMax
<1>20. DviActive(b) => actual <= DviMaxClock
  BY <1>1, <1>17, <1>18 DEF DviMaxClock, MHz
<1>21. p \in Setting
  BY <1>4, <1>8, <1>17, <1>19 DEF Setting
<1>22. p.fb = fb /\ p.hz = actual
  BY <1>4
<1>23. QED
  BY <1>19, <1>20, <1>21, <1>22

LEMMA ClockTypes ==
  ASSUME NEW b \in Boards
  PROVE  /\ ClockMinimum(b) \in Nat /\ ClockCount(b) \in Int
         /\ \A index \in Int : GetPixelClock(b, index) \in Int
         /\ Step \in Nat \ {0}
<1>1. b.min \in Nat /\ KHz \in Nat \ {0} /\ b.max \in Nat
  BY DisplayAssumption
<1>2. Step \in Nat \ {0}
  BY <1>1 DEF Step
<1>3. b.min * KHz \in Nat /\ b.max * KHz \in Nat
  BY <1>1, NatTimes
<1>4. CeilDiv(b.min * KHz, 16) \in Nat
  BY <1>3 DEF CeilDiv
<1>5. ASSUME NEW n \in Nat PROVE CeilDiv(n, Step) * Step \in Nat
  <2>1. n + Step - 1 \in Nat
    BY <1>2
  <2>2. CeilDiv(n, Step) \in Nat
    BY <1>2, <2>1, NatDiv DEF CeilDiv
  <2>3. QED
    BY <1>2, <2>2, NatTimes
<1>6. ClockMinimum(b) \in Nat
  BY <1>4, <1>5 DEF ClockMinimum
<1>7. ClockMaximum(b) \in Int
  <2> DEFINE x == 230 * MHz
             y == b.max * KHz
             z == 164 * MHz + 3 * Step
  <2>1. x \in Int /\ y \in Int /\ z \in Int
    BY <1>1, <1>2, <1>3 DEF MHz
  <2>2. ClockMaximum(b) = Min({x, y} \cup (IF DviActive(b) THEN {z} ELSE {}))
    BY DEF ClockMaximum
  <2> HIDE DEF x, y, z
  <2>3. CASE DviActive(b)
    <3>1. ClockMaximum(b) = Min({x, y, z})
      <4>1. {x, y} \cup {z} = {x, y, z}
        OBVIOUS
      <4>2. QED
        BY <2>2, <2>3, <4>1
    <3>2. \E m \in {x, y, z} : \A o \in {x, y, z} : m <= o
      BY <2>1
    <3>3. Min({x, y, z}) \in {x, y, z}
      BY <3>2 DEF Min
    <3>4. QED
      BY <2>1, <3>1, <3>3
  <2>4. CASE ~DviActive(b)
    <3>1. ClockMaximum(b) = Min({x, y})
      <4>1. {x, y} \cup {} = {x, y}
        OBVIOUS
      <4>2. QED
        BY <2>2, <2>4, <4>1
    <3>2. QED
      BY <2>1, <3>1, LeastOfTwo
  <2>5. QED
    BY <2>3, <2>4
<1>8. ClockCount(b) \in Int
  BY <1>2, <1>6, <1>7, IntDiv DEF ClockCount
<1>9. ASSUME NEW index \in Int PROVE GetPixelClock(b, index) \in Int
  BY <1>2, <1>6 DEF GetPixelClock
<1>10. QED
  BY <1>2, <1>6, <1>8, <1>9

(* Each call of the display in turn keeps the invariant, whether it succeeds *)
(* or fails.                                                                *)
LEMMA InReady ==
  ASSUME DispInv, drv.phase = "ready"
  PROVE  /\ board \in Boards /\ Steady(board, Now) /\ LitRight(Now) /\ Promised(board, Now, since)
         /\ since \subseteq Things /\ Now \in State /\ Now.drv = drv /\ Now.clock = clock /\ Now.hw = hw
         /\ drv \in Drv /\ hw \in Hw /\ clock \in [Modes \cup {Startup} -> Setting]
<1>1. Now.drv = drv /\ Now.clock = clock /\ Now.hw = hw
  BY DEF Now
<1>2. board \in Boards /\ Steady(board, Now) /\ LitRight(Now) /\ Promised(board, Now, since) /\ since \subseteq Things
  BY <1>1 DEF DispInv, Good
<1>3. Now \in State
  BY <1>2 DEF Steady
<1>4. QED
  BY <1>1, <1>2, <1>3 DEF State

LEMMA GCGood ==
  ASSUME DispInv, NEW m \in Modes, RadeonSetGC(m)
  PROVE  DispInv'
<1> DEFINE s == ProgramTiming(Now, m)
<1>1. drv.phase = "ready" /\ Becomes(s) /\ UNCHANGED board /\ since' = IF s.drv.valid THEN {"placed"} ELSE {}
  BY DEF RadeonSetGC
<1>2. board \in Boards /\ Steady(board, Now) /\ m # Startup
  BY <1>1, InReady, DisplayAssumption
<1>3. /\ Steady(board, s) /\ LitRight(s) /\ (Placed(s) \/ ~s.drv.valid) /\ Linked(board, s)
  BY <1>2, Timed
<1> HIDE DEF s
<1>4. Promised(board, s, since')
  BY <1>1, <1>3 DEF Promised
<1>5. since' \subseteq Things
  BY <1>1 DEF Things
<1>6. Good(board, s, since') /\ s \in State
  BY <1>2, <1>3, <1>4, <1>5 DEF Good, Steady
<1>7. QED
  BY <1>1, <1>6, Become

LEMMA DACGood ==
  ASSUME DispInv, NEW f \in Formats, RadeonSetDAC(f)
  PROVE  DispInv'
<1>0. drv.phase = "ready" /\ UNCHANGED board
  BY DEF RadeonSetDAC
<1>1. /\ board \in Boards /\ Steady(board, Now) /\ LitRight(Now) /\ Promised(board, Now, since)
      /\ since \subseteq Things /\ Now \in State
  BY <1>0, InReady
<1>2. CASE f = 0
  <2> DEFINE s == Invalid(Now)
  <2>1. Becomes(s) /\ Since({"dac"}, s)
    BY <1>2 DEF RadeonSetDAC
  <2>2. Steady(board, s) /\ Promised(board, s, {}) /\ LitRight(s) /\ ~s.drv.valid
    BY <1>1, Invalidating
  <2> HIDE DEF s
  <2>3. since' = {}
    BY <2>1, <2>2 DEF Since
  <2>4. Good(board, s, since') /\ s \in State
    BY <1>1, <2>2, <2>3 DEF Good, Steady
  <2>5. QED
    BY <1>0, <2>1, <2>4, Become
<1>3. CASE f # 0
  <2> DEFINE u == ConfigureDac(Now, f)
             v == ProgramPalette(u, 0, PaletteSize, f # 1)
             d == [v.drv EXCEPT !.format = f]
             s == [v EXCEPT !.drv.format = f]
  <2>1. Becomes(s) /\ Since({"dac"}, s)
    BY <1>3 DEF RadeonSetDAC
  <2>2. f \in Int /\ f \in Formats \ {0} /\ PaletteSize \in Nat
    BY <1>3, DisplayAssumption
  <2>3. /\ u \in State /\ u.clock = Now.clock
        /\ Agree(u.drv, Now.drv, DrvFields \ {"formatReady"}) /\ (u.drv.formatReady <=> DviActive(board))
        /\ Agree(u.hw, Now.hw, HwFields \ {"width"}) /\ u.hw.width = f
    BY <1>1, <2>2, Formatted
  <2> HIDE DEF u
  <2>4. /\ v \in State /\ v.clock = u.clock /\ v.drv = u.drv
        /\ Agree(v.hw, u.hw, HwFields \ {"palette"})
        /\ v.hw.palette = (IF f # 1 THEN Linear ELSE u.drv.clut)
    <3> DEFINE l == f # 1
    <3>1. l \in BOOLEAN
      OBVIOUS
    <3> HIDE DEF l
    <3>2. LET w == ProgramPalette(u, 0, PaletteSize, l)
          IN /\ w \in State /\ w.clock = u.clock /\ w.drv = u.drv
             /\ Agree(w.hw, u.hw, HwFields \ {"palette"})
             /\ w.hw.palette = (IF l THEN Linear ELSE u.drv.clut)
      BY <2>3, <3>1, PaintedWhole
    <3>3. QED
      BY <3>2 DEF l
  <2> HIDE DEF v
  <2>5. v.drv \in Drv
    BY <2>4 DEF State
  <2>6. d \in Drv /\ d.format = f /\ Agree(d, v.drv, DrvFields \ {"format"})
    BY <2>2, <2>5 DEF Drv, Agree, DrvFields
  <2>7. s = [v EXCEPT !.drv = d]
    BY <2>4 DEF State
  <2> HIDE DEF d, s
  <2>8. s \in State /\ s.drv = d /\ s.hw = v.hw /\ s.clock = v.clock
    BY <2>4, <2>6, <2>7 DEF State
  <2>9. Agree(s.drv, Now.drv, DrvFields \ {"format", "formatReady"}) /\ (s.drv.formatReady <=> DviActive(board))
        /\ s.drv.format = f
    BY <2>3, <2>4, <2>6, <2>8 DEF Agree, DrvFields
  <2>10. Agree(s.hw, Now.hw, HwFields \ {"palette", "width"}) /\ s.hw.width = f
         /\ s.hw.palette = (IF f # 1 THEN Linear ELSE s.drv.clut)
    BY <2>3, <2>4, <2>6, <2>8 DEF Agree, HwFields, DrvFields
  <2>11. s.clock = Now.clock
    BY <2>3, <2>4, <2>8
  <2>12. Steady(board, s)
    BY <1>1, <2>8, <2>9, <2>10, SteadyBy DEF Agree, HwFields, DrvFields
  <2>13. LitRight(s)
    BY <1>1, <2>9, <2>10, <2>12 DEF LitRight, Agree, HwFields, DrvFields, Steady
  <2>14. Colored(s)
    BY <2>9, <2>10 DEF Colored
  <2>15. (Panned(board, Now) => Panned(board, s)) /\ (Linked(board, Now) => Linked(board, s))
    BY <2>9, <2>10, <2>11 DEF Panned, Linked, Agree, HwFields, DrvFields
  <2>16. Placed(Now) => Placed(s)
    <3>1. CursorPlace(s.drv, FALSE) = CursorPlace(Now.drv, FALSE)
      BY <2>9, PlaceBy DEF Agree, DrvFields
    <3>2. QED
      BY <2>9, <2>10, <3>1 DEF Placed, Agree, HwFields, DrvFields
  <2>17. s.hw.vclk = Now.hw.vclk
    BY <2>10 DEF Agree, HwFields
  <2>18. since' = (IF s.drv.valid THEN since \cup {"dac"} ELSE {}) /\ since' \subseteq Things
    BY <1>1, <2>1 DEF Since, Things
  <2>19. ~s.drv.valid => Linked(board, s)
    BY DEF Linked
  <2>20. Promised(board, s, since')
    BY <1>1, <2>14, <2>15, <2>16, <2>17, <2>18, <2>19 DEF Promised
  <2>21. Good(board, s, since')
    BY <1>1, <2>12, <2>13, <2>18, <2>20 DEF Good
  <2>22. QED
    BY <1>0, <2>1, <2>8, <2>21, Become
<1>4. QED
  BY <1>2, <1>3

LEMMA ColorsGood ==
  ASSUME DispInv, NEW start \in 0 .. (PaletteSize - 1), NEW color \in Colors,
         NEW count \in 1 .. (PaletteSize - start), RadeonSetColorArray(start, count, color)
  PROVE  DispInv'
<1> DEFINE new == [i \in DOMAIN drv.clut |-> IF i \in start..(start + count - 1) THEN color ELSE drv.clut[i]]
           d == [drv EXCEPT !.clut = new]
           s == [Now EXCEPT !.drv.clut =
                 [i \in DOMAIN @ |-> IF i \in start..(start + count - 1) THEN color ELSE @[i]]]
           v == ProgramPalette(s, start, count, FALSE)
           t == IF s.drv.format = 1 THEN v ELSE s
<1>0. drv.phase = "ready" /\ UNCHANGED board /\ Becomes(t) /\ since' = since
  BY DEF RadeonSetColorArray
<1>1. /\ board \in Boards /\ Steady(board, Now) /\ LitRight(Now) /\ Promised(board, Now, since)
      /\ since \subseteq Things /\ Now \in State /\ Now.drv = drv /\ Now.hw = hw /\ drv \in Drv /\ hw \in Hw
  BY <1>0, InReady
<1>2. start \in Nat /\ count \in Nat /\ start < PaletteSize /\ count <= PaletteSize - start
  BY DisplayAssumption
<1>3. drv.clut \in Palette /\ hw.palette \in Palette
  BY <1>1 DEF Drv, Hw
<1>4. new \in Palette /\ \A i \in Indices : new[i] = IF i \in start..(start + count - 1) THEN color ELSE drv.clut[i]
  BY <1>3 DEF Palette
<1> HIDE DEF new
<1>5. d \in Drv /\ d.clut = new /\ Agree(d, drv, DrvFields \ {"clut"})
  BY <1>1, <1>4 DEF Drv, Agree, DrvFields
<1>6. s = [Now EXCEPT !.drv = d]
  BY <1>1 DEF State, new
<1> HIDE DEF d, s, t, v
<1>7. s \in State /\ s.drv = d /\ s.hw = Now.hw /\ s.clock = Now.clock
  BY <1>1, <1>5, <1>6 DEF State
<1>8. /\ v \in State /\ v.clock = s.clock /\ v.drv = s.drv
      /\ Agree(v.hw, s.hw, HwFields \ {"palette"})
      /\ \A i \in Indices : v.hw.palette[i] = IF i \in start .. (start + count - 1) THEN s.drv.clut[i]
                                                      ELSE s.hw.palette[i]
  <2>1. FALSE \in BOOLEAN
    OBVIOUS
  <2>2. QED
    BY <1>2, <1>7, <2>1, Painted, ZenonT(60) DEF v
<1>9. v.hw.palette \in Palette
  BY <1>8 DEF State, Hw
<1>10. s.drv.format = 1 /\ Colored(Now) => v.hw.palette = new
  <2> SUFFICES ASSUME s.drv.format = 1, Colored(Now) PROVE v.hw.palette = new
    OBVIOUS
  <2>1. hw.palette = drv.clut
    BY <1>1, <1>5, <1>7 DEF Colored, Agree, DrvFields
  <2>2. \A i \in Indices : v.hw.palette[i] = new[i]
    BY <1>1, <1>4, <1>5, <1>7, <1>8, <2>1
  <2>3. QED
    BY <1>4, <1>9, <2>2 DEF Palette
<1>11. t \in State /\ t.drv = d /\ t.clock = Now.clock /\ Agree(t.hw, Now.hw, HwFields \ {"palette"})
  BY <1>7, <1>8 DEF t, Agree
<1>12. Agree(t.drv, Now.drv, DrvFields \ {"clut"})
  BY <1>1, <1>5, <1>11
<1>13. Colored(Now) => Colored(t)
  <2>1. CASE s.drv.format = 1
    BY <1>5, <1>7, <1>8, <1>10, <1>11, <1>12, <2>1 DEF Colored, t, Agree, HwFields, DrvFields
  <2>2. CASE s.drv.format # 1
    BY <1>7, <1>11, <1>12, <2>2 DEF Colored, t, Agree, HwFields, DrvFields
  <2>3. QED
    BY <2>1, <2>2
<1>14. Steady(board, t)
  BY <1>1, <1>11, <1>12, SteadyBy DEF Agree, HwFields, DrvFields
<1>15. LitRight(t)
  BY <1>1, <1>11, <1>12, LitBy DEF Agree, HwFields, DrvFields
<1>16. (Panned(board, Now) => Panned(board, t)) /\ (Linked(board, Now) => Linked(board, t))
  BY <1>11, <1>12 DEF Panned, Linked, Agree, HwFields, DrvFields
<1>17. Placed(Now) => Placed(t)
  <2>1. CursorPlace(t.drv, FALSE) = CursorPlace(Now.drv, FALSE)
    BY <1>12, PlaceBy DEF Agree, DrvFields
  <2>2. QED
    BY <1>11, <1>12, <2>1 DEF Placed, Agree, HwFields, DrvFields
<1>18. t.hw.vclk = Now.hw.vclk
  BY <1>11 DEF Agree, HwFields
<1>19. Promised(board, t, since')
  BY <1>0, <1>1, <1>13, <1>16, <1>17, <1>18 DEF Promised
<1>20. Good(board, t, since')
  BY <1>0, <1>1, <1>14, <1>15, <1>19 DEF Good
<1>21. QED
  BY <1>0, <1>11, <1>20, Become

LEMMA ResolveGood ==
  ASSUME DispInv, NEW m \in Modes, NEW f \in Formats, NEW hz \in Clocks, RadeonResolvePixelClock(m, f, hz)
  PROVE  DispInv'
<1> DEFINE wanted == IF hz <= ClockMinimum(board) THEN 0
                ELSE (hz - ClockMinimum(board) + Step \div 2) \div Step
           index == Min({wanted, ClockCount(board) - 1})
           pll == CalculatePll(board, GetPixelClock(board, index), TRUE)
           p == CHOOSE x \in pll : TRUE
           k == [clock EXCEPT ![m] = p]
           s == [drv |-> drv, clock |-> k, hw |-> hw]
<1>0. /\ drv.phase = "ready" /\ UNCHANGED board /\ pll # {} /\ clock' = k /\ drv' = drv /\ hw' = hw
      /\ since' = IF m = drv.mode THEN since \cup {"resolved"} ELSE since
  BY DEF RadeonResolvePixelClock
<1>1. /\ board \in Boards /\ Steady(board, Now) /\ LitRight(Now) /\ Promised(board, Now, since)
      /\ since \subseteq Things /\ Now \in State /\ Now.drv = drv /\ Now.hw = hw /\ Now.clock = clock
      /\ drv \in Drv /\ hw \in Hw /\ clock \in [Modes \cup {Startup} -> Setting]
  BY <1>0, InReady
<1>2. hz \in Int /\ ClockMinimum(board) \in Int /\ Step \in Nat \ {0} /\ ClockCount(board) \in Int
  BY <1>1, ClockTypes, DisplayAssumption
<1>3. wanted \in Int
  BY <1>2, IntDiv
<1> HIDE DEF wanted
<1>4. index \in Int
  BY <1>2, <1>3, LeastOfTwo
<1> HIDE DEF index
<1>5. GetPixelClock(board, index) \in Int
  BY <1>1, <1>4, ClockTypes
<1>6. p \in pll
  BY <1>0
<1>7. p \in Setting
  <2>1. TRUE \in BOOLEAN
    OBVIOUS
  <2>2. QED
    BY <1>1, <1>5, <1>6, <2>1, Settings
<1> HIDE DEF pll, p
<1>8. k \in [Modes \cup {Startup} -> Setting] /\ \A n \in Modes \cup {Startup} : n # m => k[n] = clock[n]
  BY <1>1, <1>7
<1> HIDE DEF k
<1>9. s \in State /\ s.drv = Now.drv /\ s.hw = Now.hw /\ s.clock = k
  BY <1>1, <1>8 DEF State
<1>10. Becomes(s)
  BY <1>0 DEF Becomes
<1> HIDE DEF s
<1>11. Steady(board, s)
  BY <1>1, <1>9, SteadyBy DEF Agree
<1>12. LitRight(s)
  BY <1>1, <1>9 DEF LitRight
<1>13. m # drv.mode /\ Linked(board, Now) => Linked(board, s)
  <2>1. drv.valid => drv.mode \in Modes \cup {Startup}
    BY <1>1 DEF Steady, Drv
  <2>2. QED
    BY <1>1, <1>8, <1>9, <2>1 DEF Linked
<1>14. (Colored(Now) => Colored(s)) /\ (Panned(board, Now) => Panned(board, s)) /\ (Placed(Now) => Placed(s))
  BY <1>9 DEF Colored, Panned, Placed
<1>15. Promised(board, s, since') /\ since' \subseteq Things
  BY <1>0, <1>1, <1>9, <1>13, <1>14 DEF Promised, Things
<1>16. Good(board, s, since')
  BY <1>1, <1>9, <1>11, <1>12, <1>15 DEF Good
<1>17. QED
  BY <1>0, <1>9, <1>10, <1>16, Become

LEMMA WithDrv ==
  ASSUME NEW s \in State, NEW d \in Drv
  PROVE  LET t == [s EXCEPT !.drv = d]
         IN t \in State /\ t.drv = d /\ t.hw = s.hw /\ t.clock = s.clock
BY DEF State

LEMMA ClockGood ==
  ASSUME DispInv, NEW settles \in BOOLEAN, RadeonSetClock(settles)
  PROVE  DispInv'
<1> DEFINE c == IF drv.mode = NoMode THEN [fb |-> 0, code |-> 0, hz |-> 0] ELSE clock[drv.mode]
           s == ProgramClock(Now, c, settles)
           i0 == Invalid(Now)
           i == Invalid(s)
           a == ApplyDisplayState(s)
<1>0. /\ drv.phase = "ready" /\ UNCHANGED board
      /\ IF c.fb = 0 THEN Becomes(i0) /\ Since({}, i0)
         ELSE IF settles \/ ClockUnchanged(Now, c)
              THEN Becomes(a) /\ Since({"clock"}, a)
              ELSE Becomes(i) /\ Since({}, i)
  BY DEF RadeonSetClock
<1>1. /\ board \in Boards /\ Steady(board, Now) /\ LitRight(Now) /\ Promised(board, Now, since)
      /\ since \subseteq Things /\ Now \in State /\ Now.drv = drv /\ Now.hw = hw /\ Now.clock = clock
      /\ drv \in Drv /\ hw \in Hw /\ clock \in [Modes \cup {Startup} -> Setting]
  BY <1>0, InReady
<1>2. c \in Setting
  <2>1. CASE drv.mode = NoMode
    BY <2>1 DEF Setting, FeedbackMax
  <2>2. CASE drv.mode # NoMode
    <3>1. drv.mode \in Modes \cup {Startup}
      BY <1>1, <2>2 DEF Drv
    <3>2. QED
      BY <1>1, <2>2, <3>1
  <2>3. QED
    BY <2>1, <2>2
<1> HIDE DEF c
<1>3. /\ s \in State /\ s.clock = Now.clock /\ s.drv = Now.drv
      /\ Agree(s.hw, Now.hw, HwFields \ {"fb", "code", "reset", "vclk"})
      /\ settles \/ ClockUnchanged(Now, c) => s.hw.vclk = "ppll"
      /\ (Now.hw.vclk = "ppll" => ~Now.hw.reset) => (s.hw.vclk = "ppll" => ~s.hw.reset)
  BY <1>1, <1>2, ClockSet
<1> HIDE DEF s
<1>4. Steady(board, s)
  BY <1>1, <1>3 DEF Steady, Agree, HwFields
<1>5. CASE c.fb # 0 /\ (settles \/ ClockUnchanged(Now, c))
  <2>1. Becomes(a) /\ Since({"clock"}, a)
    BY <1>0, <1>5
  <2>2. s.hw.vclk = "ppll"
    BY <1>3, <1>5
  <2>3. CursorPlace(s.drv, FALSE) = CursorPlace(Now.drv, FALSE)
    BY <1>3
  <2>4. /\ Colored(Now) => Colored(s)
        /\ Panned(board, Now) => Panned(board, s)
        /\ Linked(board, Now) => Linked(board, s)
        /\ Placed(Now) => Placed(s)
    BY <1>3, <2>3 DEF Colored, Panned, Linked, Placed, Agree, HwFields
  <2>5. Promised(board, s, since \cup {"clock"})
    BY <1>1, <2>2, <2>4 DEF Promised
  <2>6. Steady(board, a) /\ Promised(board, a, since \cup {"clock"}) /\ LitRight(a) /\ a.drv = s.drv
    BY <1>1, <1>4, <2>5, Applying
  <2> HIDE DEF a
  <2>7. since' = (IF a.drv.valid THEN since \cup {"clock"} ELSE {}) /\ since' \subseteq Things
    BY <1>1, <2>1 DEF Since, Things
  <2>8. ~a.drv.valid => Promised(board, a, {})
    BY DEF Promised, Linked
  <2>9. Promised(board, a, since')
    BY <2>6, <2>7, <2>8
  <2>10. Good(board, a, since') /\ a \in State
    BY <1>1, <2>6, <2>7, <2>9 DEF Good, Steady
  <2>11. QED
    BY <1>0, <2>1, <2>10, Become
<1>6. ASSUME NEW u, Steady(board, u), Becomes(Invalid(u)), Since({}, Invalid(u))
      PROVE  DispInv'
  <2> DEFINE t == Invalid(u)
  <2>1. Steady(board, t) /\ Promised(board, t, {}) /\ LitRight(t) /\ ~t.drv.valid
    BY <1>1, <1>6, Invalidating
  <2>2. since' = {}
    BY <1>6, <2>1 DEF Since
  <2> HIDE DEF t
  <2>3. Good(board, t, since') /\ t \in State
    BY <1>1, <2>1, <2>2 DEF Good, Steady
  <2>4. Becomes(t)
    BY <1>6 DEF t
  <2>5. QED
    BY <1>0, <2>3, <2>4, Become
<1>7. CASE c.fb = 0
  BY <1>0, <1>1, <1>6, <1>7
<1>8. CASE c.fb # 0 /\ ~(settles \/ ClockUnchanged(Now, c))
  BY <1>0, <1>4, <1>6, <1>8
<1>9. QED
  BY <1>5, <1>7, <1>8

LEMMA DisplayGood ==
  ASSUME DispInv, NEW d \in Drv, drv.phase = "ready", UNCHANGED <<board, since>>,
         Agree(d, drv, DrvFields \ {"enabled", "dpms"}),
         Becomes(ApplyDisplayState([Now EXCEPT !.drv = d]))
  PROVE  DispInv'
<1> DEFINE s == [Now EXCEPT !.drv = d]
           a == ApplyDisplayState(s)
<1>1. /\ board \in Boards /\ Steady(board, Now) /\ Promised(board, Now, since)
      /\ since \subseteq Things /\ Now \in State /\ Now.drv = drv
  BY InReady
<1>2. s \in State /\ s.drv = d /\ s.hw = Now.hw /\ s.clock = Now.clock
  BY <1>1, WithDrv
<1> HIDE DEF s
<1>3. Steady(board, s)
  BY <1>1, <1>2, SteadyBy DEF Agree, DrvFields
<1>4. Promised(board, s, since)
  BY <1>1, <1>2, PromisedBy DEF Agree, DrvFields
<1>5. Steady(board, a) /\ Promised(board, a, since) /\ LitRight(a)
  BY <1>1, <1>3, <1>4, Applying
<1>6. Becomes(a)
  BY DEF s
<1> HIDE DEF a
<1>7. Good(board, a, since') /\ a \in State
  BY <1>1, <1>5 DEF Good, Steady
<1>8. QED
  BY <1>6, <1>7, Become

LEMMA SwitchGood ==
  ASSUME DispInv, NEW state \in BOOLEAN, RadeonSetDisplay(state)
  PROVE  DispInv'
<1> DEFINE d == [drv EXCEPT !.enabled = state]
<1>1. drv.phase = "ready" /\ UNCHANGED <<board, since>>
      /\ Becomes(ApplyDisplayState([Now EXCEPT !.drv.enabled = state]))
  BY DEF RadeonSetDisplay
<1>2. drv \in Drv /\ Now.drv = drv /\ Now \in State
  BY <1>1, InReady
<1>3. d \in Drv /\ Agree(d, drv, DrvFields \ {"enabled", "dpms"})
  BY <1>2 DEF Drv, Agree, DrvFields
<1>4. [Now EXCEPT !.drv.enabled = state] = [Now EXCEPT !.drv = d]
  BY <1>2 DEF State
<1> HIDE DEF d
<1>5. QED
  BY <1>1, <1>3, <1>4, DisplayGood

LEMMA DPMSGood ==
  ASSUME DispInv, NEW level \in 0 .. 3, RadeonSetDPMSLevel(level)
  PROVE  DispInv'
<1> DEFINE d == [drv EXCEPT !.dpms = level]
<1>1. drv.phase = "ready" /\ UNCHANGED <<board, since>>
      /\ Becomes(ApplyDisplayState([Now EXCEPT !.drv.dpms = level]))
  BY DEF RadeonSetDPMSLevel
<1>2. drv \in Drv /\ Now.drv = drv /\ Now \in State
  BY <1>1, InReady
<1>3. d \in Drv /\ Agree(d, drv, DrvFields \ {"enabled", "dpms"})
  BY <1>2 DEF Drv, Agree, DrvFields
<1>4. [Now EXCEPT !.drv.dpms = level] = [Now EXCEPT !.drv = d]
  BY <1>2 DEF State
<1> HIDE DEF d
<1>5. QED
  BY <1>1, <1>3, <1>4, DisplayGood

------------------------------------------------------------------------------
(* A call that moves or shows the cursor: u is the state before the cursor  *)
(* is placed.                                                               *)
CursorDrv == {"sprite", "mouse", "shape", "color"}
CursorHw == {"shown", "image", "at"}

LEMMA CursorKept ==
  ASSUME NEW s, NEW t, NEW c, Promised(board, s, c), t.clock = s.clock, Placed(t),
         Agree(t.drv, s.drv, DrvFields \ CursorDrv), Agree(t.hw, s.hw, HwFields \ CursorHw)
  PROVE  Promised(board, t, c \cup {"placed"})
<1>1. (Colored(s) => Colored(t)) /\ (Panned(board, s) => Panned(board, t)) /\ (Linked(board, s) => Linked(board, t))
      /\ t.hw.vclk = s.hw.vclk
  BY DEF Colored, Panned, Linked, Agree, DrvFields, HwFields, CursorDrv, CursorHw
<1>2. QED
  BY <1>1 DEF Promised

LEMMA CursorGood ==
  ASSUME DispInv, drv.phase = "ready", UNCHANGED board, since' = since \cup {"placed"},
         NEW t \in State, Becomes(t), t.clock = clock, Placed(t), Agree(t.drv, drv, DrvFields \ CursorDrv),
         Agree(t.hw, hw, HwFields \ CursorHw), t.hw.shown => t.drv.sprite # {}
  PROVE  DispInv'
<1>1. /\ board \in Boards /\ Steady(board, Now) /\ LitRight(Now) /\ Promised(board, Now, since)
      /\ since \subseteq Things /\ Now \in State /\ Now.drv = drv /\ Now.hw = hw /\ Now.clock = clock
  BY InReady
<1>2. Steady(board, t)
  BY <1>1 DEF Steady, Agree, DrvFields, HwFields, CursorDrv, CursorHw
<1>3. LitRight(t)
  BY <1>1, LitBy DEF Agree, DrvFields, HwFields, CursorDrv, CursorHw
<1>4. Promised(board, t, since')
  BY <1>1, CursorKept
<1>5. since' \subseteq Things
  BY <1>1 DEF Things
<1>6. Good(board, t, since')
  BY <1>1, <1>2, <1>3, <1>4, <1>5 DEF Good
<1>7. QED
  BY <1>6, Become

LEMMA PositionGood ==
  ASSUME DispInv, NEW p \in Mouse, RadeonSetSpritePosition(p)
  PROVE  DispInv'
<1> DEFINE d == [drv EXCEPT !.mouse = p]
           s == [Now EXCEPT !.drv.mouse = p]
           t == UpdateCursorPosition(s)
<1>1. drv.phase = "ready" /\ UNCHANGED board /\ since' = since \cup {"placed"} /\ Becomes(t)
  BY DEF RadeonSetSpritePosition
<1>2. drv \in Drv /\ Now.drv = drv /\ Now \in State /\ Steady(board, Now) /\ Now.hw = hw /\ Now.clock = clock
  BY <1>1, InReady
<1>3. p \in Int \X Int
  BY DisplayAssumption
<1>4. d \in Drv /\ Agree(d, drv, DrvFields \ {"mouse"})
  BY <1>2, <1>3 DEF Drv, Agree, DrvFields
<1>5. s = [Now EXCEPT !.drv = d]
  BY <1>2 DEF State
<1> HIDE DEF d, s
<1>6. s \in State /\ s.drv = d /\ s.hw = hw /\ s.clock = clock
  BY <1>2, <1>4, <1>5, WithDrv
<1>7. t \in State /\ t.drv = s.drv /\ t.clock = s.clock /\ Placed(t) /\ Agree(t.hw, s.hw, HwFields \ {"at"})
  BY <1>6, Pointed
<1> HIDE DEF t
<1>8. Agree(t.drv, drv, DrvFields \ CursorDrv) /\ Agree(t.hw, hw, HwFields \ CursorHw)
  BY <1>4, <1>6, <1>7 DEF Agree, DrvFields, HwFields, CursorDrv, CursorHw
<1>9. t.hw.shown => t.drv.sprite # {}
  BY <1>2, <1>4, <1>6, <1>7 DEF Agree, DrvFields, HwFields, Steady
<1>10. QED
  BY <1>1, <1>6, <1>7, <1>8, <1>9, CursorGood

LEMMA ImageGood ==
  ASSUME DispInv, RadeonSetSpriteImage(1)
  PROVE  DispInv'
<1> DEFINE d == [drv EXCEPT !.shape = 1]
           s == [Now EXCEPT !.drv.shape = 1]
           u == UploadCursor(s)
           t == UpdateCursorPosition(u)
<1>1. drv.phase = "ready" /\ UNCHANGED board /\ since' = since \cup {"placed"} /\ Becomes(t)
  BY DEF RadeonSetSpriteImage
<1>2. drv \in Drv /\ Now.drv = drv /\ Now \in State /\ Steady(board, Now) /\ Now.hw = hw /\ Now.clock = clock
  BY <1>1, InReady
<1>4. d \in Drv /\ Agree(d, drv, DrvFields \ {"shape"})
  BY <1>2 DEF Drv, Agree, DrvFields
<1>5. s = [Now EXCEPT !.drv = d]
  BY <1>2 DEF State
<1> HIDE DEF d, s
<1>6. s \in State /\ s.drv = d /\ s.hw = hw /\ s.clock = clock
  BY <1>2, <1>4, <1>5, WithDrv
<1>11. u \in State /\ u.drv = s.drv /\ u.clock = s.clock /\ Agree(u.hw, s.hw, HwFields \ {"image"})
  BY <1>6, Uploaded
<1> HIDE DEF u
<1>7. t \in State /\ t.drv = u.drv /\ t.clock = u.clock /\ Placed(t) /\ Agree(t.hw, u.hw, HwFields \ {"at"})
  BY <1>11, Pointed
<1> HIDE DEF t
<1>8. Agree(t.drv, drv, DrvFields \ CursorDrv) /\ Agree(t.hw, hw, HwFields \ CursorHw)
  BY <1>4, <1>6, <1>7, <1>11 DEF Agree, DrvFields, HwFields, CursorDrv, CursorHw
<1>9. t.hw.shown => t.drv.sprite # {}
  BY <1>2, <1>4, <1>6, <1>7, <1>11 DEF Agree, DrvFields, HwFields, Steady
<1>10. QED
  BY <1>1, <1>6, <1>7, <1>8, <1>9, <1>11, CursorGood

LEMMA ColorGood ==
  ASSUME DispInv, RadeonSetSpriteColor(1)
  PROVE  DispInv'
<1> DEFINE d == [drv EXCEPT !.color = 1]
           s == [Now EXCEPT !.drv.color = 1]
           t == UploadCursor(s)
<1>1. drv.phase = "ready" /\ UNCHANGED board /\ since' = since /\ Becomes(t)
  BY DEF RadeonSetSpriteColor
<1>2. /\ drv \in Drv /\ Now.drv = drv /\ Now \in State /\ Steady(board, Now) /\ LitRight(Now)
      /\ Promised(board, Now, since) /\ since \subseteq Things /\ board \in Boards
  BY <1>1, InReady
<1>4. d \in Drv /\ Agree(d, drv, DrvFields \ {"color"})
  BY <1>2 DEF Drv, Agree, DrvFields
<1>5. s = [Now EXCEPT !.drv = d]
  BY <1>2 DEF State
<1> HIDE DEF d, s
<1>6. s \in State /\ s.drv = d /\ s.hw = Now.hw /\ s.clock = Now.clock
  BY <1>2, <1>4, <1>5, WithDrv
<1>7. t \in State /\ t.drv = s.drv /\ t.clock = s.clock /\ Agree(t.hw, s.hw, HwFields \ {"image"})
  BY <1>6, Uploaded
<1> HIDE DEF t
<1>8. Steady(board, t)
  BY <1>2, <1>4, <1>6, <1>7, SteadyBy DEF Agree, DrvFields, HwFields
<1>9. LitRight(t)
  BY <1>2, <1>4, <1>6, <1>7, LitBy DEF Agree, DrvFields, HwFields
<1>10. Promised(board, t, since)
  BY <1>2, <1>4, <1>6, <1>7, PromisedBy DEF Agree, DrvFields, HwFields
<1>11. Good(board, t, since')
  BY <1>1, <1>2, <1>8, <1>9, <1>10 DEF Good
<1>12. QED
  BY <1>1, <1>7, <1>11, Become

LEMMA SpriteGood ==
  ASSUME DispInv, NEW active \in BOOLEAN, RadeonSetSprite(active)
  PROVE  DispInv'
<1> DEFINE d == [drv EXCEPT !.sprite = {active}]
           h == [hw EXCEPT !.shown = active]
           s == [Now EXCEPT !.drv.sprite = {active}, !.hw.shown = active]
           t == IF active THEN UpdateCursorPosition(s) ELSE s
<1>1. /\ drv.phase = "ready" /\ UNCHANGED board /\ Becomes(t) /\ drv.sprite # {}
      /\ since' = IF active THEN since \cup {"placed"} ELSE since
  BY DEF RadeonSetSprite
<1>2. /\ drv \in Drv /\ hw \in Hw /\ Now \in State /\ Steady(board, Now) /\ LitRight(Now)
      /\ Now.drv = drv /\ Now.hw = hw /\ Now.clock = clock
      /\ Promised(board, Now, since) /\ since \subseteq Things /\ board \in Boards
  BY <1>1, InReady
<1>3. d \in Drv /\ d.sprite = {active} /\ Agree(d, drv, DrvFields \ {"sprite"})
  BY <1>2 DEF Drv, Agree, DrvFields
<1>4. h \in Hw /\ (h.shown <=> active) /\ Agree(h, hw, HwFields \ {"shown"})
  BY <1>2 DEF Hw, Agree, HwFields
<1>5. s = [Now EXCEPT !.drv = d, !.hw = h]
  BY <1>2 DEF State
<1> HIDE DEF d, h, s
<1>6. s \in State /\ s.drv = d /\ s.hw = h /\ s.clock = clock
  BY <1>2, <1>3, <1>4, <1>5 DEF State
<1>7. CASE active
  <2> DEFINE u == UpdateCursorPosition(s)
  <2>1. u \in State /\ u.drv = s.drv /\ u.clock = s.clock /\ Placed(u) /\ Agree(u.hw, s.hw, HwFields \ {"at"})
    BY <1>6, Pointed
  <2>2. Becomes(u) /\ since' = since \cup {"placed"}
    BY <1>1, <1>7
  <2> HIDE DEF u
  <2>3. Agree(u.drv, drv, DrvFields \ CursorDrv) /\ Agree(u.hw, hw, HwFields \ CursorHw) /\ u.drv.sprite # {}
    BY <1>3, <1>4, <1>6, <2>1 DEF Agree, DrvFields, HwFields, CursorDrv, CursorHw
  <2>4. QED
    BY <1>1, <1>6, <2>1, <2>2, <2>3, CursorGood
<1>8. CASE ~active
  <2>1. Becomes(s) /\ since' = since
    BY <1>1, <1>8
  <2>2. Steady(board, s)
    BY <1>1, <1>2, <1>3, <1>4, <1>6 DEF Steady, Agree, DrvFields, HwFields
  <2>3. LitRight(s)
    BY <1>2, <1>3, <1>4, <1>6, LitBy DEF Agree, DrvFields, HwFields
  <2>4. CursorPlace(s.drv, FALSE) = CursorPlace(drv, FALSE)
    BY <1>3, <1>6, PlaceBy DEF Agree, DrvFields
  <2>5. /\ Colored(Now) => Colored(s)
        /\ Panned(board, Now) => Panned(board, s)
        /\ Linked(board, Now) => Linked(board, s)
        /\ Placed(Now) => Placed(s)
        /\ s.hw.vclk = hw.vclk
    BY <1>1, <1>2, <1>3, <1>4, <1>6, <2>4, ZenonT(60) DEF Colored, Panned, Linked, Placed, Agree, DrvFields, HwFields
  <2>6. Promised(board, s, since)
    BY <1>2, <2>5 DEF Promised
  <2>7. Good(board, s, since')
    BY <1>2, <2>1, <2>2, <2>3, <2>6 DEF Good
  <2>8. QED
    BY <1>1, <1>6, <2>1, <2>7, Become
<1>9. QED
  BY <1>7, <1>8

(* The rows of a mode are read by a pitch in pixels as by one in bytes.     *)
LEMMA ReadScanned ==
  ASSUME NEW h \in Nat, NEW w \in Nat, NEW pitch \in Nat, NEW f \in {1, 2, 4}, NEW offset \in Int,
         NEW limit \in Int, h > 0, offset + (h - 1) * pitch + w * f <= limit
  PROVE  offset + ((h - 1) * (pitch \div f) + w) * f <= limit
<1> DEFINE q == pitch \div f
           r == h - 1
<1>1. q \in Nat /\ q * f <= pitch
  OBVIOUS
<1>2. r \in Nat
  OBVIOUS
<1> HIDE DEF q, r
<1>3. r * (q * f) <= r * pitch
  <2>1. q * f \in Nat
    BY <1>1
  <2> DEFINE x == q * f
  <2>2. x \in Nat /\ x <= pitch
    BY <1>1, <2>1
  <2> HIDE DEF x
  <2>3. r * x <= r * pitch
    BY <1>2, <2>2
  <2>4. QED
    BY <2>3 DEF x
<1>4. (r * q + w) * f = r * (q * f) + w * f
  BY <1>1, <1>2
<1>5. r * (q * f) \in Int /\ w * f \in Int /\ r * pitch \in Int
  BY <1>1, <1>2
<1>6. offset + r * pitch + w * f <= limit
  BY DEF r
<1>7. offset + (r * q + w) * f <= limit
  BY <1>3, <1>4, <1>5, <1>6
<1>8. QED
  BY <1>7 DEF q, r

LEMMA PanningGood ==
  ASSUME DispInv, NEW p \in Pannings, NEW f \in Formats \ {0}, RadeonSetPanning(p, f)
  PROVE  DispInv'
<1> DEFINE t == Timing[drv.mode]
           pitch == Round(p.width * f, 64)
           x == p.x - (p.x % (8 \div f))
           offset == p.memory + p.y * pitch + x * f
           h == [hw EXCEPT !.pitch = pitch \div f, !.start = offset]
           d == [drv EXCEPT !.xOffset = x, !.yOffset = p.y]
           s == [drv |-> d, clock |-> clock, hw |-> h]
<1>1. /\ drv.phase = "ready" /\ UNCHANGED board /\ drv.valid /\ drv.mode # NoMode
      /\ FormatMatchesDepth(f, t.depth) /\ 0 < p.width
      /\ offset % 8 = 0 /\ Scanned(offset, t, pitch, f) <= board.limit
      /\ hw' = h /\ drv' = d /\ since' = (since \cup {"pan"}) \ {"placed"} /\ clock' = clock
  BY DEF RadeonSetPanning
<1>2. /\ drv \in Drv /\ hw \in Hw /\ Now \in State /\ Steady(board, Now) /\ LitRight(Now)
      /\ Now.drv = drv /\ Now.hw = hw /\ Now.clock = clock
      /\ clock \in [Modes \cup {Startup} -> Setting]
      /\ Promised(board, Now, since) /\ since \subseteq Things /\ board \in Boards
  BY <1>1, InReady
<1>3. f \in {1, 2, 4} /\ p \in [memory : Int, width : Int, x : Int, y : Int]
  BY DisplayAssumption
<1>4. drv.mode \in DOMAIN Timing /\ t.h \in Nat /\ t.w \in Nat /\ t.depth \in Nat
  BY <1>1, <1>2, DisplayAssumption, ZenonT(60) DEF Drv
<1>5. t.h > 0
  BY <1>1, <1>2 DEF Steady, ValidateMode
<1>6. pitch \in Nat
  BY <1>1, <1>3 DEF Round, CeilDiv
<1> HIDE DEF pitch
<1>7. x \in Int
  BY <1>3
<1> HIDE DEF x
<1>8. offset \in Int /\ pitch \div f \in Int
  BY <1>3, <1>6, <1>7
<1> HIDE DEF offset, t
<1>9. offset + ((t.h - 1) * (pitch \div f) + t.w) * f <= board.limit
  <2>1. board.limit \in Int
    BY <1>2, DisplayAssumption
  <2>2. offset + (t.h - 1) * pitch + t.w * f <= board.limit
    BY <1>1 DEF Scanned
  <2>3. QED
    BY <1>3, <1>4, <1>5, <1>6, <1>8, <2>1, <2>2, ReadScanned
<1>10. h \in Hw /\ h.pitch = pitch \div f /\ h.start = offset /\ Agree(h, hw, HwFields \ {"pitch", "start"})
  BY <1>2, <1>8 DEF Hw, Agree, HwFields
<1>11. d \in Drv /\ Agree(d, drv, DrvFields \ {"xOffset", "yOffset"})
  BY <1>2, <1>3, <1>7 DEF Drv, Agree, DrvFields
<1> HIDE DEF h, d
<1>12. s \in State /\ s.drv = d /\ s.hw = h /\ s.clock = clock
  BY <1>2, <1>10, <1>11 DEF State
<1>13. Becomes(s)
  BY <1>1 DEF Becomes
<1> HIDE DEF s
<1>14. Steady(board, s)
  BY <1>2, <1>10, <1>11, <1>12, SteadyBy DEF Agree, DrvFields, HwFields
<1>15. LitRight(s)
  BY <1>2, <1>10, <1>11, <1>12, LitBy DEF Agree, DrvFields, HwFields
<1>16. /\ Colored(Now) => Colored(s)
       /\ Linked(board, Now) => Linked(board, s)
       /\ s.hw.vclk = hw.vclk
  BY <1>2, <1>10, <1>11, <1>12 DEF Colored, Linked, Agree, DrvFields, HwFields
<1>17. Panned(board, s)
  <2>1. FormatOfDepth(t.depth) = f
    BY <1>1 DEF FormatMatchesDepth
  <2>2. s.hw.start = offset /\ s.hw.pitch = pitch \div f /\ s.drv.mode = drv.mode
    BY <1>10, <1>11, <1>12 DEF Agree, DrvFields
  <2>3. s.hw.start % 8 = 0
    BY <1>1, <2>2
  <2>4. s.hw.start + Read(t, s.hw.pitch, FormatOfDepth(t.depth)) <= board.limit
    BY <1>9, <2>1, <2>2 DEF Read
  <2>5. QED
    BY <2>2, <2>3, <2>4 DEF Panned, t
<1>18. Promised(board, s, since')
  BY <1>1, <1>2, <1>16, <1>17 DEF Promised
<1>19. since' \subseteq Things
  BY <1>1, <1>2 DEF Things
<1>20. Good(board, s, since')
  BY <1>2, <1>14, <1>15, <1>18, <1>19 DEF Good
<1>21. QED
  BY <1>1, <1>12, <1>13, <1>20, Become

(* Bringing the display up, installing and releasing it.                    *)
LEMMA Failing ==
  ASSUME board \in Boards, NEW s, Steady(board, s)
  PROVE  LET t == StartupFailed(s)
         IN Steady(board, t) /\ LitRight(t) /\ ~t.drv.valid /\ t.drv.sprite = s.drv.sprite
<1> DEFINE d == [s.drv EXCEPT !.enabled = FALSE]
           u == [s EXCEPT !.drv.enabled = FALSE]
           a == ApplyDisplayState(u)
           m == IF a.drv.mode = Startup THEN NoMode ELSE a.drv.mode
           e == [a.drv EXCEPT !.mode = m, !.startup = FALSE, !.valid = FALSE]
           t == [a EXCEPT !.drv.mode = IF @ = Startup THEN NoMode ELSE @,
                          !.drv.startup = FALSE, !.drv.valid = FALSE]
<1>1. s \in State /\ s.drv \in Drv
  BY DEF Steady, State
<1>2. d \in Drv /\ ~d.enabled /\ Agree(d, s.drv, DrvFields \ {"enabled"})
  BY <1>1 DEF Drv, Agree, DrvFields
<1>3. u = [s EXCEPT !.drv = d]
  BY <1>1 DEF State
<1> HIDE DEF d, u
<1>4. u \in State /\ u.drv = d /\ u.hw = s.hw /\ u.clock = s.clock
  BY <1>1, <1>2, <1>3, WithDrv
<1>5. /\ a \in State /\ a.drv = u.drv /\ LitRight(a)
      /\ Agree(a.hw, u.hw, HwFields \ {"off", "fp"}) /\ (a.hw.fp => DviActive(board))
      /\ (u.drv.dpms = 0 /\ Raised(u.drv)) \/ "display" \in a.hw.off
  BY <1>4, Applied DEF Steady
<1> HIDE DEF a
<1>6. "display" \in a.hw.off
  BY <1>2, <1>4, <1>5 DEF Raised
<1>7. a.drv \in Drv
  BY <1>5 DEF State
<1>8. m \in Modes \cup {Startup, NoMode} /\ m # Startup
  BY <1>7 DEF Drv, NoMode, Startup
<1> HIDE DEF m
<1>9. e \in Drv /\ e.mode = m /\ ~e.startup /\ ~e.valid /\ Agree(e, a.drv, DrvFields \ {"mode", "startup", "valid"})
  BY <1>7, <1>8 DEF Drv, Agree, DrvFields
<1>10. t = [a EXCEPT !.drv = e]
  BY <1>5 DEF State, m
<1>11. StartupFailed(s) = t
  BY DEF StartupFailed, a, u
<1> HIDE DEF e, t
<1>12. t \in State /\ t.drv = e /\ t.hw = a.hw
  BY <1>5, <1>9, <1>10, WithDrv
<1>13. Steady(board, t)
  BY <1>2, <1>4, <1>5, <1>8, <1>9, <1>12 DEF Steady, Agree, DrvFields, HwFields
<1>14. LitRight(t)
  BY <1>6, <1>12 DEF LitRight
<1>15. QED
  BY <1>2, <1>4, <1>5, <1>9, <1>11, <1>12, <1>13, <1>14 DEF Agree, DrvFields

LEMMA Homed ==
  ASSUME NEW s \in State, NEW c \in Palette, NEW x \in Int, NEW y \in Int, NEW p \in Int, NEW o \in Int
  PROVE  LET u == [s EXCEPT !.drv.clut = c, !.drv.xOffset = x, !.drv.yOffset = y,
                            !.hw.pitch = p, !.hw.start = o]
         IN /\ u \in State /\ u.clock = s.clock /\ u.hw.pitch = p /\ u.hw.start = o
            /\ Agree(u.drv, s.drv, DrvFields \ {"clut", "xOffset", "yOffset"})
            /\ Agree(u.hw, s.hw, HwFields \ {"pitch", "start"})
<1> DEFINE d == [s.drv EXCEPT !.clut = c, !.xOffset = x, !.yOffset = y]
           h == [s.hw EXCEPT !.pitch = p, !.start = o]
           u == [s EXCEPT !.drv.clut = c, !.drv.xOffset = x, !.drv.yOffset = y,
                          !.hw.pitch = p, !.hw.start = o]
<1>1. s.drv \in Drv /\ s.hw \in Hw
  BY DEF State
<1>2. d \in Drv /\ Agree(d, s.drv, DrvFields \ {"clut", "xOffset", "yOffset"})
  BY <1>1 DEF Drv, Agree, DrvFields
<1>3. h \in Hw /\ h.pitch = p /\ h.start = o /\ Agree(h, s.hw, HwFields \ {"pitch", "start"})
  BY <1>1 DEF Hw, Agree, HwFields
<1>4. u = [s EXCEPT !.drv = d, !.hw = h]
  BY DEF State
<1> HIDE DEF d, h, u
<1>5. u \in State /\ u.drv = d /\ u.hw = h /\ u.clock = s.clock
  BY <1>1, <1>2, <1>3, <1>4 DEF State
<1>6. QED
  BY <1>2, <1>3, <1>5 DEF u

LEMMA ProgrammedRight ==
  ASSUME board \in Boards, NEW s, Steady(board, s)
  PROVE  LET t == StartupProgrammed(s)
         IN /\ Steady(board, t) /\ t.clock = s.clock /\ t.hw.palette = t.drv.clut
            /\ t.hw.pitch = 640 /\ t.hw.start = 0
            /\ Agree(t.drv, s.drv, DrvFields \ {"clut", "xOffset", "yOffset"})
            /\ Agree(t.hw, s.hw, HwFields \ {"palette", "pitch", "start"})
<1> DEFINE z == 0
           n == 640
           c == StartupColors
           u == [s EXCEPT !.drv.clut = c, !.drv.xOffset = z, !.drv.yOffset = z,
                          !.hw.pitch = n, !.hw.start = z]
           t == ProgramPalette(u, 0, PaletteSize, FALSE)
<1>1. s \in State /\ z \in Int /\ n \in Int /\ c \in Palette
  BY Ramps DEF Steady, LinearType
<1>2. StartupProgrammed(s) = t
  BY DEF StartupProgrammed
<1> HIDE DEF z, n, c
<1>3. /\ u \in State /\ u.clock = s.clock /\ u.hw.pitch = n /\ u.hw.start = z
      /\ Agree(u.drv, s.drv, DrvFields \ {"clut", "xOffset", "yOffset"})
      /\ Agree(u.hw, s.hw, HwFields \ {"pitch", "start"})
  BY <1>1, Homed
<1> HIDE DEF u
<1>7. /\ t \in State /\ t.clock = u.clock /\ t.drv = u.drv /\ Agree(t.hw, u.hw, HwFields \ {"palette"})
      /\ t.hw.palette = u.drv.clut
  <2>1. FALSE \in BOOLEAN
    OBVIOUS
  <2>2. QED
    BY <1>3, <2>1, PaintedWhole
<1> HIDE DEF t
<1>8. /\ Agree(t.drv, s.drv, DrvFields \ {"clut", "xOffset", "yOffset"})
      /\ Agree(t.hw, s.hw, HwFields \ {"palette", "pitch", "start"}) /\ t.hw.pitch = n /\ t.hw.start = z
  BY <1>3, <1>7 DEF Agree, DrvFields, HwFields
<1>9. Steady(board, t)
  BY <1>7, <1>8, SteadyBy DEF Agree, DrvFields, HwFields
<1>10. QED
  BY <1>2, <1>3, <1>7, <1>8, <1>9 DEF z, n

(* What the startup screen leaves behind, whether it came up or not.        *)
StartupRight(s) ==
  /\ Steady(board, s) /\ LitRight(s) /\ s.drv.sprite = {}
  /\ s.drv.valid => Colored(s) /\ Panned(board, s) /\ Linked(board, s) /\ s.hw.vclk = "ppll"

LEMMA Screened ==
  ASSUME board \in Boards, NEW s, Steady(board, s), s.drv.sprite = {}, NEW settles \in BOOLEAN, NEW line \in BOOLEAN
  PROVE  StartupRight(StartupScreen(s, settles, line))
<1> DEFINE pll == CalculatePll(board, Timing[Startup].hz, FALSE)
           d0 == [s.drv EXCEPT !.startup = TRUE, !.enabled = FALSE, !.dpms = 0, !.valid = FALSE, !.format = 1]
           s0 == [s EXCEPT !.drv.startup = TRUE, !.drv.enabled = FALSE, !.drv.dpms = 0,
                           !.drv.valid = FALSE, !.drv.format = 1]
           c == CHOOSE x \in pll : TRUE
           s1 == [s0 EXCEPT !.clock[Startup] = c]
           s2 == ProgramTiming(s1, Startup)
           u3 == ConfigureDac(s2, 1)
           s3 == ProgramClock(u3, c, settles)
           s4 == StartupProgrammed(s3)
           d5 == [s4.drv EXCEPT !.enabled = TRUE]
           s5 == [s4 EXCEPT !.drv.enabled = TRUE]
           done == StartupScreen(s, settles, line)
<1>1. s \in State /\ s.drv \in Drv
  BY DEF Steady, State
<1>2. 1 \in Formats \ {0} /\ 0 \in 0 .. 3 /\ 1 \in Int
  BY DisplayAssumption
<1>3. d0 \in Drv /\ d0.startup /\ ~d0.valid /\ d0.format = 1
      /\ Agree(d0, s.drv, DrvFields \ {"startup", "enabled", "dpms", "valid", "format"})
  BY <1>1, <1>2 DEF Drv, Agree, DrvFields
<1>4. s0 = [s EXCEPT !.drv = d0]
  BY <1>1 DEF State
<1>5. done = IF pll = {} THEN StartupFailed(s0)
             ELSE IF ~s2.drv.valid THEN StartupFailed(s2)
             ELSE IF ~(settles \/ ClockUnchanged(s2, c)) THEN StartupFailed(s3)
             ELSE IF ~line THEN StartupFailed(s4)
             ELSE ApplyDisplayState(s5)
  BY DEF StartupScreen
<1> HIDE DEF d0, s0
<1>6. s0 \in State /\ s0.drv = d0 /\ s0.hw = s.hw /\ s0.clock = s.clock
  BY <1>1, <1>3, <1>4, WithDrv
<1>7. Steady(board, s0) /\ s0.drv.sprite = {}
  BY <1>3, <1>6 DEF Steady, Agree, DrvFields
<1>8. ASSUME NEW u, Steady(board, u), u.drv.sprite = {} PROVE StartupRight(StartupFailed(u))
  <2> DEFINE t == StartupFailed(u)
  <2>1. Steady(board, t) /\ LitRight(t) /\ ~t.drv.valid /\ t.drv.sprite = u.drv.sprite
    BY <1>8, Failing
  <2> HIDE DEF t
  <2>2. StartupRight(t)
    BY <1>8, <2>1 DEF StartupRight
  <2>3. QED
    BY <2>2 DEF t
<1> HIDE DEF done, s2, s3, s4, s5
<1>9. CASE pll = {}
  BY <1>5, <1>7, <1>8, <1>9 DEF done
<1>10. CASE pll # {}
  <2>1. c \in pll
    BY <1>10
  <2>2. Timing[Startup].hz \in Int
    BY DisplayAssumption
  <2>3. c \in Setting
    <3>1. FALSE \in BOOLEAN
      OBVIOUS
    <3>2. QED
      BY <2>1, <2>2, <3>1, Settings
  <2> HIDE DEF pll, c
  <2>4. s1 \in State /\ s1.drv = s0.drv /\ s1.hw = s0.hw
    <3> DEFINE k == [s0.clock EXCEPT ![Startup] = c]
    <3>1. s0.clock \in [Modes \cup {Startup} -> Setting]
      BY <1>6 DEF State
    <3>2. k \in [Modes \cup {Startup} -> Setting]
      BY <2>3, <3>1
    <3>3. s1 = [s0 EXCEPT !.clock = k]
      BY <1>6 DEF State
    <3> HIDE DEF k, s1
    <3>4. QED
      BY <1>6, <3>2, <3>3 DEF State
  <2> HIDE DEF s1
  <2>5. Steady(board, s1)
    BY <1>7, <2>4, SteadyBy DEF Agree
  <2>6. /\ Steady(board, s2) /\ Linked(board, s2)
        /\ Agree(s2.drv, s1.drv, DrvFields \ {"valid", "timingReady", "formatReady", "mode"})
        /\ s2.drv.valid => s2.drv.mode = Startup
    <3>1. s1.drv.startup
      BY <1>3, <1>6, <2>4
    <3>2. QED
      BY <2>5, <3>1, Timed DEF s2
  <2>7. s2.drv.sprite = {} /\ s2.drv.format = 1 /\ s2 \in State
    BY <1>3, <1>6, <1>7, <2>4, <2>6 DEF Agree, DrvFields, Steady
  <2>8. /\ u3 \in State /\ u3.clock = s2.clock
        /\ Agree(u3.drv, s2.drv, DrvFields \ {"formatReady"})
        /\ Agree(u3.hw, s2.hw, HwFields \ {"width"}) /\ u3.hw.width = 1
    BY <1>2, <2>7, Formatted
  <2> HIDE DEF u3
  <2>9. Steady(board, u3)
    BY <2>6, <2>8, SteadyBy DEF Agree, DrvFields, HwFields
  <2>10. /\ s3 \in State /\ s3.clock = u3.clock /\ s3.drv = u3.drv
         /\ Agree(s3.hw, u3.hw, HwFields \ {"fb", "code", "reset", "vclk"})
         /\ settles \/ ClockUnchanged(u3, c) => s3.hw.vclk = "ppll"
         /\ (u3.hw.vclk = "ppll" => ~u3.hw.reset) => (s3.hw.vclk = "ppll" => ~s3.hw.reset)
    BY <2>3, <2>8, ClockSet DEF s3
  <2>11. Steady(board, s3)
    BY <2>9, <2>10 DEF Steady, Agree, HwFields
  <2>12. ClockUnchanged(u3, c) <=> ClockUnchanged(s2, c)
    BY <2>8 DEF ClockUnchanged, Agree, HwFields
  <2>13. /\ Steady(board, s4) /\ s4.clock = s3.clock /\ s4.hw.palette = s4.drv.clut
         /\ s4.hw.pitch = 640 /\ s4.hw.start = 0
         /\ Agree(s4.drv, s3.drv, DrvFields \ {"clut", "xOffset", "yOffset"})
         /\ Agree(s4.hw, s3.hw, HwFields \ {"palette", "pitch", "start"})
    BY <2>11, ProgrammedRight, ZenonT(60) DEF s4
  <2>14. s3.drv.sprite = {} /\ s4.drv.sprite = {} /\ s4.drv.format = 1
         /\ s4.drv.valid = s2.drv.valid /\ s4.drv.mode = s2.drv.mode
    BY <2>7, <2>8, <2>10, <2>13 DEF Agree, DrvFields
  <2>15. s4.hw.width = 1 /\ s4.hw.tmds = s2.hw.tmds /\ s4.hw.vclk = s3.hw.vclk /\ s4.clock = s2.clock
    BY <2>8, <2>10, <2>13 DEF Agree, HwFields
  <2>16. CASE ~s2.drv.valid
    BY <1>5, <1>8, <1>10, <2>6, <2>7, <2>16 DEF done, pll
  <2>17. CASE s2.drv.valid /\ ~(settles \/ ClockUnchanged(s2, c))
    BY <1>5, <1>8, <1>10, <2>11, <2>14, <2>17 DEF done, pll, c
  <2>18. CASE s2.drv.valid /\ (settles \/ ClockUnchanged(s2, c)) /\ ~line
    <3>1. done = StartupFailed(s4)
      BY <1>5, <1>10, <2>18 DEF pll, c
    <3>2. QED
      BY <1>8, <2>13, <2>14, <3>1 DEF done
  <2>19. CASE s2.drv.valid /\ (settles \/ ClockUnchanged(s2, c)) /\ line
    <3>1. done = ApplyDisplayState(s5)
      BY <1>5, <1>10, <2>19 DEF pll, c
    <3>2. s4 \in State /\ s4.drv \in Drv
      BY <2>13 DEF Steady, State
    <3>3. d5 \in Drv /\ Agree(d5, s4.drv, DrvFields \ {"enabled"})
      BY <3>2 DEF Drv, Agree, DrvFields
    <3>4. s5 = [s4 EXCEPT !.drv = d5]
      BY <3>2 DEF State, s5
    <3> HIDE DEF d5
    <3>5. s5 \in State /\ s5.drv = d5 /\ s5.hw = s4.hw /\ s5.clock = s4.clock
      BY <3>2, <3>3, <3>4, WithDrv
    <3>6. Steady(board, s5)
      BY <2>13, <3>3, <3>5, SteadyBy DEF Agree, DrvFields
    <3>7. /\ s5.drv.sprite = {} /\ s5.drv.format = 1 /\ s5.drv.mode = Startup /\ s5.drv.valid
          /\ s5.drv.clut = s4.drv.clut
      BY <2>6, <2>14, <2>19, <3>3, <3>5 DEF Agree, DrvFields
    <3>8. Colored(s5)
      BY <2>13, <2>15, <3>5, <3>7 DEF Colored
    <3>9. Linked(board, s5)
      BY <2>6, <2>14, <2>15, <2>19, <3>5, <3>7 DEF Linked
    <3>10. Panned(board, s5)
      <4>1. FormatOfDepth(Timing[Startup].depth) = 1
        BY DisplayAssumption DEF FormatOfDepth
      <4>2. (Timing[Startup].h - 1) * 640 + Timing[Startup].w <= board.limit
            /\ Timing[Startup].h \in Nat /\ Timing[Startup].w \in Nat
        BY DisplayAssumption
      <4>3. Read(Timing[Startup], 640, 1) = (Timing[Startup].h - 1) * 640 + Timing[Startup].w
        BY <4>2 DEF Read
      <4>4. s5.hw.start = 0 /\ s5.hw.pitch = 640
        BY <2>13, <3>5
      <4>5. 0 + Read(Timing[Startup], 640, 1) <= board.limit
        BY <4>2, <4>3
      <4>6. QED
        BY <3>7, <4>1, <4>4, <4>5 DEF Panned
    <3>11. s5.hw.vclk = "ppll"
      BY <2>10, <2>12, <2>15, <2>19, <3>5
    <3>12. Promised(board, s5, {"dac", "pan", "clock"})
      BY <3>8, <3>9, <3>10, <3>11 DEF Promised
    <3>13. Steady(board, done) /\ Promised(board, done, {"dac", "pan", "clock"}) /\ LitRight(done) /\ done.drv = s5.drv
      BY <3>1, <3>6, <3>12, Applying
    <3>14. QED
      BY <3>7, <3>13 DEF StartupRight, Promised, done
  <2>20. QED
    BY <2>16, <2>17, <2>18, <2>19
<1>11. QED
  BY <1>9, <1>10

LEMMA Invariant ==
  ASSUME DispInv
  PROVE  /\ board \in Boards /\ Steady(board, Now) /\ (drv.phase # "found" => LitRight(Now))
         /\ Promised(board, Now, since) /\ since \subseteq Things /\ Now \in State
         /\ Now.drv = drv /\ Now.clock = clock /\ Now.hw = hw /\ drv \in Drv /\ hw \in Hw
<1>1. Now.drv = drv /\ Now.clock = clock /\ Now.hw = hw
  BY DEF Now
<1>2. QED
  BY <1>1 DEF DispInv, Good, Steady, State

LEMMA StartupGood ==
  ASSUME DispInv, NEW settles \in BOOLEAN, NEW line \in BOOLEAN, RadeonShowStartupScreen(settles, line)
  PROVE  DispInv'
<1> DEFINE done == StartupScreen(Now, settles, line)
           ph == IF done.drv.valid THEN "up" ELSE "failed"
           d == [done.drv EXCEPT !.phase = ph]
           t == [done EXCEPT !.drv.phase = ph]
<1>1. /\ drv.phase \in {"found", "released"} /\ Becomes(t)
      /\ since' = IF done.drv.valid THEN {"dac", "clock", "pan"} ELSE {}
      /\ UNCHANGED board
  BY DEF RadeonShowStartupScreen
<1>2. board \in Boards /\ Steady(board, Now) /\ Now.drv.sprite = {}
  BY <1>1, Invariant DEF Steady
<1>3. StartupRight(done)
  BY <1>2, Screened
<1> HIDE DEF done
<1>4. Steady(board, done) /\ LitRight(done) /\ done.drv.sprite = {} /\ done \in State /\ done.drv \in Drv
  BY <1>3 DEF StartupRight, Steady, State
<1>5. ph \in Phases
  BY DEF Phases
<1> HIDE DEF ph
<1>6. d \in Drv /\ Agree(d, done.drv, DrvFields \ {"phase"})
  BY <1>4, <1>5 DEF Drv, Agree, DrvFields
<1>7. t = [done EXCEPT !.drv = d]
  BY <1>4 DEF State
<1> HIDE DEF d, t
<1>8. t \in State /\ t.drv = d /\ t.hw = done.hw /\ t.clock = done.clock
  BY <1>4, <1>6, <1>7, WithDrv
<1>9. Steady(board, t)
  BY <1>4, <1>6, <1>8 DEF Steady, Agree, DrvFields
<1>10. LitRight(t)
  BY <1>4, <1>6, <1>8, LitBy DEF Agree, DrvFields
<1>11. Promised(board, done, since')
  BY <1>1, <1>3 DEF StartupRight, Promised, Linked
<1>12. Promised(board, t, since')
  BY <1>6, <1>8, <1>11, PromisedBy DEF Agree, DrvFields
<1>13. since' \subseteq Things
  BY <1>1 DEF Things
<1>14. Good(board, t, since')
  BY <1>2, <1>9, <1>10, <1>12, <1>13 DEF Good
<1>15. QED
  BY <1>1, <1>8, <1>14, Become

LEMMA InstallGood ==
  ASSUME DispInv, NEW sprite \in BOOLEAN, RadeonInstallCallbacks(sprite)
  PROVE  DispInv'
<1> DEFINE d0 == [drv EXCEPT !.phase = "ready"]
           s0 == [Now EXCEPT !.drv.phase = "ready"]
           d1 == [d0 EXCEPT !.sprite = {FALSE}]
           u1 == [s0 EXCEPT !.drv.sprite = {FALSE}]
           u2 == UploadCursor(u1)
           u3 == UpdateCursorPosition(u2)
           h4 == [u3.hw EXCEPT !.shown = FALSE]
           u4 == [u3 EXCEPT !.hw.shown = FALSE]
           s1 == IF sprite THEN u4 ELSE s0
           d5 == [s1.drv EXCEPT !.enabled = TRUE, !.dpms = 0]
           s5 == [s1 EXCEPT !.drv.enabled = TRUE, !.drv.dpms = 0]
           t == IF drv.valid THEN s1 ELSE s5
<1>1. /\ drv.phase = "up" /\ Becomes(t) /\ since' = since \cup {"placed"} /\ UNCHANGED board
  BY DEF RadeonInstallCallbacks
<1>2. /\ board \in Boards /\ Steady(board, Now) /\ LitRight(Now) /\ Promised(board, Now, since)
      /\ since \subseteq Things /\ Now \in State /\ Now.drv = drv /\ Now.clock = clock /\ Now.hw = hw
      /\ drv \in Drv /\ hw \in Hw /\ drv.sprite = {} /\ ~hw.shown
  <2>1. Now.drv = drv /\ drv.phase # "found" /\ drv.phase # "ready"
    BY <1>1, Invariant
  <2>2. QED
    BY <2>1, Invariant DEF Steady
<1>3. d0 \in Drv /\ Agree(d0, drv, DrvFields \ {"phase"})
  BY <1>2 DEF Drv, Agree, DrvFields, Phases
<1>4. s0 = [Now EXCEPT !.drv = d0]
  BY <1>2 DEF State
<1> HIDE DEF d0, s0
<1>5. s0 \in State /\ s0.drv = d0 /\ s0.hw = hw /\ s0.clock = clock
  BY <1>2, <1>3, <1>4, WithDrv
<1>6. d1 \in Drv /\ Agree(d1, d0, DrvFields \ {"sprite"})
  BY <1>3 DEF Drv, Agree, DrvFields
<1>7. u1 = [s0 EXCEPT !.drv = d1]
  BY <1>5 DEF State
<1> HIDE DEF d1, u1
<1>8. u1 \in State /\ u1.drv = d1 /\ u1.hw = hw /\ u1.clock = clock
  BY <1>5, <1>6, <1>7, WithDrv
<1>9. u2 \in State /\ u2.drv = u1.drv /\ u2.clock = u1.clock /\ Agree(u2.hw, u1.hw, HwFields \ {"image"})
  BY <1>8, Uploaded
<1> HIDE DEF u2
<1>10. u3 \in State /\ u3.drv = u2.drv /\ u3.clock = u2.clock /\ Placed(u3) /\ Agree(u3.hw, u2.hw, HwFields \ {"at"})
  BY <1>9, Pointed
<1> HIDE DEF u3
<1>11. u3.hw \in Hw
  BY <1>10 DEF State
<1>12. h4 \in Hw /\ ~h4.shown /\ Agree(h4, u3.hw, HwFields \ {"shown"})
  BY <1>11 DEF Hw, Agree, HwFields
<1>13. u4 = [u3 EXCEPT !.hw = h4]
  BY <1>10 DEF State
<1> HIDE DEF h4, u4
<1>14. u4 \in State /\ u4.drv = u3.drv /\ u4.hw = h4 /\ u4.clock = u3.clock
  BY <1>10, <1>12, <1>13 DEF State
<1>15. Placed(u4)
  BY <1>10, <1>12, <1>14 DEF Placed, Agree, HwFields
<1>16. Agree(u4.hw, hw, HwFields \ {"image", "at", "shown"}) /\ ~u4.hw.shown
  BY <1>8, <1>9, <1>10, <1>12, <1>14 DEF Agree, HwFields
<1>17. Agree(u4.drv, drv, DrvFields \ {"phase", "sprite"}) /\ u4.clock = clock
  BY <1>3, <1>6, <1>8, <1>9, <1>10, <1>14 DEF Agree, DrvFields
<1>18. Placed(s0)
  BY <1>2, <1>3, <1>5 DEF Placed, Agree, DrvFields
<1>19. /\ s1 \in State /\ Placed(s1) /\ s1.clock = clock /\ Agree(s1.drv, drv, DrvFields \ {"phase", "sprite"})
       /\ Agree(s1.hw, hw, HwFields \ {"image", "at", "shown"}) /\ ~s1.hw.shown /\ s1.drv.phase = "ready"
  <2>1. s0.drv.phase = "ready" /\ u4.drv.phase = "ready"
    <3>1. d0.phase = "ready"
      BY <1>2 DEF d0, Drv
    <3>2. QED
      BY <1>5, <1>6, <1>8, <1>9, <1>10, <1>14, <3>1 DEF Agree, DrvFields
  <2>2. CASE sprite
    BY <1>14, <1>15, <1>16, <1>17, <2>1, <2>2
  <2>3. CASE ~sprite
    BY <1>2, <1>3, <1>5, <1>18, <2>1, <2>3 DEF Agree, DrvFields
  <2>4. QED
    BY <2>2, <2>3
<1> HIDE DEF s1
<1>20. Steady(board, s1)
  BY <1>2, <1>19 DEF Steady, Agree, DrvFields, HwFields
<1>21. LitRight(s1)
  BY <1>2, <1>19, LitBy DEF Agree, DrvFields, HwFields
<1>22. Promised(board, s1, since')
  <2>1. /\ Colored(Now) => Colored(s1)
        /\ Panned(board, Now) => Panned(board, s1)
        /\ Linked(board, Now) => Linked(board, s1)
        /\ s1.hw.vclk = hw.vclk
    BY <1>2, <1>19 DEF Colored, Panned, Linked, Agree, DrvFields, HwFields
  <2>2. QED
    BY <1>1, <1>2, <1>19, <2>1 DEF Promised
<1>23. since' \subseteq Things
  BY <1>1, <1>2 DEF Things
<1>24. CASE drv.valid
  <2>1. Good(board, s1, since')
    BY <1>2, <1>20, <1>21, <1>22, <1>23 DEF Good
  <2>2. Becomes(s1)
    BY <1>1, <1>24
  <2>3. QED
    BY <1>1, <1>19, <2>1, <2>2, Become
<1>25. CASE ~drv.valid
  <2>0. TRUE \in BOOLEAN /\ 0 \in 0 .. 3
    OBVIOUS
  <2>1. s1.drv \in Drv
    BY <1>19 DEF State
  <2>2. d5 \in Drv /\ Agree(d5, s1.drv, DrvFields \ {"enabled", "dpms"})
    BY <2>0, <2>1 DEF Drv, Agree, DrvFields
  <2>3. s5 = [s1 EXCEPT !.drv = d5]
    BY <1>19 DEF State
  <2> HIDE DEF d5, s5
  <2>4. s5 \in State /\ s5.drv = d5 /\ s5.hw = s1.hw /\ s5.clock = s1.clock
    BY <1>19, <2>2, <2>3, WithDrv
  <2>5. Steady(board, s5)
    BY <1>20, <2>2, <2>4, SteadyBy DEF Agree, DrvFields
  <2>6. "display" \in s5.hw.off
    BY <1>2, <1>19, <1>25, <2>4 DEF LitRight, Agree, HwFields
  <2>7. LitRight(s5)
    BY <2>6 DEF LitRight
  <2>8. Promised(board, s5, since')
    BY <1>22, <2>2, <2>4, PromisedBy DEF Agree, DrvFields
  <2>9. Good(board, s5, since')
    BY <1>2, <1>23, <2>5, <2>7, <2>8 DEF Good
  <2>10. Becomes(s5)
    BY <1>1, <1>25
  <2>11. QED
    BY <1>1, <2>4, <2>9, <2>10, Become
<1>26. QED
  BY <1>24, <1>25

LEMMA ReleaseGood ==
  ASSUME DispInv, ReleaseDisplay
  PROVE  DispInv'
<1> DEFINE m == IF drv.startup /\ drv.mode = Startup THEN NoMode ELSE drv.mode
           shown == drv.sprite = {} /\ hw.shown
           d == [drv EXCEPT !.startup = FALSE, !.valid = FALSE, !.enabled = FALSE, !.dpms = 0,
                            !.timingReady = FALSE, !.formatReady = FALSE, !.sprite = {},
                            !.mode = m, !.phase = "released"]
           h == [hw EXCEPT !.off = {"display", "h", "v"}, !.shown = shown]
           t == FinishBoardRelease(Now)
<1>1. Becomes(t) /\ since' = {} /\ UNCHANGED board
  BY DEF ReleaseDisplay
<1>2. /\ board \in Boards /\ Steady(board, Now)
      /\ Now \in State /\ Now.drv = drv /\ Now.clock = clock /\ Now.hw = hw
      /\ drv \in Drv /\ hw \in Hw
  BY Invariant
<1>3. m \in Modes \cup {Startup, NoMode} /\ m # Startup
  BY <1>2 DEF Drv, NoMode, Startup, Steady
<1>4. shown \in BOOLEAN /\ ~shown
  BY <1>2 DEF Hw, Steady
<1>0. 0 \in 0 .. 3 /\ FALSE \in BOOLEAN /\ "released" \in Phases
  BY DEF Phases
<1>13. t = Released(Now, m, shown)
  BY <1>2 DEF FinishBoardRelease
<1> HIDE DEF m, shown, t
<1>5. t = [Now EXCEPT !.drv = d, !.hw = h]
  BY <1>2, <1>13 DEF State, Released
<1>6. d \in Drv /\ ~d.valid /\ d.sprite = {} /\ d.mode = m
  BY <1>0, <1>2, <1>3, ZenonT(60) DEF Drv
<1>7. h \in Hw /\ h.off = {"display", "h", "v"} /\ (h.shown <=> shown) /\ Agree(h, hw, HwFields \ {"off", "shown"})
  BY <1>2, <1>4, ZenonT(60) DEF Hw, Agree, HwFields
<1> HIDE DEF d, h, t
<1>8. t \in State /\ t.drv = d /\ t.hw = h
  BY <1>2, <1>5, <1>6, <1>7 DEF State
<1>9. Steady(board, t)
  BY <1>2, <1>3, <1>4, <1>6, <1>7, <1>8 DEF Steady, Agree, HwFields
<1>10. LitRight(t) /\ Promised(board, t, {})
  BY <1>6, <1>7, <1>8 DEF LitRight, Promised, Linked
<1>11. Good(board, t, since')
  BY <1>1, <1>2, <1>9, <1>10 DEF Good
<1>12. QED
  BY <1>1, <1>8, <1>11, Become

LEMMA DisplayInitInv == DisplayInit => DispInv
<1> SUFFICES ASSUME DisplayInit PROVE DispInv
  OBVIOUS
<1>0. Now.drv = drv /\ Now.clock = clock /\ Now.hw = hw
  BY DEF Now
<1>1. drv \in Drv
  <2>1. 0 \in Int /\ 0 \in 0 .. 3 /\ 1 \in Formats \ {0} /\ <<0, 0>> \in Int \X Int /\ "found" \in Phases
    BY DisplayAssumption DEF Phases
  <2>2. StartupColors \in Palette /\ FALSE \in BOOLEAN
    BY Ramps DEF LinearType
  <2>3. QED
    BY <2>1, <2>2 DEF DisplayInit, Drv
<1>2. clock \in [Modes \cup {Startup} -> Setting]
  <2>1. ASSUME NEW m \in Modes \cup {Startup} PROVE [fb |-> 0, code |-> 0, hz |-> Timing[m].hz] \in Setting
    <3>1. Timing[m].hz \in Nat
      BY DisplayAssumption
    <3>2. 0 \in 0 .. FeedbackMax /\ 0 \in Int
      BY DEF FeedbackMax
    <3>3. QED
      BY <3>1, <3>2 DEF Setting
  <2>2. QED
    BY <2>1 DEF DisplayInit
<1>3. hw \in Hw
  <2>1. 0 \in Int /\ 1 \in Int /\ Linear \in Palette /\ FALSE \in BOOLEAN
    BY Ramps DEF LinearType
  <2>2. 0 \in TmdsValues /\ <<>> \in Rasters /\ <<>> \in Images
    BY DEF TmdsValues, Rasters, Images
  <2>3. [x |-> 0, y |-> 0, ox |-> 0, oy |-> 0, row |-> 0] \in Place
    BY <2>1 DEF Place
  <2>4. QED
    BY <2>1, <2>2, <2>3 DEF DisplayInit, Hw
<1>4. Now \in State
  BY <1>1, <1>2, <1>3 DEF Now, State
<1>5. /\ drv.phase = "found" /\ ~drv.valid /\ drv.mode = NoMode /\ drv.sprite = {} /\ ~hw.fp
      /\ hw.vclk = "cpu" /\ ~hw.shown /\ board \in Boards /\ since = {}
  BY DEF DisplayInit
<1>6. Steady(board, Now)
  BY <1>0, <1>4, <1>5 DEF Steady, NoMode, Startup
<1>7. Promised(board, Now, since)
  BY <1>0, <1>5 DEF Promised, Linked
<1>8. QED
  BY <1>0, <1>5, <1>6, <1>7 DEF DispInv, Good

LEMMA DisplayStep == DispInv /\ [DisplayNext]_dispvars => DispInv'
<1> SUFFICES ASSUME DispInv, [DisplayNext]_dispvars PROVE DispInv'
  OBVIOUS
<1>1. CASE DisplayNext
  <2>1. DisplayCall
    BY <1>1 DEF DisplayNext
  <2>2. CASE \E settles, line \in BOOLEAN : RadeonShowStartupScreen(settles, line)
    BY <2>2, StartupGood
  <2>3. CASE \E sprite \in BOOLEAN : RadeonInstallCallbacks(sprite)
    BY <2>3, InstallGood
  <2>4. CASE \E m \in Modes : RadeonSetGC(m)
    BY <2>4, GCGood
  <2>5. CASE \E f \in Formats : RadeonSetDAC(f)
    BY <2>5, DACGood
  <2>6. CASE \E start \in 0..(PaletteSize - 1), color \in Colors : \E count \in 1..(PaletteSize - start) :
               RadeonSetColorArray(start, count, color)
    BY <2>6, ColorsGood
  <2>7. CASE \E m \in Modes, f \in Formats, hz \in Clocks : RadeonResolvePixelClock(m, f, hz)
    BY <2>7, ResolveGood
  <2>8. CASE \E settles \in BOOLEAN : RadeonSetClock(settles)
    BY <2>8, ClockGood
  <2>9. CASE \E p \in Pannings, f \in Formats \ {0} : RadeonSetPanning(p, f)
    BY <2>9, PanningGood
  <2>10. CASE \E state \in BOOLEAN : RadeonSetDisplay(state)
    BY <2>10, SwitchGood
  <2>11. CASE \E level \in 0..3 : RadeonSetDPMSLevel(level)
    BY <2>11, DPMSGood
  <2>12. CASE \E active \in BOOLEAN : RadeonSetSprite(active)
    BY <2>12, SpriteGood
  <2>13. CASE \E p \in Mouse : RadeonSetSpritePosition(p)
    BY <2>13, PositionGood
  <2>14. CASE RadeonSetSpriteImage(1)
    BY <2>14, ImageGood
  <2>15. CASE RadeonSetSpriteColor(1)
    BY <2>15, ColorGood
  <2>16. CASE ReleaseDisplay
    BY <2>16, ReleaseGood
  <2>17. QED
    BY <2>1, <2>2, <2>3, <2>4, <2>5, <2>6, <2>7, <2>8, <2>9, <2>10, <2>11, <2>12, <2>13, <2>14, <2>15, <2>16
       DEF DisplayCall
<1>2. CASE UNCHANGED dispvars
  BY <1>2 DEF DispInv, Now, dispvars
<1>3. QED
  BY <1>1, <1>2

LEMMA DisplayTyped == DispInv => DisplayTypeOK
<1> SUFFICES ASSUME DispInv PROVE DisplayTypeOK
  OBVIOUS
<1>1. drv \in Drv /\ hw \in Hw /\ clock \in [Modes \cup {Startup} -> Setting] /\ board \in Boards /\ since \subseteq Things
  BY Invariant DEF State
<1>2. /\ drv.phase \in {"found", "up", "ready", "failed", "released"}
      /\ drv.mode \in Modes \cup {Startup, NoMode} /\ drv.dpms \in 0..3
      /\ drv.format \in Formats \ {0} /\ drv.sprite \in SUBSET BOOLEAN
      /\ drv.startup \in BOOLEAN /\ drv.valid \in BOOLEAN /\ drv.enabled \in BOOLEAN
      /\ drv.timingReady \in BOOLEAN /\ drv.formatReady \in BOOLEAN
  BY <1>1 DEF Drv, Phases
<1>3. /\ hw.fp \in BOOLEAN /\ hw.reset \in BOOLEAN /\ hw.shown \in BOOLEAN
      /\ hw.off \subseteq {"display", "h", "v"} /\ hw.vclk \in {"cpu", "ppll"}
      /\ hw.palette \in Palette
  BY <1>1 DEF Hw
<1>4. \A m \in DOMAIN clock : clock[m].fb \in 0..FeedbackMax /\ clock[m].hz \in Nat
  BY <1>1 DEF Setting
<1>5. {drv.startup, drv.valid, drv.enabled, drv.timingReady, drv.formatReady, hw.fp, hw.reset,
       hw.shown} \subseteq BOOLEAN
  BY <1>2, <1>3
<1>6. QED
  BY <1>1, <1>2, <1>3, <1>4, <1>5 DEF DisplayTypeOK, Palette, Indices, Things

(* What the runs check follows from the invariant.                          *)
LEMMA LitNow ==
  ASSUME DispInv, drv.phase # "found", Lit
  PROVE  /\ drv.valid /\ drv.enabled /\ drv.dpms = 0 /\ hw.off = {} /\ drv.mode # NoMode
         /\ drv.mode \in DOMAIN Timing
         /\ hw.raster = Raster(Timing[drv.mode]) /\ ValidateMode(Timing[drv.mode])
         /\ hw.fp => DviActive(board) /\ drv.timingReady /\ drv.formatReady
<1>1. /\ LitRight(Now) /\ Steady(board, Now) /\ Now.drv = drv /\ Now.hw = hw /\ drv \in Drv
  BY Invariant
<1>2. drv.mode \in Modes \cup {Startup, NoMode}
  BY <1>1 DEF Drv
<1>3. QED
  BY <1>1, <1>2, DisplayAssumption DEF Lit, LitRight, Steady

LEMMA PictureHeld == DispInv => PictureIsValid
BY LitNow DEF PictureIsValid

LEMMA PaletteHeld == DispInv => PaletteFitsFormat
BY Invariant DEF PaletteFitsFormat, Promised, Colored

LEMMA ScanoutHeld == DispInv => ScanoutInside
<1> DEFINE t == Timing[drv.mode]
           rows == IF hw.raster.doublescan THEN hw.raster.vd \div 2 ELSE hw.raster.vd
           goal == hw.start % 8 = 0 /\ hw.start + ((rows - 1) * hw.pitch + hw.raster.hd) * hw.width <= board.limit
<1> SUFFICES ASSUME DispInv, drv.phase = "ready", Lit, {"dac", "pan"} \subseteq since,
                    FormatMatchesDepth(drv.format, t.depth)
             PROVE  goal
  BY DEF ScanoutInside
<1>1. /\ drv.valid /\ drv.mode \in DOMAIN Timing /\ hw.raster = Raster(t)
  BY LitNow
<1>2. t.h \in Nat /\ t.w \in Nat /\ t.doublescan \in BOOLEAN
  BY <1>1, DisplayAssumption, ZenonT(60)
<1>3. rows = t.h /\ hw.raster.hd = t.w
  BY <1>1, <1>2 DEF Raster
<1>4. Colored(Now) /\ Panned(board, Now) /\ Now.drv = drv /\ Now.hw = hw
  BY Invariant DEF Promised
<1>5. hw.width = FormatOfDepth(t.depth)
  BY <1>4 DEF Colored, FormatMatchesDepth
<1>6. hw.start % 8 = 0 /\ hw.start + Read(t, hw.pitch, FormatOfDepth(t.depth)) <= board.limit
  BY <1>1, <1>4 DEF Panned
<1> HIDE DEF rows, t
<1>7. goal
  BY <1>3, <1>5, <1>6 DEF Read
<1>8. QED
  BY <1>7

LEMMA RegistersHeld == DispInv => RegistersFit
<1> SUFFICES ASSUME DispInv, hw.raster # <<>>
             PROVE  /\ hw.raster.vt <= 2048 /\ hw.raster.ve <= hw.raster.vt
                    /\ hw.raster.ve - hw.raster.vs <= 31 /\ hw.raster.he <= hw.raster.ht
  BY DEF RegistersFit
<1>1. hw.raster \in Rasters
  BY Invariant DEF Hw
<1>2. PICK m \in DOMAIN Timing : ValidateMode(Timing[m]) /\ hw.raster = Raster(Timing[m])
  BY <1>1 DEF Rasters
<1> DEFINE t == Timing[m]
<1>3. t.vt \in Nat /\ t.doublescan \in BOOLEAN
  BY <1>2, DisplayAssumption
<1>4. Raster(t).vt <= 2048
  BY <1>2, <1>3 DEF Raster, ValidateMode
<1>5. Raster(t).ve <= Raster(t).vt /\ Raster(t).ve - Raster(t).vs <= 31 /\ Raster(t).he <= Raster(t).ht
  BY <1>2 DEF ValidateMode
<1>6. QED
  BY <1>2, <1>4, <1>5

LEMMA CursorHeld == DispInv => CursorAtMouse
<1> DEFINE rows == IF hw.raster.doublescan THEN 2 ELSE 1
           top == drv.mouse[2] - drv.yOffset
           left == drv.mouse[1] - drv.xOffset
           first == Max({0, -top})
           Origin(a) == IF a < 0 THEN Min({-a, CURSOR_WIDTH - 1}) ELSE 0
           goal == /\ first < CURSOR_WIDTH => hw.at.row = first /\ hw.at.y = (top + first) * rows
                   /\ -left < CURSOR_WIDTH => hw.at.x - hw.at.ox = left
<1> SUFFICES ASSUME DispInv, drv.phase = "ready", hw.shown, Lit, "placed" \in since PROVE goal
  BY DEF CursorAtMouse
<1>1. /\ drv.valid /\ drv.mode # NoMode /\ drv.mode \in DOMAIN Timing /\ hw.raster = Raster(Timing[drv.mode])
  BY LitNow
<1>2. drv.sprite # {} /\ Placed(Now) /\ Now.drv = drv /\ Now.hw = hw /\ drv \in Drv
  BY Invariant DEF Promised, Steady
<1>3. hw.at = CursorPlace(drv, FALSE)
  BY <1>2 DEF Placed
<1>4. top \in Int /\ left \in Int
  BY <1>2 DEF Drv
<1>5. rows = (IF Timing[drv.mode].doublescan THEN 2 ELSE 1) /\ rows \in Int
  BY <1>1 DEF Raster
<1> DEFINE oy == Origin(top) * 1
<1>6. hw.at = [x |-> Max({left, 0}), y |-> Max({top, 0}) * rows, ox |-> Origin(left), oy |-> oy, row |-> oy]
  BY <1>1, <1>3, <1>5 DEF CursorPlace
<1> HIDE DEF rows, top, left
<1>7. CURSOR_WIDTH \in Nat \ {0}
  BY DisplayAssumption
<1>8. ASSUME NEW a \in Int PROVE Origin(a) = IF a < 0 THEN (IF -a <= CURSOR_WIDTH - 1 THEN -a ELSE CURSOR_WIDTH - 1) ELSE 0
  BY <1>7, LeastOfTwo
<1>9. Max({left, 0}) = (IF left >= 0 THEN left ELSE 0) /\ Max({top, 0}) = (IF top >= 0 THEN top ELSE 0)
  BY <1>4, MostOfTwo
<1>10. first = (IF 0 >= -top THEN 0 ELSE -top)
  BY <1>4, MostOfTwo
<1> HIDE DEF first
<1>11. hw.at.row = Origin(top) * 1 /\ hw.at.y = Max({top, 0}) * rows /\ hw.at.x = Max({left, 0}) /\ hw.at.ox = Origin(left)
  BY <1>6
<1> HIDE DEF Origin
<1>12. first < CURSOR_WIDTH => Origin(top) = first /\ Max({top, 0}) = top + first /\ first \in Int
  BY <1>4, <1>7, <1>8, <1>9, <1>10
<1>13. -left < CURSOR_WIDTH => Max({left, 0}) - Origin(left) = left
  BY <1>4, <1>7, <1>8, <1>9
<1>14. QED
  BY <1>11, <1>12, <1>13

LEMMA NoDanglingHeld == DispInv => NoDanglingMode
BY Invariant DEF NoDanglingMode, Steady

LEMMA ClockRunsHeld == DispInv => ClockRuns
BY Invariant DEF ClockRuns, Promised, Steady

LEMMA TmdsHeld == DispInv => TmdsInRange
<1> DEFINE hz == clock[drv.mode].hz
<1> SUFFICES ASSUME DispInv, drv.phase = "ready", hw.fp, Lit, "resolved" \notin since
             PROVE  hz <= DviMaxClock /\ {hw.tmds} = SelectTmdsPll(board, hz)
  BY DEF TmdsInRange
<1>1. drv.valid /\ DviActive(board) /\ drv.mode \in DOMAIN Timing
  BY LitNow
<1>2. Linked(board, Now) /\ Now.drv = drv /\ Now.hw = hw /\ Now.clock = clock /\ Now \in State
  BY Invariant DEF Promised
<1>3. {hw.tmds} = SelectTmdsPll(board, hz)
  BY <1>1, <1>2 DEF Linked
<1>4. hz \in Nat /\ DviMaxClock \in Nat
  BY <1>1, <1>2, DisplayAssumption, SMTT(60) DEF State, Setting, DviMaxClock, MHz
<1>5. ~(hz > DviMaxClock)
  BY <1>3 DEF SelectTmdsPll
<1>6. QED
  BY <1>3, <1>4, <1>5

------------------------------------------------------------------------------
(* The card's POST.                                                         *)
(* The phases of RadeonInitializeHardware, and the registers that each has  *)
(* borrowed: those alone differ from what is due, and they are kept in a    *)
(* copy.  A call that succeeds keeps the host's path.                       *)
BiosPhases == {"start", "read", "hidden", "copied", "close", "examined", "post", "clock", "memory",
               "locate", "blank", "located", "done", "failed"}
Lent(phase) ==
  CASE phase \in {"read", "hidden", "close"} -> {"ROM_ADDRESS"}
    [] phase = "copied"                      -> Borrowed
    [] phase \in {"blank", "located"}        -> Blanked \cup {"HOST"}
    [] phase = "done"                        -> {"HOST"}
    [] OTHER                                 -> {}

(* The place in the tables, and what is believed of a card.                 *)
InPlace == pos.table \in 1 .. 8 /\ pos.cell \in Nat \ {0} /\ pos.entries \in 0 .. MAX_ENTRIES
           /\ pos \in [phase : BiosPhases, table : Int, cell : Int, entries : Int]

UsableClocks == {c \in [ref : Nat, div : Nat, min : Nat, max : Nat] : Sensible(c) /\ c.div <= PLL_REF_MASK}
DviRows == {r \in Seq(Nat) : Len(r) <= 4 /\ \A i \in 2 .. Len(r) : r[i] > r[i - 1]}
Insight == [bios : BOOLEAN, memory : 0 .. 512, size : 0 .. 512, space : 0 .. 512, installed : 0 .. 512,
            clock : {<<>>} \cup UsableClocks, dvi : DviRows]

(* What is lent is kept, and the rest is as it is due.                      *)
Copies == [Register -> SUBSET Bit]
Held == \A r \in Register : IF r \in Lent(pos.phase) THEN saved[r] = due[r] ELSE chip.regs[r] = due[r]

(* The inductive invariant: what is borrowed is kept, the tables            *)
(* read lie inside the image, and before the memory is moved the part of    *)
(* the aperture that it takes is settled.                                   *)
BiosInv ==
  /\ Readable(rom) /\ chip \in Card /\ {saved, due} \subseteq Copies /\ InPlace /\ info \in Insight /\ Held
  /\ TablesInsideImage
  /\ pos.phase = "locate" => /\ FB_MIN <= info.installed /\ info.installed <= UsedAperture
  /\ pos.phase \in {"blank", "located"} => /\ FB_MIN <= info.installed /\ info.installed <= UsedAperture
  /\ pos.phase = "located" =>
       chip.fb = <<chip.start, EndPage>> /\ chip.base = chip.start /\ chip.agp[1] > EndPage
  /\ MemorySettled
------------------------------------------------------------------------------
(* The phase that Goes leads to.                                            *)
LEMMA Gone ==
  ASSUME NEW phase \in BiosPhases, Goes(phase)
  PROVE  InPlace' /\ pos'.phase = phase /\ pos'.cell = 1 /\ pos'.table = 1
BY BiosAssumption DEF Goes, InPlace, At0

(* Before the memory is located less is said.                               *)
LEMMA Quiet ==
  ASSUME Readable(rom'), chip' \in Card, {saved', due'} \subseteq Copies, InPlace', info' \in Insight, Held',
         pos'.phase \notin {"post", "locate", "blank", "located", "done"}
  PROVE  BiosInv'
BY DEF BiosInv, TablesInsideImage, MemorySettled

(* What the registers of a card may be set to.                              *)
LEMMA CardRegs ==
  ASSUME NEW c \in Card, NEW f \in Copies
  PROVE  [c EXCEPT !.regs = f] \in Card /\ [c EXCEPT !.regs = f].regs = f
BY DEF Card, Copies

(* What holds in every phase.                                               *)
LEMMA Always ==
  ASSUME BiosInv
  PROVE  /\ Readable(rom) /\ chip \in Card /\ info \in Insight /\ Held
         /\ chip.regs \in Copies /\ saved \in Copies /\ due \in Copies
BY DEF BiosInv, Card, Copies

Calm == BiosPhases \ {"post", "locate", "blank", "located", "done"}

(* A step that changes registers and goes to a quiet phase.                 *)
LEMMA Lends ==
  ASSUME BiosInv, NEW phase \in Calm, Goes(phase), rom' = rom, due' = due, info' \in Insight,
         NEW f \in Copies, chip' = [chip EXCEPT !.regs = f], saved' \in Copies,
         \A r \in Register : IF r \in Lent(phase) THEN saved'[r] = due[r] ELSE f[r] = due[r]
  PROVE  BiosInv'
<1>1. InPlace' /\ pos'.phase = phase /\ phase \in BiosPhases
  BY Gone DEF Calm
<1>2. chip' \in Card /\ chip'.regs = f
  BY CardRegs, Always
<1>3. Held'
  BY <1>1, <1>2 DEF Held
<1>4. QED
  BY <1>1, <1>2, <1>3, Always, Quiet DEF Calm

(* And one that leaves them.                                                *)
LEMMA LendsNothing ==
  ASSUME BiosInv, NEW phase \in Calm, Goes(phase), rom' = rom, due' = due, saved' = saved, info' \in Insight,
         chip' \in Card, chip'.regs = chip.regs, Lent(pos.phase) = Lent(phase)
  PROVE  BiosInv'
<1>1. InPlace' /\ pos'.phase = phase /\ phase \in BiosPhases
  BY Gone DEF Calm
<1>2. Held'
  BY <1>1, Always DEF Held
<1>3. QED
  BY <1>1, <1>2, Always, Quiet DEF Calm

(* What is saved, and what is put back.                                     *)
LEMMA SavedTyped ==
  ASSUME BiosInv, NEW names
  PROVE  Saved(names) \in Copies /\ \A r \in Register : Saved(names)[r] = IF r \in names THEN chip.regs[r] ELSE saved[r]
BY Always DEF Saved, Copies

LEMMA RestoredTyped ==
  ASSUME BiosInv, NEW names
  PROVE  \E f \in Copies : /\ Restored(names) = [chip EXCEPT !.regs = f]
                            /\ \A r \in Register : f[r] = IF r \in names THEN saved[r] ELSE chip.regs[r]
<1> DEFINE f == [r \in Register |-> IF r \in names THEN saved[r] ELSE chip.regs[r]]
<1>1. f \in Copies
  BY Always DEF Copies
<1>2. Restored(names) = [chip EXCEPT !.regs = f]
  BY DEF Restored
<1>3. QED
  BY <1>1, <1>2

(* A step that puts back registers that are lent: what stays lent is less   *)
(* by them.                                                                 *)
LEMMA PutsBack ==
  ASSUME BiosInv, NEW phase \in Calm, Goes(phase), rom' = rom, due' = due, saved' = saved, info' \in Insight,
         NEW names, chip' = Restored(names), Lent(phase) = Lent(pos.phase) \ names, names \subseteq Lent(pos.phase)
  PROVE  BiosInv'
<1>1. PICK f \in Copies : /\ chip' = [chip EXCEPT !.regs = f]
                          /\ \A r \in Register : f[r] = IF r \in names THEN saved[r] ELSE chip.regs[r]
  BY RestoredTyped
<1>2. \A r \in Register : IF r \in Lent(phase) THEN saved'[r] = due[r] ELSE f[r] = due[r]
  BY <1>1, Always DEF Held
<1>3. QED
  BY <1>1, <1>2, Always, Lends

LEMMA LoadRomOpenKeeps == ASSUME BiosInv, LoadRomOpen PROVE BiosInv'
<1>1. pos.phase = "start" /\ rom' = rom /\ due' = due /\ info' = info
  BY DEF LoadRomOpen
<1>2. CASE rom.size = 0
  BY <1>1, <1>2, LendsNothing, Always DEF LoadRomOpen, Calm, BiosPhases, Lent
<1>3. CASE rom.size # 0
  <2> DEFINE f == [chip.regs EXCEPT !["ROM_ADDRESS"] = @ \cup {"enable"}]
             names == {"ROM_ADDRESS"}
  <2>1. chip' = [chip EXCEPT !.regs = f] /\ Goes("read") /\ saved' = Saved(names)
    BY <1>3 DEF LoadRomOpen
  <2>2. \A r \in Register : chip.regs[r] = due[r]
    BY <1>1, Always DEF Held, Lent
  <2>3. f \in Copies /\ \A r \in Register : r \notin names => f[r] = due[r]
    BY <2>2, Always DEF Copies, Bit
  <2> HIDE DEF f
  <2>4. saved' \in Copies /\ \A r \in Register : IF r \in Lent("read") THEN saved'[r] = due[r] ELSE f[r] = due[r]
    BY <2>1, <2>2, <2>3, SavedTyped DEF Lent
  <2>5. QED
    BY <1>1, <2>1, <2>3, <2>4, Always, Lends DEF Calm, BiosPhases
<1>4. QED
  BY <1>2, <1>3

LEMMA LoadRomReadKeeps == ASSUME BiosInv, LoadRomRead PROVE BiosInv'
<1>1. pos.phase = "read" /\ rom' = rom /\ due' = due /\ saved' = saved /\ info' = info /\ chip' = chip /\ (Goes("hidden") \/ Goes("close"))
  BY DEF LoadRomRead
<1>2. CASE Goes("hidden")
  BY <1>1, <1>2, LendsNothing, Always DEF Calm, BiosPhases, Lent
<1>3. CASE Goes("close")
  BY <1>1, <1>3, LendsNothing, Always DEF Calm, BiosPhases, Lent
<1>4. QED
  BY <1>1, <1>2, <1>3

LEMMA CopyDisabledRomKeeps == ASSUME BiosInv, CopyDisabledRom PROVE BiosInv'
<1>1. pos.phase = "hidden" /\ rom' = rom /\ due' = due /\ info' = info /\ Goes("copied") /\ saved' = Saved(Switched)
  BY DEF CopyDisabledRom
<1> DEFINE f == [r \in Register |-> IF r = "VIPH" THEN chip.regs[r] \ {"enable"} ELSE IF r = "BUS" THEN chip.regs[r] \ {"disable"}
                                   ELSE IF r \in Switched THEN {"disable"} ELSE chip.regs[r]]
<1>2. chip' = [chip EXCEPT !.regs = f]
  BY DEF CopyDisabledRom
<1>3. \A r \in Register : IF r = "ROM_ADDRESS" THEN saved[r] = due[r] ELSE chip.regs[r] = due[r]
  BY <1>1, Always DEF Held, Lent
<1>4. f \in Copies /\ \A r \in Register : r \notin Borrowed => f[r] = due[r]
  BY <1>3, Always DEF Copies, Bit, Borrowed, Switched
<1> HIDE DEF f
<1>5. saved' \in Copies /\ \A r \in Register : IF r \in Lent("copied") THEN saved'[r] = due[r] ELSE f[r] = due[r]
  BY <1>1, <1>3, <1>4, SavedTyped DEF Lent, Switched
<1>6. QED
  BY <1>1, <1>2, <1>4, <1>5, Always, Lends DEF Calm, BiosPhases

LEMMA CopyDisabledRomEndKeeps == ASSUME BiosInv, CopyDisabledRomEnd PROVE BiosInv'
<1>1. pos.phase = "copied" /\ rom' = rom /\ due' = due /\ saved' = saved /\ info' = info /\ Goes("close")
      /\ chip' = Restored(Switched)
  BY DEF CopyDisabledRomEnd
<1>2. Lent("close") = Lent("copied") \ Switched /\ Switched \subseteq Lent("copied")
  BY DEF Lent, Switched, Borrowed
<1>3. QED
  BY <1>1, <1>2, Always, PutsBack DEF Calm, BiosPhases

(* Where a table begins.                                                    *)
LEMMA TableTyped ==
  ASSUME NEW image, Readable(image), NEW n \in 1 .. 8
  PROVE  image.tables[Tables[n]] \in Seq(Cells)
BY DEF Readable, Tables

LEMMA ExaminedKeeps == ASSUME BiosInv, Examined PROVE BiosInv'
<1>1. pos.phase = "examined" /\ rom' = rom /\ due' = due /\ saved' = saved /\ info' = info /\ chip' = chip
  BY DEF Examined
<1>2. CASE Goes("clock")
  BY <1>1, <1>2, LendsNothing, Always DEF Calm, BiosPhases, Lent
<1>3. CASE Goes("failed")
  BY <1>1, <1>3, LendsNothing, Always DEF Calm, BiosPhases, Lent
<1>4. CASE Goes("post")
  <2>1. InPlace' /\ pos'.phase = "post" /\ pos'.cell = 1 /\ pos'.table = 1
    BY <1>4, Gone DEF BiosPhases
  <2>2. TablesInsideImage'
    <3>1. rom'.tables[Tables[1]] \in Seq(Cells)
      BY <1>1, Always, TableTyped
    <3>2. QED
      BY <2>1, <3>1 DEF TablesInsideImage, Table
  <2>3. Held'
    BY <1>1, <2>1, Always DEF Held, Lent
  <2>4. QED
    BY <1>1, <2>1, <2>2, <2>3 DEF BiosInv, MemorySettled
<1>5. QED
  BY <1>2, <1>3, <1>4 DEF Examined

LEMMA MostOfFour ==
  ASSUME NEW S \in SUBSET (0 .. 4), 0 \in S
  PROVE  Max(S) \in S
<1>1. \E x \in S : \A y \in S : x >= y
  <2>1. CASE 4 \in S
    BY <2>1
  <2>2. CASE 4 \notin S /\ 3 \in S
    BY <2>2
  <2>3. CASE 4 \notin S /\ 3 \notin S /\ 2 \in S
    BY <2>3
  <2>4. CASE 4 \notin S /\ 3 \notin S /\ 2 \notin S
    BY <2>4
  <2>5. QED
    BY <2>1, <2>2, <2>3, <2>4
<1>2. QED
  BY <1>1 DEF Max

LEMMA RisingRows ==
  ASSUME NEW rows \in Seq(Nat)
  PROVE  LET n == Rising(rows)
         IN /\ n \in 0 .. 4 /\ n <= Len(rows)
            /\ \A i \in 2 .. n : rows[i] > rows[i - 1]
<1> DEFINE S == {n \in 0 .. Min({4, Len(rows)}) :
                   \A i \in 1 .. n : rows[i] # 0 /\ (i > 1 => rows[i] > rows[i - 1])}
<1>1. Len(rows) \in Nat /\ Min({4, Len(rows)}) \in 0 .. 4 /\ Min({4, Len(rows)}) <= Len(rows)
  <2>1. 4 \in Int /\ Len(rows) \in Int /\ Len(rows) \in Nat
    OBVIOUS
  <2>2. QED
    BY <2>1, LeastOfTwo
<1>2. S \in SUBSET (0 .. 4) /\ 0 \in S
  BY <1>1
<1>3. Rising(rows) = Max(S)
  BY DEF Rising
<1>4. Rising(rows) \in S
  BY <1>2, <1>3, MostOfFour
<1>5. QED
  BY <1>1, <1>4

LEMMA DviTyped ==
  ASSUME NEW d, d = LoadDviInfo, rom.rows \in Seq(Nat)
  PROVE  d \in Seq(Nat) /\ Len(d) <= 4 /\ \A i \in 2 .. Len(d) : d[i] > d[i - 1]
<1>1. CASE d = <<>>
  BY <1>1
<1>2. CASE d # <<>>
  <2> DEFINE rows == rom.rows
             n == Rising(rows)
  <2>1. d = SubSeq(rows, 1, n)
    BY <1>2 DEF LoadDviInfo
  <2>2. n \in 0 .. 4 /\ n <= Len(rows) /\ (\A i \in 2 .. n : rows[i] > rows[i - 1])
    BY RisingRows
  <2>3. rows \in Seq(Nat) /\ Len(rows) \in Nat
    OBVIOUS
  <2> HIDE DEF n, rows
  <2>4. Len(d) = n /\ d \in Seq(Nat) /\ \A i \in 1 .. n : d[i] = rows[i]
    <3>1. Len(d) = n
      BY <2>1, <2>2, <2>3
    <3>2. \A i \in 1 .. n : d[i] = rows[i] /\ rows[i] \in Nat
      BY <2>1, <2>2, <2>3
    <3>3. d \in Seq(Nat)
      BY <2>1, <2>2, <2>3, <3>1, <3>2
    <3>4. QED
      BY <3>1, <3>2, <3>3
  <2>5. ASSUME NEW i \in 2 .. n
        PROVE  d[i] > d[i - 1]
    <3>1. i \in 1 .. n /\ i - 1 \in 1 .. n
      BY <2>2
    <3>2. QED
      BY <2>2, <2>4, <3>1
  <2>6. QED
    BY <2>2, <2>4, <2>5
<1>3. QED
  BY <1>1, <1>2

LEMMA MemoryRead == ASSUME Readable(rom) PROVE BiosMemorySize \in 0 .. 512
<1> DEFINE said == IF rom.detected # 0 THEN rom.detected
                   ELSE IF rom.revision >= 1 THEN rom.configured * 2 ELSE rom.configured
<1>1. rom.detected \in Nat /\ rom.configured \in Nat /\ rom.configured * 2 \in Nat
  BY DEF Readable
<1>2. said \in Nat /\ BiosMemorySize = (IF said < 4 \/ said > 512 THEN 0 ELSE said)
  BY <1>1 DEF BiosMemorySize
<1> HIDE DEF said
<1>3. QED
  BY <1>2

LEMMA InsightWith ==
  ASSUME NEW i \in Insight, NEW d \in DviRows, NEW m \in 0 .. 512
  PROVE  [i EXCEPT !.bios = TRUE, !.dvi = d, !.memory = m] \in Insight
<1> DEFINE K == {<<>>} \cup UsableClocks
           N == 0 .. 512
<1>1. Insight = [bios : BOOLEAN, memory : N, size : N, space : N, installed : N, clock : K, dvi : DviRows]
  BY DEF Insight
<1>2. TRUE \in BOOLEAN /\ m \in N
  OBVIOUS
<1> HIDE DEF K, N
<1>3. QED
  BY <1>1, <1>2

LEMMA InsightRead ==
  ASSUME info \in Insight, Readable(rom),
         info' = [info EXCEPT !.bios = TRUE, !.dvi = LoadDviInfo, !.memory = BiosMemorySize]
  PROVE  info' \in Insight
<1> DEFINE d == LoadDviInfo
           m == BiosMemorySize
<1>1. d \in DviRows
  BY DviTyped DEF Readable, DviRows
<1>2. m \in 0 .. 512 /\ TRUE \in BOOLEAN
  BY MemoryRead
<1>3. info' = [info EXCEPT !.bios = TRUE, !.dvi = d, !.memory = m]
  BY SMTT(60)
<1> HIDE DEF d, m
<1>4. [info EXCEPT !.bios = TRUE, !.dvi = d, !.memory = m] \in Insight
  BY <1>1, <1>2, InsightWith, ZenonT(60)
<1>5. QED
  BY <1>3, <1>4

LEMMA LoadRomCloseKeeps == ASSUME BiosInv, LoadRomClose PROVE BiosInv'
<1>1. pos.phase = "close" /\ rom' = rom /\ due' = due /\ saved' = saved /\ Goes("examined")
  BY DEF LoadRomClose
<1>2. chip' = Restored({"ROM_ADDRESS"})
  BY DEF LoadRomClose
<1>3. info' \in Insight
  BY InsightRead, Always DEF LoadRomClose
<1>4. Lent("examined") = Lent("close") \ {"ROM_ADDRESS"} /\ {"ROM_ADDRESS"} \subseteq Lent("close")
  BY DEF Lent
<1>5. QED
  BY <1>1, <1>2, <1>3, <1>4, PutsBack DEF Calm, BiosPhases

(* The next table, or the end of the POST, with the same card.              *)
LEMMA NextTableKeeps ==
  ASSUME BiosInv, pos.phase = "post", pos' = NextTable, rom' = rom, due' = due, saved' = saved, info' = info,
         chip' \in Card, chip'.regs = chip.regs
  PROVE  BiosInv'
<1>1. CASE pos' = [At0 EXCEPT !.phase = "clock"]
  <2>1. Goes("clock")
    BY <1>1 DEF Goes
  <2>2. QED
    BY <2>1, LendsNothing, Always DEF Calm, BiosPhases, Lent
<1>2. CASE pos' = [At0 EXCEPT !.phase = "post", !.table = pos.table + 1] /\ pos.table # Len(Tables)
  <2>1. pos.table \in 1 .. 8 /\ Len(Tables) = 8
    BY DEF BiosInv, InPlace, Tables
  <2> DEFINE n == pos.table + 1
  <2>2. n \in 1 .. 8
    BY <1>2, <2>1
  <2>3. pos' = [At0 EXCEPT !.phase = "post", !.table = n]
    BY <1>2
  <2> HIDE DEF n
  <2>4. /\ pos' = [phase |-> "post", table |-> n, cell |-> 1, entries |-> 0]
    BY <2>3 DEF At0
  <2>5. InPlace' /\ pos'.phase = "post" /\ pos'.cell = 1 /\ pos'.table = n
    BY <2>2, <2>4, BiosAssumption DEF InPlace, BiosPhases
  <2>6. rom'.tables[Tables[n]] \in Seq(Cells)
    BY <2>2, TableTyped, Always
  <2>7. TablesInsideImage'
    BY <2>5, <2>6 DEF TablesInsideImage, Table
  <2>8. Held'
    BY <2>5, Always DEF Held, Lent
  <2>9. QED
    BY <2>5, <2>7, <2>8, Always DEF BiosInv, MemorySettled
<1>3. QED
  BY <1>1, <1>2 DEF NextTable

LEMMA SkipTableKeeps == ASSUME BiosInv, SkipTable PROVE BiosInv'
BY NextTableKeeps, Always DEF SkipTable

LEMMA TellMemorySizeKeeps == ASSUME BiosInv, TellMemorySize PROVE BiosInv'
<1>1. info.memory \in 0 .. 512 /\ chip \in Card
  BY Always DEF Insight
<1>2. ASSUME NEW m \in Nat
      PROVE  [chip EXCEPT !.memsize = m] \in Card /\ [chip EXCEPT !.memsize = m].regs = chip.regs
  BY <1>1 DEF Card
<1>3. chip' \in Card /\ chip'.regs = chip.regs
  BY <1>1, <1>2 DEF TellMemorySize
<1>4. QED
  BY <1>3, NextTableKeeps DEF TellMemorySize

LEMMA RegsAfterTyped ==
  ASSUME NEW f \in Copies, NEW e \in Cells
  PROVE  RegsAfter(f, e) \in Copies /\ ((e.op \notin Stores \cup {"sdram"} \/ (e.op \in Stores /\ e.reg \notin Register)) => RegsAfter(f, e) = f)
<1>1. e.and \in SUBSET Bit /\ e.or \in SUBSET Bit
  BY DEF Cells
<1>2. ASSUME NEW v \in SUBSET Bit
      PROVE  Put(e, v) \in SUBSET Bit
  BY <1>1 DEF Put, MaskedOther, MaskedDirect, Mask32
<1> DEFINE target == IF e.op = "sdram" THEN "OTHER" ELSE e.reg
           g == [r \in Register |-> IF r = target /\ r # "ROM_ADDRESS" THEN Put(e, f[r]) ELSE f[r]]
<1>3. g \in Copies
  BY <1>2 DEF Copies
<1>4. target \notin Register => g = f
  BY DEF Copies
<1>5. RegsAfter(f, e) = IF e.op \in Stores \cup {"sdram"} THEN g ELSE f
  BY DEF RegsAfter
<1>6. e.op \in Stores => target = e.reg
  BY DEF Stores
<1> HIDE DEF g, target
<1>7. QED
  BY <1>3, <1>4, <1>5, <1>6

LEMMA EffectIsCard ==
  ASSUME chip \in Card, NEW e \in Cells
  PROVE  Effect(e) \in Card /\ Effect(e).regs = RegsAfter(chip.regs, e)
<1> DEFINE n == e.value[1]
           d == n % (PLL_REF_MASK + 1)
           p == Put(e, chip.pll)
           f == RegsAfter(chip.regs, e)
           stores == e.op \in Stores
           plls == e.op \in {"writePll", "maskPll"}
<1>1. n \in Nat /\ e.value \in Nat \X Nat /\ d \in 0 .. PLL_REF_MASK
  <2>1. n \in Nat /\ e.value \in Nat \X Nat
    BY DEF Cells
  <2>2. PLL_REF_MASK \in Nat
    BY BiosAssumption
  <2>3. QED
    BY <2>1, <2>2
<1>2. p \in SUBSET Bit /\ chip.pll \ {"enable"} \in SUBSET Bit
  BY DEF Cells, Put, MaskedOther, MaskedDirect, Mask32, Card
<1>3. chip.regs \in Copies
  BY DEF Card, Copies
<1>4. f \in Copies /\ ((e.op \notin Stores \cup {"sdram"} \/ (stores /\ e.reg \notin Register)) => f = chip.regs)
  BY <1>3, RegsAfterTyped
<1> HIDE DEF n, d, p, f
<1>5. CASE stores /\ e.reg \in {"memsize", "aperture", "base", "agp", "fb"}
  <2>1. f = chip.regs
    BY <1>4, <1>5 DEF Register, Borrowed
  <2>2. Effect(e) \in {[chip EXCEPT !.memsize = n], [chip EXCEPT !.aperture = n], [chip EXCEPT !.base = n],
                      [chip EXCEPT !.agp = e.value], [chip EXCEPT !.fb = e.value]}
    <3>1. e.reg = "memsize" => Effect(e) = [chip EXCEPT !.memsize = n]
      BY <1>5 DEF Effect, n, Stores
    <3>2. e.reg = "aperture" => Effect(e) = [chip EXCEPT !.aperture = n]
      BY <1>5 DEF Effect, n, Stores
    <3>3. e.reg = "base" => Effect(e) = [chip EXCEPT !.base = n]
      BY <1>5 DEF Effect, n, Stores
    <3>4. e.reg = "agp" => Effect(e) = [chip EXCEPT !.agp = e.value]
      BY <1>5 DEF Effect, n, Stores
    <3>5. e.reg = "fb" => Effect(e) = [chip EXCEPT !.fb = e.value]
      BY <1>5 DEF Effect, n, Stores
    <3>6. QED
      BY <1>5, <3>1, <3>2, <3>3, <3>4, <3>5
  <2>3. \A k \in Nat, q \in Nat \X Nat :
          \A c \in {[chip EXCEPT !.memsize = k], [chip EXCEPT !.aperture = k], [chip EXCEPT !.base = k],
                   [chip EXCEPT !.agp = q], [chip EXCEPT !.fb = q]} : c \in Card /\ c.regs = chip.regs
    BY DEF Card
  <2>4. Effect(e) \in Card /\ Effect(e).regs = chip.regs
    BY <1>1, <2>2, <2>3
  <2>5. QED
    BY <2>1, <2>4 DEF f
<1>6. CASE plls \/ e.op = "powerBit"
  <2>1. f = chip.regs /\ ~stores
    BY <1>4, <1>6 DEF Stores
  <2>2. Effect(e) \in {[chip EXCEPT !.divider = d], [chip EXCEPT !.pll = p], [chip EXCEPT !.pll = @ \ {"enable"}]}
    BY <1>6, <2>1 DEF Effect, n, d, p
  <2>3. QED
    BY <1>1, <1>2, <2>1, <2>2 DEF Card, f
<1>7. CASE ~(plls \/ e.op = "powerBit") /\ ~(stores /\ e.reg \in {"memsize", "aperture", "base", "agp", "fb"})
  <2>1. Effect(e) = [chip EXCEPT !.regs = f]
    BY <1>7 DEF Effect, f
  <2>2. QED
    BY <1>4, <2>1, CardRegs DEF f
<1>8. QED
  BY <1>5, <1>6, <1>7

LEMMA SizeIsNat == ASSUME NEW op PROVE Size(op) \in 0 .. 4
BY DEF Size

LEMMA PlacedOn ==
  ASSUME NEW p, NEW q, NEW t, NEW c0, NEW e0, NEW c, NEW e,
         p = [phase |-> "post", table |-> t, cell |-> c0, entries |-> e0],
         q = [p EXCEPT !.cell = c, !.entries = e]
  PROVE  /\ q = [phase |-> "post", table |-> t, cell |-> c, entries |-> e]
         /\ q.phase = "post" /\ q.table = t /\ q.cell = c /\ q.entries = e
OBVIOUS

(* Past an entry whose operands are there.                                  *)
LEMMA EntryPassed ==
  ASSUME BiosInv, pos.phase = "post", Table # <<>>, BiosHas(pos.cell, 1), pos.entries # MAX_ENTRIES,
         NEW n \in 0 .. 4, BiosHas(pos.cell + 1, n),
         pos' = [pos EXCEPT !.cell = @ + 1 + n, !.entries = @ + 1],
         rom' = rom, saved' = saved, due' \in Copies, info' = info, chip' \in Card, chip'.regs = due'
  PROVE  BiosInv'
<1> DEFINE t == pos.table
           c0 == pos.cell
           e0 == pos.entries
           c == c0 + 1 + n
           e == e0 + 1
<1>1. t \in 1 .. 8 /\ c0 \in Nat \ {0} /\ e0 \in 0 .. MAX_ENTRIES /\ MAX_ENTRIES \in Nat
  BY BiosAssumption DEF BiosInv, InPlace
<1>2. pos = [phase |-> "post", table |-> t, cell |-> c0, entries |-> e0]
  BY DEF BiosInv, InPlace
<1>3. Len(Table) \in Nat /\ c0 + 1 + n - 1 <= Len(Table)
  <2>1. Table \in Seq(Cells)
    BY <1>1, TableTyped, Always DEF Table
  <2>2. QED
    BY <2>1 DEF BiosHas
<1>4. pos' = [pos EXCEPT !.cell = c, !.entries = e] 
  OBVIOUS
<1>4a. e0 # MAX_ENTRIES
  OBVIOUS
<1> HIDE DEF c0, e0, t
<1>5. c \in Nat \ {0} /\ c <= Len(Table) + 1 /\ c \in Int
  BY <1>1, <1>3
<1>5a. e \in 0 .. MAX_ENTRIES /\ e \in Int /\ t \in Int
  BY <1>1, <1>4a
<1> HIDE DEF c, e
<1>6. pos' = [phase |-> "post", table |-> t, cell |-> c, entries |-> e]
  BY <1>2, <1>4, PlacedOn
<1>6a. pos'.phase = "post" /\ pos'.cell = c /\ pos'.table = t /\ pos'.entries = e
  BY <1>2, <1>4, PlacedOn
<1>6b. pos' \in [phase : BiosPhases, table : Int, cell : Int, entries : Int]
  BY <1>5, <1>5a, <1>6 DEF BiosPhases
<1>6c. InPlace'
  BY <1>1, <1>5, <1>5a, <1>6a, <1>6b DEF InPlace
<1>7. Table' = Table
  BY <1>6a DEF Table, t
<1>8. TablesInsideImage'
  BY <1>5, <1>6a, <1>7 DEF TablesInsideImage
<1>9. Held'
  BY <1>6a DEF Held, Lent
<1>10. QED
  BY <1>6a, <1>6c, <1>8, <1>9, Always DEF BiosInv, MemorySettled

LEMMA TableEntryKeeps == ASSUME BiosInv, TableEntry PROVE BiosInv'
<1>1. pos.phase = "post" /\ Table # <<>> /\ rom' = rom /\ saved' = saved /\ info' = info
  BY DEF TableEntry
<1>2. CASE Goes("failed") /\ chip' = chip /\ due' = due
  BY <1>1, <1>2, LendsNothing, Always DEF Calm, BiosPhases, Lent
<1>3. CASE pos' = NextTable /\ chip' = chip /\ due' = due
  BY <1>1, <1>3, NextTableKeeps, Always
<1>4. CASE BiosHas(pos.cell, 1) /\ pos.entries # MAX_ENTRIES
  <2> DEFINE entry == Table[pos.cell]
             n == Size(entry.op)
  <2>1. n \in 0 .. 4
    BY SizeIsNat
  <2>2. CASE BiosHas(pos.cell + 1, n) /\ pos' = [pos EXCEPT !.cell = @ + 1 + n, !.entries = @ + 1]
             /\ ((chip' = chip /\ due' = due) \/ (chip' = Effect(entry) /\ due' = RegsAfter(due, entry)))
    <3>1. entry \in Cells
      <4>1. pos.cell \in Nat /\ Table \in Seq(Cells)
        BY TableTyped, Always DEF BiosInv, InPlace, Table
      <4>2. pos.cell \in 1 .. Len(Table)
        <5>1. pos.cell >= 1
          BY DEF BiosInv, InPlace
        <5>2. QED
          BY <1>4, <4>1, <5>1 DEF BiosHas
      <4>3. QED
        BY <4>1, <4>2
    <3>2. chip.regs = due
      BY <1>1, Always DEF Held, Lent, Copies
    <3>3. chip' \in Card /\ chip'.regs = due' /\ due' \in Copies
      BY <2>2, <3>1, <3>2, EffectIsCard, RegsAfterTyped, Always
    <3> HIDE DEF n, entry
    <3>4. QED
      BY <1>1, <1>4, <2>1, <2>2, <3>3, EntryPassed
  <2>3. QED
    BY <1>2, <1>3, <1>4, <2>2 DEF TableEntry, OperandsThere, Goes
<1>5. QED
  BY <1>2, <1>3, <1>4 DEF TableEntry

LEMMA InsightClock ==
  ASSUME NEW i \in Insight, NEW k \in UsableClocks
  PROVE  [i EXCEPT !.clock = k] \in Insight
<1> DEFINE K == {<<>>} \cup UsableClocks
           N == 0 .. 512
<1>1. Insight = [bios : BOOLEAN, memory : N, size : N, space : N, installed : N, clock : K, dvi : DviRows]
  BY DEF Insight
<1>2. k \in K
  OBVIOUS
<1> HIDE DEF K, N
<1>3. QED
  BY <1>1, <1>2

LEMMA InsightInstalled ==
  ASSUME NEW i \in Insight, NEW n \in 0 .. 512
  PROVE  [i EXCEPT !.installed = n] \in Insight /\ [i EXCEPT !.installed = n].installed = n
<1> DEFINE K == {<<>>} \cup UsableClocks
           N == 0 .. 512
<1>1. Insight = [bios : BOOLEAN, memory : N, size : N, space : N, installed : N, clock : K, dvi : DviRows]
  BY DEF Insight
<1>2. n \in N
  OBVIOUS
<1> HIDE DEF K, N
<1>3. QED
  BY <1>1, <1>2

LEMMA InsightSizes ==
  ASSUME NEW i \in Insight, NEW n \in 0 .. 512, NEW m \in 0 .. 512
  PROVE  /\ [i EXCEPT !.size = n, !.space = m] \in Insight
         /\ [i EXCEPT !.size = n, !.space = m].size = n /\ [i EXCEPT !.size = n, !.space = m].space = m
<1> DEFINE K == {<<>>} \cup UsableClocks
           N == 0 .. 512
<1>1. Insight = [bios : BOOLEAN, memory : N, size : N, space : N, installed : N, clock : K, dvi : DviRows]
  BY DEF Insight
<1>2. n \in N /\ m \in N
  OBVIOUS
<1> HIDE DEF K, N
<1>3. QED
  BY <1>1, <1>2

LEMMA RomClockTyped ==
  ASSUME Readable(rom), Sensible(RomClock)
  PROVE  RomClock \in UsableClocks
<1>1. DefaultClock \in UsableClocks
  BY BiosAssumption DEF DefaultClock, UsableClocks, Sensible
<1>2. CASE ~info.bios \/ rom.pllInfo = <<>>
  BY <1>1, <1>2 DEF RomClock
<1>3. CASE info.bios /\ rom.pllInfo # <<>>
  <2> DEFINE p == rom.pllInfo
             ref == Or(p.ref, 27)
             div == IF 2 <= p.div /\ p.div <= PLL_REF_MASK THEN p.div ELSE 12
             low == Or((p.min * 10) % BIOS_WORD, 125)
             top == Or((p.max * 10) % BIOS_WORD, 400)
  <2>1. p.ref \in Nat /\ p.div \in Nat /\ p.min \in Nat /\ p.max \in Nat
    BY <1>3 DEF Readable
  <2>2. p.min * 10 \in Nat /\ p.max * 10 \in Nat /\ BIOS_WORD \in Nat /\ BIOS_WORD > 0
    BY <2>1, BiosAssumption
  <2>3. (p.min * 10) % BIOS_WORD \in Nat /\ (p.max * 10) % BIOS_WORD \in Nat
    <3>1. ASSUME NEW a \in Nat, NEW b \in Nat, b > 0
          PROVE  a % b \in Nat
      BY <3>1
    <3>2. QED
      BY <2>2, <3>1
  <2>4. ref \in Nat /\ div \in Nat /\ div <= PLL_REF_MASK /\ low \in Nat /\ top \in Nat
    BY <2>1, <2>3, BiosAssumption DEF Or
  <2>5. RomClock = [ref |-> ref, div |-> div, min |-> low, max |-> top]
    BY <1>3 DEF RomClock
  <2> HIDE DEF ref, div, low, top
  <2>6. QED
    BY <2>4, <2>5 DEF UsableClocks
<1>4. QED
  BY <1>2, <1>3

LEMMA LoadClockInfoKeeps == ASSUME BiosInv, LoadClockInfo PROVE BiosInv'
<1>1. pos.phase = "clock" /\ rom' = rom /\ due' = due /\ saved' = saved /\ chip' = chip /\ Goes("memory")
  BY DEF LoadClockInfo
<1> DEFINE c == IF Sensible(RomClock) THEN RomClock ELSE DefaultClock
           k == IF chip.divider >= 2 THEN [c EXCEPT !.div = chip.divider] ELSE c
<1>2. DefaultClock \in UsableClocks
  BY BiosAssumption DEF DefaultClock, UsableClocks, Sensible
<1>3. c \in UsableClocks
  BY <1>2, RomClockTyped, Always
<1>4. info' = [info EXCEPT !.clock = k]
  BY DEF LoadClockInfo
<1>5. chip.divider \in 0 .. PLL_REF_MASK /\ PLL_REF_MASK \in Nat
  BY Always, BiosAssumption DEF Card
<1> HIDE DEF c
<1>6. k \in UsableClocks
  BY <1>3, <1>5 DEF UsableClocks, Sensible
<1> HIDE DEF k
<1>7. info' \in Insight
  BY <1>4, <1>6, Always, InsightClock
<1>8. QED
  BY <1>1, <1>7, LendsNothing, Always DEF Calm, BiosPhases, Lent

(* The memory that is settled, and the part of the aperture that is used.   *)
LEMMA MemoryTyped == ASSUME BiosInv PROVE SettledMemory \in 0 .. 512
<1>1. info.memory \in 0 .. 512 /\ chip.memsize \in Nat /\ FB_MIN \in Nat
  BY Always, BiosAssumption DEF Insight, Card
<1>2. QED
  BY <1>1, SMTT(60) DEF SettledMemory, Trusted

LEMMA ApertureTyped ==
  ASSUME chip \in Card
  PROVE  /\ UsedAperture \in 0 .. 512 /\ UsedAperture >= FB_MIN /\ UsedAperture <= chip.bar
         /\ chip.bar \in Nat /\ chip.start \in Nat /\ FB_MIN \in Nat /\ FB_MIN > 0
<1> DEFINE said == IF chip.aperture < FB_MIN \/ ~IsPowerOfTwo(chip.aperture) \/ chip.aperture > chip.bar
                   THEN chip.bar ELSE chip.aperture
<1>1. chip.aperture \in Nat /\ chip.bar \in Nat /\ chip.bar >= FB_MIN /\ chip.start \in Nat
  BY DEF Card
<1>2. /\ FB_APERTURE \in Nat /\ FB_MIN \in Nat /\ FB_MIN > 0
      /\ FB_MIN <= FB_APERTURE /\ FB_APERTURE <= 512
  BY BiosAssumption
<1>3. said \in Nat /\ said >= FB_MIN /\ said <= chip.bar
  BY <1>1, <1>2
<1>4. UsedAperture = Min({said, FB_APERTURE})
  BY DEF UsedAperture
<1> HIDE DEF said
<1>5. said \in Int /\ FB_APERTURE \in Int
  BY <1>2, <1>3
<1>6. UsedAperture = IF said <= FB_APERTURE THEN said ELSE FB_APERTURE
  BY <1>4, <1>5, LeastOfTwo
<1>7. QED
  BY <1>1, <1>2, <1>3, <1>6

LEMMA SettleMemoryKeeps == ASSUME BiosInv, SettleMemory PROVE BiosInv'
<1>1. pos.phase = "memory" /\ rom' = rom /\ due' = due /\ saved' = saved
  BY DEF SettleMemory
<1> DEFINE m == SettledMemory
           a == UsedAperture
<1>2. m \in 0 .. 512 /\ a \in 0 .. 512 /\ a >= FB_MIN /\ FB_MIN \in Nat
  BY MemoryTyped, ApertureTyped, Always
<1>3. m \in Nat /\ m \in Int /\ a \in Int
  BY <1>2
<1>4. chip' = IF m # 0 THEN [chip EXCEPT !.memsize = m] ELSE chip
  BY DEF SettleMemory
<1>5. IF m < FB_MIN THEN Goes("failed") /\ info' = info
      ELSE Goes("locate") /\ info' = [info EXCEPT !.installed = Min({m, a})]
  BY DEF SettleMemory
<1>6. UsedAperture' = IF chip'.aperture < FB_MIN \/ ~IsPowerOfTwo(chip'.aperture) \/ chip'.aperture > chip'.bar
                      THEN Min({chip'.bar, FB_APERTURE}) ELSE Min({chip'.aperture, FB_APERTURE})
  BY DEF UsedAperture
<1>7. UsedAperture = IF chip.aperture < FB_MIN \/ ~IsPowerOfTwo(chip.aperture) \/ chip.aperture > chip.bar
                     THEN Min({chip.bar, FB_APERTURE}) ELSE Min({chip.aperture, FB_APERTURE})
  BY DEF UsedAperture
<1>8. chip' \in Card /\ chip'.regs = chip.regs /\ chip'.aperture = chip.aperture /\ chip'.bar = chip.bar
  <2> HIDE DEF m
  <2>1. QED
    BY <1>3, <1>4, Always DEF Card
<1>9. UsedAperture' = a
  BY <1>6, <1>7, <1>8
<1> HIDE DEF m, a
<1>10. CASE m < FB_MIN
  BY <1>1, <1>5, <1>8, <1>10, LendsNothing, Always DEF Calm, BiosPhases, Lent
<1>11. CASE m >= FB_MIN
  <2> DEFINE k == Min({m, a})
  <2>1. k = IF m <= a THEN m ELSE a
    BY <1>3, LeastOfTwo
  <2>2. k \in 0 .. 512 /\ FB_MIN <= k /\ k <= a
    BY <1>2, <1>11, <2>1, SMTT(60)
  <2>3. Goes("locate") /\ info' = [info EXCEPT !.installed = k]
    BY <1>2, <1>3, <1>5, <1>11
  <2> HIDE DEF k
  <2>4. info' \in Insight /\ info'.installed = k
    BY <2>2, <2>3, Always, InsightInstalled, ZenonT(60)
  <2>5. InPlace' /\ pos'.phase = "locate"
    BY <2>3, Gone DEF BiosPhases
  <2>6. Held'
    BY <1>1, <1>8, <2>5, Always DEF Held, Lent
  <2>7. FB_MIN <= info'.installed /\ info'.installed <= UsedAperture'
    BY <2>2, <2>4, <1>9
  <2>8. QED
    BY <1>1, <1>8, <2>4, <2>5, <2>6, <2>7, Always DEF BiosInv, TablesInsideImage, MemorySettled
<1>12. QED
  BY <1>2, <1>3, <1>10, <1>11

(* The part of the aperture that is used stays, with the registers it is of. *)
LEMMA ApertureStays ==
  ASSUME chip'.aperture = chip.aperture, chip'.bar = chip.bar
  PROVE  UsedAperture' = UsedAperture
<1>1. UsedAperture' = IF chip'.aperture < FB_MIN \/ ~IsPowerOfTwo(chip'.aperture) \/ chip'.aperture > chip'.bar
                      THEN Min({chip'.bar, FB_APERTURE}) ELSE Min({chip'.aperture, FB_APERTURE})
  BY DEF UsedAperture
<1>2. UsedAperture = IF chip.aperture < FB_MIN \/ ~IsPowerOfTwo(chip.aperture) \/ chip.aperture > chip.bar
                     THEN Min({chip.bar, FB_APERTURE}) ELSE Min({chip.aperture, FB_APERTURE})
  BY DEF UsedAperture
<1>3. QED
  BY <1>1, <1>2

(* What stays of a card whose lent registers change.                        *)
LEMMA CardRest ==
  ASSUME NEW c \in Card, NEW f \in Copies
  PROVE  LET d == [c EXCEPT !.regs = f]
         IN /\ d \in Card /\ d.regs = f
            /\ \A x \in {"aperture", "bar", "start", "fb", "base", "agp"} : d[x] = c[x]
BY DEF Card, Copies

LEMMA LocateBlankKeeps == ASSUME BiosInv, LocateBlank PROVE BiosInv'
<1> DEFINE names == Blanked \cup {"HOST"}
<1>1. pos.phase = "locate" /\ rom' = rom /\ due' = due /\ info' = info
  BY DEF LocateBlank
<1>2. CASE Goes("failed") /\ chip' = chip /\ saved' = saved
  BY <1>1, <1>2, LendsNothing, Always DEF Calm, BiosPhases, Lent
<1>3. CASE Goes("blank") /\ saved' = Saved(names)
  <2> DEFINE f == [r \in Register |->
                     IF r \in Blanked THEN chip.regs[r] \cup {"disable"} ELSE IF r = "HOST" THEN {} ELSE chip.regs[r]]
  <2>1. chip' = [chip EXCEPT !.regs = f] \/ Goes("failed")
    BY <1>3 DEF LocateBlank
  <2>2. InPlace' /\ pos'.phase = "blank"
    BY <1>3, Gone DEF BiosPhases
  <2>3. \A r \in Register : chip.regs[r] = due[r]
    BY <1>1, Always DEF Held, Lent
  <2>4. f \in Copies /\ \A r \in Register : r \notin names => f[r] = due[r]
    BY <2>3, Always DEF Copies, Bit
  <2>5. chip' = [chip EXCEPT !.regs = f]
    BY <2>1, <2>2, Gone DEF BiosPhases
  <2> HIDE DEF f
  <2>6. chip' \in Card /\ chip'.regs = f /\ chip'.aperture = chip.aperture /\ chip'.bar = chip.bar
    BY <2>4, <2>5, Always, CardRest
  <2>7. UsedAperture' = UsedAperture
    BY <2>6, ApertureStays
  <2>8. FB_MIN <= info'.installed /\ info'.installed <= UsedAperture'
    BY <1>1, <2>7 DEF BiosInv
  <2>9. saved' \in Copies /\ Held'
    BY <1>1, <1>3, <2>2, <2>3, <2>4, <2>6, SavedTyped DEF Held, Lent
  <2>10. QED
    BY <1>1, <2>2, <2>6, <2>8, <2>9, Always DEF BiosInv, TablesInsideImage, MemorySettled
<1>4. QED
  BY <1>2, <1>3 DEF LocateBlank

LEMMA LocateBusyKeeps == ASSUME BiosInv, LocateBusy PROVE BiosInv'
<1> DEFINE names == Blanked \cup {"HOST"}
<1>1. pos.phase = "blank" /\ rom' = rom /\ due' = due /\ saved' = saved /\ info' = info /\ Goes("failed")
      /\ chip' = Restored(names)
  BY DEF LocateBusy
<1>2. Lent("failed") = Lent("blank") \ names /\ names \subseteq Lent("blank")
  BY DEF Lent
<1> HIDE DEF names
<1>3. QED
  BY <1>1, <1>2, Always, PutsBack DEF Calm, BiosPhases

LEMMA LocateKeeps == ASSUME BiosInv, Locate PROVE BiosInv'
<1>1. pos.phase = "blank" /\ rom' = rom /\ due' = due /\ saved' = saved /\ info' = info /\ Goes("located")
  BY DEF Locate
<1> DEFINE e == EndPage
           a == NewAgp
           s == chip.start
           fb == <<s, e>>
<1>2. e \in Nat /\ s \in Nat /\ e + 1 \in Nat
  BY ApertureTyped, Always, SMTT(60) DEF EndPage
<1>3. a \in Nat \X Nat /\ a[1] > e
  <2>1. chip.agp \in Nat \X Nat
    BY Always DEF Card
  <2> HIDE DEF e
  <2>2. a = IF chip.agp[1] # e + 1 THEN <<e + 1, e>> ELSE chip.agp
    BY DEF NewAgp, e
  <2> HIDE DEF a
  <2>3. QED
    BY <1>2, <2>1, <2>2
<1>4. fb \in Nat \X Nat
  BY <1>2
<1>5. chip' = [chip EXCEPT !.fb = fb, !.agp = a, !.base = s]
  BY DEF Locate
<1>5a. s = chip.start
  OBVIOUS
<1> HIDE DEF fb, a, s
<1>6. /\ chip' \in Card /\ chip'.regs = chip.regs /\ chip'.aperture = chip.aperture /\ chip'.bar = chip.bar
      /\ chip'.start = s /\ chip'.fb = fb /\ chip'.agp = a /\ chip'.base = s
  BY <1>2, <1>3, <1>4, <1>5, <1>5a, Always DEF Card
<1>7. UsedAperture' = UsedAperture
  BY <1>6, ApertureStays
<1>8. EndPage' = e
  BY <1>5a, <1>6, <1>7 DEF EndPage
<1>9. InPlace' /\ pos'.phase = "located"
  BY <1>1, Gone DEF BiosPhases
<1>10. FB_MIN <= info'.installed /\ info'.installed <= UsedAperture'
  BY <1>1, <1>7 DEF BiosInv
<1>11. Held'
  BY <1>1, <1>6, <1>9, Always DEF Held, Lent
<1>12. chip'.fb = <<chip'.start, EndPage'>> /\ chip'.base = chip'.start /\ chip'.agp[1] > EndPage'
  BY <1>3, <1>6, <1>8 DEF fb
<1> HIDE DEF e
<1>13. QED
  BY <1>1, <1>6, <1>9, <1>10, <1>11, <1>12, Always DEF BiosInv, TablesInsideImage, MemorySettled

LEMMA LocateEndKeeps == ASSUME BiosInv, LocateEnd PROVE BiosInv'
<1>1. pos.phase = "located" /\ rom' = rom /\ due' = due /\ saved' = saved /\ Goes("done")
  BY DEF LocateEnd
<1> DEFINE n == info.installed
           m == UsedAperture
<1>2. PICK f \in Copies : /\ chip' = [chip EXCEPT !.regs = f]
                          /\ \A r \in Register : f[r] = IF r \in Blanked THEN saved[r] ELSE chip.regs[r]
  BY RestoredTyped DEF LocateEnd
<1>3. \A r \in Register : IF r \in Lent("done") THEN saved[r] = due[r] ELSE f[r] = due[r]
  BY <1>1, <1>2, Always DEF Held, Lent, Blanked
<1>5. /\ chip' \in Card /\ chip'.regs = f /\ chip'.aperture = chip.aperture /\ chip'.bar = chip.bar
      /\ chip'.start = chip.start /\ chip'.fb = chip.fb /\ chip'.agp = chip.agp /\ chip'.base = chip.base
  BY <1>2, Always, CardRest
<1>6. n \in 0 .. 512 /\ m \in 0 .. 512 /\ FB_MIN <= n /\ n <= m /\ m <= chip.bar /\ chip.bar \in Nat /\ chip.start \in Nat
  <2>1. n \in 0 .. 512
    BY Always DEF Insight
  <2>2. FB_MIN <= n /\ n <= m
    BY <1>1 DEF BiosInv
  <2>3. QED
    BY <2>1, <2>2, ApertureTyped, Always
<1>7. info' = [info EXCEPT !.size = n, !.space = m]
  BY DEF LocateEnd
<1>8. /\ chip.fb = <<chip.start, EndPage>> /\ chip.base = chip.start /\ chip.agp[1] > EndPage
      /\ EndPage = chip.start + m - 1 /\ chip.agp \in Nat \X Nat
  BY <1>1, Always DEF BiosInv, EndPage, Card
<1> HIDE DEF n, m
<1>9. info' \in Insight /\ info'.size = n /\ info'.space = m
  <2>1. n \in 0 .. 512 /\ m \in 0 .. 512 /\ info \in Insight
    BY <1>6, Always, SMTT(60)
  <2>2. [info EXCEPT !.size = n, !.space = m] \in Insight
    BY <2>1, InsightSizes, ZenonT(60)
  <2>3. [info EXCEPT !.size = n, !.space = m].size = n /\ [info EXCEPT !.size = n, !.space = m].space = m
    BY <2>1 DEF Insight
  <2>4. QED
    BY <1>7, <2>2, <2>3
<1>10. InPlace' /\ pos'.phase = "done"
  BY <1>1, Gone DEF BiosPhases
<1>11. MemorySettled'
  <2> DEFINE s == chip.start
             e == s + m - 1
  <2>1. chip'.base = s /\ chip'.fb[1] = s /\ chip'.fb[2] = e /\ chip'.agp[1] > e /\ chip'.agp[1] \in Nat /\ chip'.agp[2] \in Nat
    BY <1>5, <1>8
  <2>2. s \in Nat /\ e \in Int /\ e - s + 1 = m
    BY <1>6
  <2> HIDE DEF s, e
  <2>3. ~\E page \in chip'.agp[1] .. chip'.agp[2] : page \in s .. e
    BY <2>1, <2>2
  <2>4. FB_MIN <= info'.size /\ info'.size <= info'.space /\ info'.space <= chip'.bar
    BY <1>5, <1>6, <1>9
  <2>5. chip'.fb[2] - chip'.fb[1] + 1 >= info'.size
    BY <1>6, <1>9, <2>1, <2>2
  <2>6. QED
    BY <2>1, <2>3, <2>4, <2>5 DEF MemorySettled
<1>12. Held'
  BY <1>1, <1>3, <1>5, <1>10 DEF Held
<1>13. QED
  BY <1>1, <1>5, <1>9, <1>10, <1>11, <1>12, Always DEF BiosInv, TablesInsideImage

LEMMA BiosStarts == BiosInit => BiosInv
<1> SUFFICES ASSUME BiosInit PROVE BiosInv
  OBVIOUS
<1>1. PICK s \in Setups : rom = s[1] /\ chip = s[2] /\ due = s[2].regs
  BY DEF BiosInit
<1>2. Readable(rom) /\ chip \in Card /\ due = chip.regs /\ saved \in Copies /\ due \in Copies
  BY <1>1, BiosAssumption DEF BiosInit, Card, Copies
<1>3. pos = At0 /\ info = Learned0
  BY DEF BiosInit
<1>4. InPlace /\ pos.phase = "start"
  BY <1>3, BiosAssumption DEF InPlace, At0, BiosPhases
<1>5. info \in Insight
  <2>1. <<>> \in DviRows
    BY DEF DviRows
  <2>2. 0 \in 0 .. 512 /\ FALSE \in BOOLEAN
    OBVIOUS
  <2>3. QED
    BY <1>3, <2>1, <2>2 DEF Insight, Learned0
<1>6. QED
  BY <1>2, <1>4, <1>5 DEF BiosInv, TablesInsideImage, MemorySettled, Held, Lent

LEMMA BiosKeeps == BiosInv /\ [BiosNext]_biosvars => BiosInv'
<1> SUFFICES ASSUME BiosInv, [BiosNext]_biosvars PROVE BiosInv'
  OBVIOUS
<1>1. CASE LoadRomOpen \/ LoadRomRead \/ CopyDisabledRom \/ CopyDisabledRomEnd \/ LoadRomClose
  BY <1>1, LoadRomOpenKeeps, LoadRomReadKeeps, CopyDisabledRomKeeps, CopyDisabledRomEndKeeps, LoadRomCloseKeeps
<1>2. CASE Examined \/ SkipTable \/ TableEntry \/ TellMemorySize
  BY <1>2, ExaminedKeeps, SkipTableKeeps, TableEntryKeeps, TellMemorySizeKeeps
<1>3. CASE LoadClockInfo \/ SettleMemory
  BY <1>3, LoadClockInfoKeeps, SettleMemoryKeeps
<1>4. CASE LocateBlank \/ LocateBusy \/ Locate \/ LocateEnd
  BY <1>4, LocateBlankKeeps, LocateBusyKeeps, LocateKeeps, LocateEndKeeps
<1>5. CASE UNCHANGED biosvars
  BY <1>5 DEF biosvars, BiosInv, Held, InPlace, TablesInsideImage, MemorySettled, Table, UsedAperture, EndPage
<1>6. QED
  BY <1>1, <1>2, <1>3, <1>4, <1>5 DEF BiosNext

LEMMA BiosTyped == BiosInv => BiosTypeOK
<1> SUFFICES ASSUME BiosInv PROVE BiosTypeOK
  OBVIOUS
<1>1. DOMAIN Tables = 1 .. 8
  BY DEF Tables
<1>2. pos.table \in DOMAIN Tables /\ pos.entries \in 0 .. MAX_ENTRIES
  BY <1>1 DEF BiosInv, InPlace
<1>3. chip.pll \in SUBSET Bit /\ \A r \in Register : chip.regs[r] \in SUBSET Bit
  BY Always DEF Card
<1>4. info.memory \in 0 .. 512 /\ info.size \in 0 .. 512 /\ info.space \in 0 .. 512 /\ info.installed \in 0 .. 512
  BY Always DEF Insight
<1>5. QED
  BY <1>2, <1>3, <1>4 DEF BiosTypeOK

LEMMA ReturnedNow == BiosInv => BorrowedReturned
BY DEF BiosInv, BorrowedReturned, Ended, Held, Lent, Register, Borrowed

LEMMA UsableNow == BiosInv => TablesInsideImage /\ ClocksUsable /\ DviRowsRise /\ MemorySettled
<1> SUFFICES ASSUME BiosInv PROVE ClocksUsable /\ DviRowsRise /\ TablesInsideImage /\ MemorySettled
  OBVIOUS
<1>1. info.dvi \in DviRows /\ info.clock \in {<<>>} \cup UsableClocks
  BY Always DEF Insight
<1>2. DviRowsRise
  BY <1>1 DEF DviRows, DviRowsRise
<1>3. ClocksUsable
  <2> SUFFICES ASSUME info.clock \in UsableClocks
               PROVE  ClocksUsable
    BY <1>1 DEF ClocksUsable
  <2>1. QED
    BY BiosAssumption, SMTT(60) DEF UsableClocks, Sensible, ClocksUsable
<1>4. QED
  BY <1>2, <1>3 DEF BiosInv

------------------------------------------------------------------------------
(* A behaviour of Driver is one of each of its parts: the part that runs    *)
(* takes its steps, the others rest.                                        *)
LEMMA DriverIsBios == DriverSpec => BiosSpec
<1>1. DriverInit => BiosInit
  BY DEF DriverInit
<1>2. [DriverNext]_drivervars => [BiosNext]_biosvars
  BY DEF DriverNext, drivervars
<1>3. QED
  BY <1>1, <1>2, PTL DEF DriverSpec, BiosSpec

LEMMA DriverIsBringup == DriverSpec => BringupSpec
<1>1. DriverInit => BringupInit
  BY DEF DriverInit
<1>2. [DriverNext]_drivervars => [BringupNext]_bringupvars
  BY DEF DriverNext, drivervars
<1>3. QED
  BY <1>1, <1>2, PTL DEF DriverSpec, BringupSpec

LEMMA DriverIsEngine == DriverSpec => Spec
<1>1. DriverInit => Init
  BY DEF DriverInit
<1>2. [DriverNext]_drivervars => [Next]_vars
  BY DEF DriverNext, drivervars
<1>3. QED
  BY <1>1, <1>2, PTL DEF DriverSpec, Spec

LEMMA DriverIsDisplay == DriverSpec => DisplaySpec
<1>1. DriverInit => DisplayInit
  BY DEF DriverInit
<1>2. [DriverNext]_drivervars => [DisplayNext]_dispvars
  BY DEF DriverNext, drivervars
<1>3. QED
  BY <1>1, <1>2, PTL DEF DriverSpec, DisplaySpec

(* What is learned of a card and where the call is, whatever its ROM says   *)
(* and its registers hold (RadeonInitializeHardware).                       *)
THEOREM BiosInvariant == BiosSpec => []BiosInv
<1>1. QED
  BY BiosStarts, BiosKeeps, PTL DEF BiosSpec

(* What the driver and the display agree on, whatever is called and failed: *)
(* the inductive invariant of the display.                                  *)
THEOREM DisplayInvariant == DisplaySpec => []DispInv
<1>1. QED
  BY DisplayInitInv, DisplayStep, PTL DEF DisplaySpec
------------------------------------------------------------------------------
(* However the call ends, what it borrowed is as it was found, with what    *)
(* the ROM's tables wrote to it and nothing else: copies are taken after    *)
(* the POST again (LoadRom, CopyDisabledRom, SetFramebufferLocation).       *)
THEOREM BorrowedComesBack == DriverSpec => []BorrowedReturned
<1>1. QED
  BY DriverIsBios, BiosInvariant, ReturnedNow, PTL

(* A card that is accepted is usable, whatever its ROM holds: no table is   *)
(* read past the image, the clocks make sense, the DVI rows rise, and the   *)
(* memory is settled inside the aperture (radeon_bios.c).                   *)
THEOREM AcceptedIsUsable == DriverSpec => []CardUsable
<1>1. BiosInv => CardUsable
  BY UsableNow DEF CardUsable
<1>2. QED
  BY DriverIsBios, BiosInvariant, <1>1, PTL

(* Once nobody has the board or the library open, what was taken is given   *)
(* back (library.c, radeon9200.c, RadeonCpShutdown).                        *)
THEOREM NothingStaysBehind == DriverSpec => []NothingLeftBehind
<1>1. EmptyMeansClean /\ BusRestored /\ PrometheusHeld => NothingLeftBehind
  BY DEF NothingLeftBehind
<1>2. QED
  BY DriverIsBringup, EmptyStaysClean, BusGivenBack, PrometheusStaysHeld, <1>1, PTL

(* Whatever is on the screen is a valid mode at its format's depth, read    *)
(* inside the memory, in registers that hold it, with the palette of its    *)
(* format and the cursor where the mouse is (radeon_mode.c,                 *)
(* radeon_cursor.c).                                                        *)
THEOREM PictureStaysRight == DriverSpec => []PictureRight
<1>1. DispInv => PictureRight
  BY PictureHeld, PaletteHeld, ScanoutHeld, RegistersHeld, CursorHeld DEF PictureRight
<1>2. QED
  BY DriverIsDisplay, DisplayInvariant, <1>1, PTL

(* The driver never keeps a mode that Picasso96 freed, nor a startup screen *)
(* behind a mode of its own (SetGC, RadeonShowStartupScreen).               *)
THEOREM NoModeDangles == DriverSpec => []NoDanglingMode
<1>1. QED
  BY DriverIsDisplay, DisplayInvariant, NoDanglingHeld, PTL

(* A picture is lit only with the pixel clock running, and a panel's link   *)
(* only within the rates it takes, with the row that fits its mode's clock  *)
(* (SetClock, SelectTmdsPll).                                               *)
THEOREM ClockStaysRunning == DriverSpec => [](ClockRuns /\ TmdsInRange)
<1>1. DispInv => ClockRuns /\ TmdsInRange
  BY ClockRunsHeld, TmdsHeld
<1>2. QED
  BY DriverIsDisplay, DisplayInvariant, <1>1, PTL

(* Every part's state is of the form that was meant for it.                 *)
THEOREM DriverTypeCorrect == DriverSpec => []DriverTypeOK
<1>1. BiosInv /\ BringupTypeOK /\ IInv /\ DispInv => DriverTypeOK
  BY BiosTyped, DisplayTyped DEF DriverTypeOK, IInv
<1>2. QED
  BY DriverIsBios, DriverIsBringup, DriverIsEngine, DriverIsDisplay,
     BiosInvariant, BringupTypeCorrect, EngineInvariant, DisplayInvariant, <1>1, PTL
==============================================================================
