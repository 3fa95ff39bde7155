----------------------------- MODULE ClientsProofs -----------------------------
(***************************************************************************)
(* Of what the clients of the service share: the fences they wait for are  *)
(* answered, the surfaces of the pool lie apart, none is lost and a pool   *)
(* fails only when it has no room, work in flight keeps its target, a      *)
(* sample is read as it was written, no request reaches past what its      *)
(* client has, and the PowerPC and its host keep to one another on the     *)
(* ring they share with the driver.                                        *)
(*                                                                         *)
(* The parts share no variable, so an invariant of one is kept by the      *)
(* steps of the others: IInv of the fences, RingPartInv of what            *)
(* DirectRingProofs says of the two forms, PoolsInv, SamplesInv and        *)
(* RequestsInv.                                                            *)
(***************************************************************************)
EXTENDS Clients, DirectRingProofs, DebugProofs, FiniteSetTheorems, WellFoundedInduction, SequenceTheorems
------------------------------------------------------------------------------
(* The fences alone, for every range of numbers and every number of         *)
(* submissions.                                                             *)

(* A submission's number lies between the scratch register s, which it is   *)
(* ahead of, and the next number n, which a fenced one has used up; n can   *)
(* be the skipped zero.                                                     *)
Covers(s, n, c) ==
  /\ c.cover # 0
  /\ 1 <= Ahead(c.cover, s) /\ Ahead(c.cover, s) <= Ahead(Sequence(n), s)
  /\ c.fenced => Ahead(c.cover, s) < Ahead(n, s)

(* Numbers do not fall along the flight, and rise behind a fenced one.      *)
Rises(s, c, d) ==
  /\ Ahead(c.cover, s) <= Ahead(d.cover, s)
  /\ c.fenced => Ahead(c.cover, s) < Ahead(d.cover, s)

IsLast(f, m) ==
  /\ m \in 1 .. Len(f) /\ f[m].fenced
  /\ \A j \in 1 .. Len(f) : f[j].fenced => j <= m

(* The next number is at most half the range ahead, also when it becomes 1. *)
InReach(s, n) == /\ 1 <= Ahead(n, s) /\ Ahead(n, s) <= Half
                 /\ n = 0 => Ahead(n, s) < Half

Ordered(s, n, p, f) ==
  /\ InReach(s, n)
  /\ \A i \in 1 .. Len(f) : Covers(s, n, f[i])
  /\ \A i, j \in 1 .. Len(f) : i < j => Rises(s, f[i], f[j])
  /\ p # 0 => Ahead(p, s) < Ahead(n, s)
  /\ (\E i \in 1 .. Len(f) : f[i].fenced) => \E m \in 1 .. Len(f) : IsLast(f, m) /\ p = f[m].cover

IInv ==
  /\ ready \in BOOLEAN
  /\ nextFence \in Number /\ pendingFence \in Number /\ scratch \in Number
  /\ IF ready THEN flight \in Seq(Submission) /\ Ordered(scratch, nextFence, pendingFence, flight)
              ELSE pendingFence = 0
------------------------------------------------------------------------------
(* 32-bit differences.                                                      *)
LEMMA Halves ==
  /\ Half \in Nat /\ Modulus \in Nat /\ Modulus = 2 * Half /\ MaxAhead \in Nat
  /\ Modulus - TestAfter + 1 <= MaxAhead /\ MaxAhead + 1 < Half
  /\ TestAfter \in Number /\ TestBefore \in Number /\ TestAfter >= Half /\ 3 < Half
<1>1. /\ Modulus \in Nat /\ Modulus = 2 * Half /\ MaxAhead \in Nat
      /\ Modulus - TestAfter + 1 <= MaxAhead /\ MaxAhead + 1 < Half
      /\ TestAfter \in Half .. Modulus - 1 /\ TestBefore \in Half .. Modulus - 1
  BY FenceAssumption
<1>2. Half \in Nat
  BY <1>1 DEF Half
<1>3. QED
  BY <1>1, <1>2 DEF Number

LEMMA AheadTyped ==
  ASSUME NEW a \in Number, NEW b \in Number
  PROVE  Ahead(a, b) \in Number
BY Halves DEF Ahead, Number

(* What is ahead of s is ahead of what lies between by the difference.      *)
LEMMA AheadShifts ==
  ASSUME NEW a \in Number, NEW c \in Number, NEW s \in Number, Ahead(c, s) <= Ahead(a, s)
  PROVE  Ahead(a, c) = Ahead(a, s) - Ahead(c, s)
BY Halves DEF Ahead, Number

LEMMA AheadNotReached ==
  ASSUME NEW a \in Number, NEW s \in Number, 1 <= Ahead(a, s), Ahead(a, s) <= Half
  PROVE  ~CpFenceReached(s, a)
BY Halves DEF Ahead, Number, CpFenceReached

LEMMA SequenceAhead ==
  ASSUME NEW n \in Number, NEW s \in Number, InReach(s, n)
  PROVE  /\ Sequence(n) \in Number /\ Sequence(n) # 0
         /\ Ahead(n, s) <= Ahead(Sequence(n), s) /\ Ahead(Sequence(n), s) <= Half
BY Halves DEF InReach, Ahead, Number, Sequence

(* Taking a number within the bound.                                        *)
LEMMA TakeAhead ==
  ASSUME NEW n \in Number, NEW s \in Number, InReach(s, n), Ahead(n, s) <= MaxAhead,
         NEW q, q = Sequence(n), NEW m, m = Following(q)
  PROVE  /\ q \in Number /\ q # 0 /\ m \in Number /\ InReach(s, m)
         /\ Ahead(n, s) <= Ahead(q, s) /\ Ahead(m, s) = Ahead(q, s) + 1
         /\ Ahead(m, s) <= Ahead(Sequence(m), s)
<1>1. /\ q \in Number /\ q # 0 /\ Ahead(n, s) <= Ahead(q, s) /\ Ahead(q, s) <= Ahead(n, s) + 1
      /\ (n # 0 => q = n)
  BY Halves DEF InReach, Ahead, Number, Sequence
<1>2. /\ m \in Number /\ Ahead(m, s) = Ahead(q, s) + 1
  BY <1>1, Halves DEF Ahead, Number, Following
<1>3. InReach(s, m)
  <2>1. m = 0 => n # 0
    BY Halves DEF Following, Sequence, Number
  <2>2. Ahead(n, s) \in Number /\ Ahead(q, s) \in Number
    BY <1>1, AheadTyped
  <2>3. QED
    BY <1>1, <1>2, <2>1, <2>2, Halves DEF InReach, Number
<1>4. QED
  BY <1>1, <1>2, <1>3, SequenceAhead
------------------------------------------------------------------------------
LEMMA CoverTyped ==
  ASSUME NEW s \in Number, NEW f \in Seq(Submission), NEW i \in 1 .. Len(f)
  PROVE  f[i] \in Submission /\ f[i].cover \in Number /\ Ahead(f[i].cover, s) \in Int
<1>1. f[i] \in Submission
  BY ElementOfSeq
<1>2. f[i].cover \in Number
  BY <1>1 DEF Submission
<1>3. Ahead(f[i].cover, s) \in Number
  BY <1>2, AheadTyped
<1>4. QED
  BY <1>1, <1>2, <1>3 DEF Number

(* The flight after a submission, and after one is done.                    *)
LEMMA AppendOrdered ==
  ASSUME NEW s \in Number, NEW n \in Number, NEW p \in Number, NEW f \in Seq(Submission),
         Ordered(s, n, p, f), Ahead(n, s) <= MaxAhead,
         NEW q, q = Sequence(n), NEW m, m = Following(q),
         NEW c, c = [cover |-> q, fenced |-> TRUE, at |-> "ring"],
         NEW g, g = Append(f, c)
  PROVE  g \in Seq(Submission) /\ Ordered(s, m, q, g)
<1> DEFINE k == Len(f)
<1>1. /\ q \in Number /\ q # 0 /\ m \in Number /\ InReach(s, m)
      /\ Ahead(n, s) <= Ahead(q, s) /\ Ahead(m, s) = Ahead(q, s) + 1
      /\ Ahead(m, s) <= Ahead(Sequence(m), s)
  BY TakeAhead DEF Ordered
<1>2. c \in Submission /\ c.cover = q /\ c.fenced = TRUE
  BY <1>1 DEF Submission
<1>3. /\ g \in Seq(Submission) /\ Len(g) = k + 1 /\ k \in Nat
      /\ g[k + 1] = c /\ \A i \in 1 .. k : g[i] = f[i]
  BY <1>2
<1> HIDE DEF k
<1>4. /\ Ahead(n, s) \in Int /\ Ahead(q, s) \in Int /\ Ahead(m, s) \in Int /\ Ahead(Sequence(m), s) \in Int
      /\ 1 <= Ahead(n, s)
  <2>1. Sequence(m) \in Number
    BY <1>1, SequenceAhead
  <2>2. /\ Ahead(n, s) \in Number /\ Ahead(q, s) \in Number /\ Ahead(m, s) \in Number
        /\ Ahead(Sequence(m), s) \in Number
    BY <1>1, <2>1, AheadTyped
  <2>3. QED
    BY <2>2 DEF Number, Ordered, InReach
<1>5. \A i \in 1 .. k : Covers(s, n, f[i]) /\ Ahead(f[i].cover, s) \in Int
  BY CoverTyped DEF Ordered, k
<1>6. \A i \in 1 .. k : Covers(s, m, f[i]) /\ Rises(s, f[i], c)
  BY <1>1, <1>2, <1>4, <1>5 DEF Covers, Rises
<1>7. Covers(s, m, c)
  BY <1>1, <1>2, <1>4 DEF Covers
<1>8. \A i \in 1 .. Len(g) : Covers(s, m, g[i])
  BY <1>3, <1>6, <1>7
<1>9. \A i, j \in 1 .. Len(g) : i < j => Rises(s, g[i], g[j])
  <2> SUFFICES ASSUME NEW i \in 1 .. Len(g), NEW j \in 1 .. Len(g), i < j PROVE Rises(s, g[i], g[j])
    OBVIOUS
  <2>1. i \in 1 .. k
    BY <1>3
  <2>2. CASE j = k + 1
    BY <2>1, <2>2, <1>3, <1>6
  <2>3. CASE j \in 1 .. k
    BY <2>1, <2>3, <1>3 DEF Ordered, k
  <2>4. QED
    BY <1>3, <2>2, <2>3
<1>10. k + 1 \in 1 .. Len(g) /\ IsLast(g, k + 1) /\ q = g[k + 1].cover
  BY <1>2, <1>3 DEF IsLast
<1>11. Ahead(q, s) < Ahead(m, s)
  BY <1>1, <1>4
<1>12. QED
  BY <1>1, <1>3, <1>8, <1>9, <1>10, <1>11 DEF Ordered

LEMMA AppendUnfencedOrdered ==
  ASSUME NEW s \in Number, NEW n \in Number, NEW p \in Number, NEW f \in Seq(Submission),
         Ordered(s, n, p, f),
         NEW c, c = [cover |-> Sequence(n), fenced |-> FALSE, at |-> "ring"],
         NEW g, g = Append(f, c)
  PROVE  g \in Seq(Submission) /\ Ordered(s, n, p, g)
<1> DEFINE k == Len(f)
           q == Sequence(n)
<1>1. /\ q \in Number /\ q # 0 /\ Ahead(n, s) <= Ahead(q, s) /\ InReach(s, n)
  BY SequenceAhead DEF Ordered
<1>2. c \in Submission /\ c.cover = q /\ c.fenced = FALSE
  BY <1>1 DEF Submission
<1>3. /\ g \in Seq(Submission) /\ Len(g) = k + 1 /\ k \in Nat
      /\ g[k + 1] = c /\ \A i \in 1 .. k : g[i] = f[i]
  BY <1>2
<1>4. Ahead(n, s) \in Int /\ Ahead(q, s) \in Int /\ 1 <= Ahead(n, s)
  BY <1>1, AheadTyped, SMTT(60) DEF Number, InReach
<1>5. \A i \in 1 .. k : Covers(s, n, f[i]) /\ Ahead(f[i].cover, s) \in Int
  BY CoverTyped DEF Ordered
<1>6. Sequence(n) = q
  OBVIOUS
<1> HIDE DEF k, q
<1>7. \A i \in 1 .. k : Rises(s, f[i], c)
  BY <1>1, <1>2, <1>4, <1>5, <1>6 DEF Covers, Rises
<1>8. Covers(s, n, c)
  BY <1>1, <1>2, <1>4, <1>6 DEF Covers
<1>9. \A i \in 1 .. Len(g) : Covers(s, n, g[i])
  BY <1>3, <1>5, <1>8
<1>10. \A i, j \in 1 .. Len(g) : i < j => Rises(s, g[i], g[j])
  <2> SUFFICES ASSUME NEW i \in 1 .. Len(g), NEW j \in 1 .. Len(g), i < j PROVE Rises(s, g[i], g[j])
    OBVIOUS
  <2>1. i \in 1 .. k
    BY <1>3
  <2>2. CASE j = k + 1
    BY <2>1, <2>2, <1>3, <1>7
  <2>3. CASE j \in 1 .. k
    BY <2>1, <2>3, <1>3 DEF Ordered, k
  <2>4. QED
    BY <1>3, <2>2, <2>3
<1>11. ASSUME NEW i \in 1 .. Len(g), g[i].fenced
       PROVE  \E m \in 1 .. Len(g) : IsLast(g, m) /\ p = g[m].cover
  <2>1. i \in 1 .. k /\ f[i].fenced
    BY <1>2, <1>3, <1>11
  <2>2. PICK m \in 1 .. k : IsLast(f, m) /\ p = f[m].cover
    BY <2>1 DEF Ordered, k
  <2>3. IsLast(g, m) /\ p = g[m].cover /\ m \in 1 .. Len(g)
    BY <2>2, <1>2, <1>3, SMTT(60) DEF IsLast, k
  <2>4. QED
    BY <2>3
<1>12. QED
  BY <1>3, <1>9, <1>10, <1>11 DEF Ordered

(* The flight without its i-th submission.                                  *)
Removed(f, i) == SubSeq(f, 1, i - 1) \o SubSeq(f, i + 1, Len(f))
Skip(i, k) == IF k < i THEN k ELSE k + 1

LEMMA RemoveElement ==
  ASSUME NEW f \in Seq(Submission), NEW i \in 1 .. Len(f),
         NEW g, g = Removed(f, i)
  PROVE  /\ g \in Seq(Submission) /\ Len(g) = Len(f) - 1
         /\ \A k \in 1 .. Len(g) : g[k] = f[Skip(i, k)]
<1> DEFINE a == SubSeq(f, 1, i - 1)
           b == SubSeq(f, i + 1, Len(f))
<1>1. /\ a \in Seq(Submission) /\ Len(a) = i - 1
      /\ \A k \in 1 .. i - 1 : a[k] = f[k]
  BY SubSeqProperties
<1>2. /\ b \in Seq(Submission) /\ Len(b) = Len(f) - i
      /\ \A k \in 1 .. Len(f) - i : b[k] = f[k + i]
  <2>1. CASE i < Len(f)
    BY <2>1, SubSeqProperties
  <2>2. CASE i = Len(f)
    BY <2>2, SubSeqProperties
  <2>3. QED
    BY <2>1, <2>2
<1> HIDE DEF a, b
<1>3. g = a \o b
  BY DEF a, b, Removed
<1>4. Len(f) \in Nat /\ i \in Int /\ Len(a) \in Nat /\ Len(b) \in Nat
  BY <1>1, <1>2
<1>5. g \in Seq(Submission) /\ Len(g) = Len(a) + Len(b)
  BY <1>1, <1>2, <1>3, ConcatProperties, ZenonT(60)
<1>6. \A k \in 1 .. Len(a) + Len(b) : g[k] = IF k <= Len(a) THEN a[k] ELSE b[k - Len(a)]
  <2>1. a \in Seq(Submission) /\ b \in Seq(Submission)
    BY <1>1, <1>2
  <2>2. \A k \in 1 .. Len(a) + Len(b) : (a \o b)[k] = IF k <= Len(a) THEN a[k] ELSE b[k - Len(a)]
    BY <2>1, ConcatProperties, Zenon
  <2>3. QED
    BY <2>2, <1>3, Zenon
<1>7. ASSUME NEW k \in 1 .. Len(g)
      PROVE  g[k] = f[Skip(i, k)]
  <2>1. CASE k < i
    <3>1. k <= Len(a) /\ k \in 1 .. i - 1
      BY <2>1, <1>1, <1>4
    <3>2. g[k] = f[k] /\ Skip(i, k) = k
      BY <2>1, <3>1, <1>1, <1>4, <1>5, <1>6 DEF Skip
    <3>3. QED
      BY <3>2, Zenon
  <2>2. CASE i <= k
    <3>1. k - (i - 1) \in 1 .. Len(f) - i /\ ~(k <= Len(a)) /\ k - Len(a) = k - (i - 1)
          /\ k \in 1 .. Len(a) + Len(b)
      <4> DEFINE x == Len(a)
                 y == Len(b)
                 z == Len(f)
      <4>1. /\ x \in Nat /\ y \in Nat /\ z \in Nat /\ x = i - 1 /\ y = z - i /\ i \in Int
            /\ k \in 1 .. x + y
        BY <1>1, <1>2, <1>4, <1>5
      <4> HIDE DEF x, y, z
      <4>2. k - (i - 1) \in 1 .. z - i /\ ~(k <= x) /\ k - x = k - (i - 1)
        BY <4>1, <2>2
      <4>3. QED
        BY <4>1, <4>2 DEF x, y, z
    <3>2. g[k] = b[k - (i - 1)]
      BY <3>1, <1>5, <1>6
    <3>3. b[k - (i - 1)] = f[(k - (i - 1)) + i] /\ (k - (i - 1)) + i = k + 1
      BY <3>1, <1>2, <1>4
    <3>4. Skip(i, k) = k + 1
      BY <2>2, <1>4 DEF Skip
    <3>5. QED
      BY <3>2, <3>3, <3>4, Zenon
  <2>3. QED
    BY <2>1, <2>2, <1>4, <1>5
<1>8. QED
  BY <1>1, <1>2, <1>4, <1>5, <1>7

LEMMA DoneOrdered ==
  ASSUME NEW s \in Number, NEW n \in Number, NEW p \in Number, NEW f \in Seq(Submission),
         Ordered(s, n, p, f), NEW i \in 1 .. Len(f), ~f[i].fenced,
         NEW g, g = Removed(f, i)
  PROVE  g \in Seq(Submission) /\ Ordered(s, n, p, g)
<1>1. /\ g \in Seq(Submission) /\ Len(g) = Len(f) - 1 /\ Len(f) \in Nat /\ i \in Int
      /\ \A k \in 1 .. Len(g) : g[k] = f[Skip(i, k)]
  BY RemoveElement
<1>2. /\ \A k \in 1 .. Len(g) : Skip(i, k) \in 1 .. Len(f)
      /\ \A j, k \in 1 .. Len(g) : j < k => Skip(i, j) < Skip(i, k)
      /\ \A j, k \in 1 .. Len(g) : Skip(i, j) <= Skip(i, k) => j <= k
      /\ \A m \in 1 .. Len(f) : m # i => \E l \in 1 .. Len(g) : Skip(i, l) = m
  <2>1. \A k \in 1 .. Len(g) : Skip(i, k) \in 1 .. Len(f)
    BY <1>1 DEF Skip
  <2>2. /\ \A j, k \in 1 .. Len(g) : j < k => Skip(i, j) < Skip(i, k)
        /\ \A j, k \in 1 .. Len(g) : Skip(i, j) <= Skip(i, k) => j <= k
    BY <1>1 DEF Skip
  <2>3. ASSUME NEW m \in 1 .. Len(f), m # i PROVE \E l \in 1 .. Len(g) : Skip(i, l) = m
    <3>1. CASE m < i
      <4>1. m \in 1 .. Len(g) /\ Skip(i, m) = m
        BY <3>1, <1>1 DEF Skip
      <4>2. QED
        BY <4>1
    <3>2. CASE m > i
      <4>1. m - 1 \in 1 .. Len(g) /\ Skip(i, m - 1) = m
        BY <3>2, <1>1 DEF Skip
      <4>2. QED
        BY <4>1
    <3>3. QED
      BY <2>3, <3>1, <3>2
  <2>4. QED
    BY <2>1, <2>2, <2>3
<1>3. \A k \in 1 .. Len(g) : Covers(s, n, g[k])
  BY <1>1, <1>2 DEF Ordered
<1>4. \A j, k \in 1 .. Len(g) : j < k => Rises(s, g[j], g[k])
  BY <1>1, <1>2 DEF Ordered
<1>5. ASSUME NEW k \in 1 .. Len(g), g[k].fenced
      PROVE  \E m \in 1 .. Len(g) : IsLast(g, m) /\ p = g[m].cover
  <2>1. PICK m \in 1 .. Len(f) : IsLast(f, m) /\ p = f[m].cover
    BY <1>1, <1>2, <1>5 DEF Ordered
  <2>2. m # i
    BY <2>1 DEF IsLast
  <2>3. PICK l \in 1 .. Len(g) : Skip(i, l) = m
    BY <2>2, <1>2
  <2>4. ASSUME NEW j \in 1 .. Len(g), g[j].fenced PROVE j <= l
    <3>1. Skip(i, j) <= Skip(i, l)
      BY <1>1, <1>2, <2>1, <2>3, <2>4 DEF IsLast
    <3>2. QED
      BY <3>1, <1>2
  <2>5. IsLast(g, l) /\ p = g[l].cover
    BY <1>1, <2>1, <2>3, <2>4 DEF IsLast
  <2>6. QED
    BY <2>5
<1>6. QED
  BY <1>1, <1>3, <1>4, <1>5 DEF Ordered

(* The number of the first submission reaches the scratch register.         *)
LEMMA TailOrdered ==
  ASSUME NEW s \in Number, NEW n \in Number, NEW p \in Number, NEW f \in Seq(Submission),
         Ordered(s, n, p, f), 1 \in 1 .. Len(f), f[1].fenced,
         NEW t, t = f[1].cover,
         NEW g, g = Removed(f, 1)
  PROVE  t \in Number /\ g \in Seq(Submission) /\ Ordered(t, n, p, g)
<1> DEFINE d == Ahead(t, s)
<1>1. /\ g \in Seq(Submission) /\ Len(g) = Len(f) - 1 /\ Len(f) \in Nat
      /\ \A k \in 1 .. Len(g) : g[k] = f[k + 1] /\ k + 1 \in 1 .. Len(f)
  <2>1. /\ g \in Seq(Submission) /\ Len(g) = Len(f) - 1 /\ Len(f) \in Nat
        /\ \A k \in 1 .. Len(g) : g[k] = f[Skip(1, k)]
    BY RemoveElement
  <2>2. \A k \in 1 .. Len(g) : Skip(1, k) = k + 1 /\ k + 1 \in 1 .. Len(f)
    BY <2>1 DEF Skip
  <2>3. QED
    BY <2>1, <2>2
<1>2. t \in Number /\ d \in Int
  BY CoverTyped
<1>3. Covers(s, n, f[1]) /\ 1 <= d /\ d < Ahead(n, s)
  BY DEF Ordered, Covers
<1>4. /\ InReach(s, n) /\ Sequence(n) \in Number
      /\ Ahead(n, s) <= Ahead(Sequence(n), s)
      /\ Ahead(n, s) \in Int /\ Ahead(Sequence(n), s) \in Int
  <2>1. InReach(s, n)
    BY DEF Ordered
  <2>2. Sequence(n) \in Number /\ Ahead(n, s) <= Ahead(Sequence(n), s)
    BY <2>1, SequenceAhead
  <2>3. Ahead(n, s) \in Number /\ Ahead(Sequence(n), s) \in Number
    BY <2>2, AheadTyped
  <2>4. QED
    BY <2>1, <2>2, <2>3 DEF Number
<1>5. \A a \in Number : d <= Ahead(a, s) => Ahead(a, t) = Ahead(a, s) - d
  BY <1>2, AheadShifts
<1>6. \A k \in 1 .. Len(g) :
        /\ g[k].cover \in Number /\ Ahead(g[k].cover, s) \in Int
        /\ Covers(s, n, g[k]) /\ d < Ahead(g[k].cover, s)
  <2> SUFFICES ASSUME NEW k \in 1 .. Len(g)
               PROVE  /\ g[k].cover \in Number /\ Ahead(g[k].cover, s) \in Int
                      /\ Covers(s, n, g[k]) /\ d < Ahead(g[k].cover, s)
    OBVIOUS
  <2>1. g[k] = f[k + 1] /\ k + 1 \in 1 .. Len(f) /\ 1 < k + 1
    BY <1>1
  <2>2. Rises(s, f[1], f[k + 1]) /\ Covers(s, n, f[k + 1])
    BY <2>1 DEF Ordered
  <2>3. f[k + 1].cover \in Number /\ Ahead(f[k + 1].cover, s) \in Int
    BY <2>1, CoverTyped
  <2>4. QED
    BY <2>1, <2>2, <2>3 DEF Rises
<1> HIDE DEF d
<1>7. InReach(t, n) /\ Ahead(n, t) = Ahead(n, s) - d
      /\ Ahead(Sequence(n), t) = Ahead(Sequence(n), s) - d
  <2>1. Ahead(n, t) = Ahead(n, s) - d
    BY <1>2, <1>3, <1>4, <1>5
  <2>2. Ahead(Sequence(n), t) = Ahead(Sequence(n), s) - d
    BY <1>2, <1>3, <1>4, <1>5
  <2>3. QED
    BY <2>1, <2>2, <1>2, <1>3, <1>4, Halves DEF InReach
<1>8. \A k \in 1 .. Len(g) : Ahead(g[k].cover, t) = Ahead(g[k].cover, s) - d
  BY <1>2, <1>5, <1>6
<1>9. \A k \in 1 .. Len(g) : Covers(t, n, g[k])
  BY <1>2, <1>4, <1>6, <1>7, <1>8, SMTT(60) DEF Covers
<1>10. \A j, k \in 1 .. Len(g) : j < k => Rises(t, g[j], g[k])
  <2> SUFFICES ASSUME NEW j \in 1 .. Len(g), NEW k \in 1 .. Len(g), j < k PROVE Rises(t, g[j], g[k])
    OBVIOUS
  <2>1. Rises(s, g[j], g[k])
    BY <1>1 DEF Ordered
  <2>2. QED
    BY <2>1, <1>2, <1>6, <1>8, SMTT(60) DEF Rises
<1>11. p # 0 => Ahead(p, t) < Ahead(n, t)
  <2> SUFFICES ASSUME p # 0 PROVE Ahead(p, t) < Ahead(n, t)
    OBVIOUS
  <2>1. PICK m \in 1 .. Len(f) : IsLast(f, m) /\ p = f[m].cover
    BY DEF Ordered
  <2>2. CASE m = 1
    <3>1. Ahead(p, t) = 0
      BY <2>1, <2>2, <1>2 DEF Ahead, Number
    <3>2. QED
      BY <3>1, <1>2, <1>3, <1>4, <1>7
  <2>3. CASE m # 1
    <3>1. m - 1 \in 1 .. Len(g) /\ g[m - 1] = f[m]
      BY <2>3, <1>1
    <3>2. Ahead(p, t) = Ahead(p, s) - d /\ Ahead(p, s) \in Int
      BY <3>1, <2>1, <1>6, <1>8
    <3>3. Ahead(p, s) < Ahead(n, s)
      BY DEF Ordered
    <3>4. QED
      BY <3>2, <3>3, <1>2, <1>4, <1>7
  <2>4. QED
    BY <2>2, <2>3
<1>12. ASSUME NEW k \in 1 .. Len(g), g[k].fenced
       PROVE  \E m \in 1 .. Len(g) : IsLast(g, m) /\ p = g[m].cover
  <2>1. PICK m \in 1 .. Len(f) : IsLast(f, m) /\ p = f[m].cover
    BY DEF Ordered
  <2>2. k + 1 <= m
    BY <1>1, <1>12, <2>1 DEF IsLast
  <2>3. m - 1 \in 1 .. Len(g) /\ g[m - 1] = f[m]
    BY <1>1, <2>2
  <2>4. \A j \in 1 .. Len(g) : g[j].fenced => j <= m - 1
    BY <1>1, <2>1 DEF IsLast
  <2>5. IsLast(g, m - 1) /\ p = g[m - 1].cover
    BY <2>1, <2>3, <2>4 DEF IsLast
  <2>6. QED
    BY <2>3, <2>5
<1>13. QED
  BY <1>1, <1>2, <1>7, <1>9, <1>10, <1>11, <1>12 DEF Ordered

(* A submission that is fetched keeps its number.                           *)
Alike(c, d) == c.cover = d.cover /\ c.fenced = d.fenced

LEMMA AlikeKeeps ==
  ASSUME NEW s, NEW n, NEW c, NEW d, Alike(c, d)
  PROVE  /\ Covers(s, n, d) => Covers(s, n, c)
         /\ c.fenced => d.fenced
         /\ d.fenced => c.fenced
         /\ \A p : p = d.cover => p = c.cover
BY DEF Alike, Covers

LEMMA AlikeBefore ==
  ASSUME NEW s, NEW c, NEW d, Alike(c, d), NEW c2, NEW d2, Alike(c2, d2), Rises(s, d, d2)
  PROVE  Rises(s, c, c2)
BY DEF Alike, Rises

LEMMA FetchOrdered ==
  ASSUME NEW s \in Number, NEW n \in Number, NEW p \in Number, NEW f \in Seq(Submission),
         Ordered(s, n, p, f), NEW i \in 1 .. Len(f),
         NEW g, g = [f EXCEPT ![i].at = "engine"]
  PROVE  g \in Seq(Submission) /\ Ordered(s, n, p, g)
<1>1. \A k \in 1 .. Len(f) : f[k] \in Submission
  BY ElementOfSeq
<1>2. DOMAIN f = 1 .. Len(f) /\ Len(f) \in Nat /\ DOMAIN g = 1 .. Len(f)
  OBVIOUS
<1>3. ASSUME NEW k \in 1 .. Len(f) PROVE g[k] \in Submission /\ Alike(g[k], f[k])
  <2>1. f[k] \in Submission
    BY <1>1
  <2>2. g[k] = IF k = i THEN [f[k] EXCEPT !.at = "engine"] ELSE f[k]
    BY <1>2
  <2>3. QED
    BY <2>1, <2>2 DEF Submission, Alike
<1>4. Len(g) = Len(f)
  BY <1>2
<1>5. g \in Seq(Submission)
  <2>1. g \in [1 .. Len(f) -> Submission]
    BY <1>2, <1>3
  <2>2. QED
    BY <1>2, <2>1, SeqDef
<1>6. /\ InReach(s, n) /\ (p # 0 => Ahead(p, s) < Ahead(n, s))
      /\ \A k \in 1 .. Len(g) : Covers(s, n, g[k])
  BY <1>3, <1>4, AlikeKeeps DEF Ordered
<1>7. \A j, k \in 1 .. Len(g) : j < k => Rises(s, g[j], g[k])
  BY <1>3, <1>4, AlikeBefore DEF Ordered
<1>8. ASSUME NEW k \in 1 .. Len(g), g[k].fenced
      PROVE  \E m \in 1 .. Len(g) : IsLast(g, m) /\ p = g[m].cover
  <2>1. f[k].fenced
    BY <1>3, <1>4, <1>8, AlikeKeeps
  <2>2. PICK m \in 1 .. Len(f) : IsLast(f, m) /\ p = f[m].cover
    BY <1>4, <2>1 DEF Ordered
  <2>3. g[m].fenced /\ p = g[m].cover
    BY <2>2, <1>3, AlikeKeeps DEF IsLast
  <2>4. \A j \in 1 .. Len(g) : g[j].fenced => j <= m
    BY <2>2, <1>3, <1>4, AlikeKeeps DEF IsLast
  <2>5. QED
    BY <2>3, <2>4, <1>4 DEF IsLast
<1>9. QED
  BY <1>5, <1>6, <1>7, <1>8 DEF Ordered
------------------------------------------------------------------------------
(* What else a step does to the numbers.                                    *)
LEMMA EmptyOrdered == Ordered(TestAfter, 1, 0, <<>>)
<1>1. InReach(TestAfter, 1)
  BY Halves DEF InReach, Ahead, Number
<1>2. QED
  BY <1>1 DEF Ordered

(* A number that is taken for nothing.                                      *)
LEMMA LaterOrdered ==
  ASSUME NEW s \in Number, NEW n \in Number, NEW p \in Number, NEW f \in Seq(Submission),
         Ordered(s, n, p, f), Ahead(n, s) <= MaxAhead, NEW m, m = Following(Sequence(n))
  PROVE  Ordered(s, m, p, f)
<1>1. InReach(s, n)
  BY DEF Ordered
<1>2. /\ m \in Number /\ InReach(s, m) /\ Sequence(n) \in Number
      /\ Ahead(n, s) <= Ahead(Sequence(n), s)
      /\ Ahead(m, s) = Ahead(Sequence(n), s) + 1
      /\ Ahead(m, s) <= Ahead(Sequence(m), s)
  BY <1>1, TakeAhead
<1>3. Sequence(m) \in Number
  BY <1>2, SequenceAhead
<1>4. /\ Ahead(n, s) \in Int /\ Ahead(m, s) \in Int /\ Ahead(p, s) \in Int
      /\ Ahead(Sequence(n), s) \in Int /\ Ahead(Sequence(m), s) \in Int
  <2>1. /\ Ahead(n, s) \in Number /\ Ahead(m, s) \in Number /\ Ahead(p, s) \in Number
        /\ Ahead(Sequence(n), s) \in Number /\ Ahead(Sequence(m), s) \in Number
    BY <1>2, <1>3, AheadTyped
  <2>2. QED
    BY <2>1 DEF Number
<1>5. ASSUME NEW k \in 1 .. Len(f) PROVE Covers(s, m, f[k])
  <2>1. Covers(s, n, f[k]) /\ Ahead(f[k].cover, s) \in Int
    BY CoverTyped DEF Ordered
  <2>2. QED
    BY <2>1, <1>2, <1>4 DEF Covers
<1>6. p # 0 => Ahead(p, s) < Ahead(m, s)
  BY <1>2, <1>4 DEF Ordered
<1>7. QED
  BY <1>2, <1>5, <1>6 DEF Ordered

LEMMA CoveredNotReached ==
  ASSUME NEW s \in Number, NEW n \in Number, NEW p, NEW f \in Seq(Submission),
         Ordered(s, n, p, f), NEW i \in 1 .. Len(f)
  PROVE  ~CpFenceReached(s, f[i].cover)
<1>1. Covers(s, n, f[i]) /\ InReach(s, n)
  BY DEF Ordered
<1>2. Sequence(n) \in Number /\ Ahead(Sequence(n), s) <= Half
  BY <1>1, SequenceAhead
<1>3. f[i].cover \in Number /\ Ahead(f[i].cover, s) \in Int /\ Ahead(Sequence(n), s) \in Number
  BY <1>2, CoverTyped, AheadTyped
<1>4. 1 <= Ahead(f[i].cover, s) /\ Ahead(f[i].cover, s) <= Half
  BY <1>1, <1>2, <1>3, Halves DEF Covers, Number
<1>5. QED
  BY <1>3, <1>4, AheadNotReached

(* Once the pending fence was seen, no fenced work is in flight.            *)
LEMMA SeenOrdered ==
  ASSUME NEW s \in Number, NEW n \in Number, NEW p \in Number, NEW f \in Seq(Submission),
         Ordered(s, n, p, f), CpFenceReached(s, p)
  PROVE  Ordered(s, n, 0, f)
<1>1. ~\E i \in 1 .. Len(f) : f[i].fenced
  <2> SUFFICES ASSUME NEW i \in 1 .. Len(f), f[i].fenced PROVE FALSE
    OBVIOUS
  <2>1. PICK m \in 1 .. Len(f) : p = f[m].cover
    BY DEF Ordered
  <2>2. ~CpFenceReached(s, p)
    BY <2>1, CoveredNotReached
  <2>3. QED
    BY <2>2
<1>2. QED
  BY <1>1 DEF Ordered

LEMMA FenceStarts == FenceInit => IInv
<1> SUFFICES ASSUME FenceInit PROVE IInv
  OBVIOUS
<1>1. ready = TRUE /\ nextFence = 1 /\ pendingFence = 0 /\ scratch = TestAfter /\ flight = <<>>
  BY DEF FenceInit
<1>2. nextFence \in Number /\ pendingFence \in Number /\ scratch \in Number
  BY <1>1, Halves DEF Number
<1>3. Ordered(TestAfter, 1, 0, <<>>)
  BY EmptyOrdered
<1>4. flight \in Seq(Submission)
  BY <1>1
<1>5. QED
  BY <1>1, <1>2, <1>3, <1>4 DEF IInv

(* Every step keeps the invariant.                                          *)
LEMMA FenceKeeps == IInv /\ [FenceNext]_fencevars => IInv'
<1> SUFFICES ASSUME IInv, [FenceNext]_fencevars PROVE IInv'
  OBVIOUS
<1>1. /\ ready \in BOOLEAN
      /\ nextFence \in Number /\ pendingFence \in Number /\ scratch \in Number
      /\ ready => flight \in Seq(Submission) /\ Ordered(scratch, nextFence, pendingFence, flight)
      /\ ~ready => pendingFence = 0
  BY DEF IInv
<1>2. ready /\ NumberToTake =>
        /\ Sequence(nextFence) \in Number /\ Following(Sequence(nextFence)) \in Number
        /\ InReach(scratch, Following(Sequence(nextFence)))
        /\ Ahead(nextFence, scratch) <= Ahead(Following(Sequence(nextFence)), scratch) - 1
  <2> SUFFICES ASSUME ready, NumberToTake
               PROVE  /\ Sequence(nextFence) \in Number /\ Following(Sequence(nextFence)) \in Number
                      /\ InReach(scratch, Following(Sequence(nextFence)))
                      /\ Ahead(nextFence, scratch) <= Ahead(Following(Sequence(nextFence)), scratch) - 1
    OBVIOUS
  <2>1. InReach(scratch, nextFence) /\ Ahead(nextFence, scratch) <= MaxAhead
    BY <1>1 DEF Ordered, NumberToTake
  <2>2. /\ Sequence(nextFence) \in Number /\ Following(Sequence(nextFence)) \in Number
        /\ InReach(scratch, Following(Sequence(nextFence)))
        /\ Ahead(nextFence, scratch) <= Ahead(Sequence(nextFence), scratch)
        /\ Ahead(Following(Sequence(nextFence)), scratch) = Ahead(Sequence(nextFence), scratch) + 1
    BY <2>1, <1>1, TakeAhead
  <2>3. Ahead(Sequence(nextFence), scratch) \in Number
    BY <2>2, <1>1, AheadTyped
  <2>4. QED
    BY <2>2, <2>3 DEF Number
<1>3. ASSUME RadeonCpSubmit \/ SubmitStreamFenced PROVE IInv'
  <2>1. /\ ready /\ ready' = ready /\ scratch' = scratch /\ NumberToTake
        /\ nextFence' = Following(Sequence(nextFence)) /\ pendingFence' = Sequence(nextFence)
        /\ flight' = Append1(Sequence(nextFence), TRUE)
    BY <1>3 DEF RadeonCpSubmit, SubmitStreamFenced
  <2>2. flight' \in Seq(Submission) /\ Ordered(scratch, nextFence', pendingFence', flight')
    BY <1>1, <2>1, AppendOrdered DEF Append1, NumberToTake
  <2>3. QED
    BY <1>1, <1>2, <2>1, <2>2 DEF IInv
<1>4. ASSUME SubmitStreamUnfenced PROVE IInv'
  <2>1. /\ ready /\ ready' = ready /\ scratch' = scratch
        /\ nextFence' = nextFence /\ pendingFence' = pendingFence
        /\ flight' = Append1(Sequence(nextFence), FALSE)
    BY <1>4 DEF SubmitStreamUnfenced
  <2>2. flight' \in Seq(Submission) /\ Ordered(scratch, nextFence, pendingFence, flight')
    BY <1>1, <2>1, AppendUnfencedOrdered DEF Append1
  <2>3. QED
    BY <1>1, <2>1, <2>2 DEF IInv
<1>5. ASSUME SubmitRefused PROVE IInv'
  <2>1. /\ ready /\ ready' = ready /\ scratch' = scratch /\ NumberToTake
        /\ nextFence' = Following(Sequence(nextFence)) /\ pendingFence' = pendingFence
        /\ flight' = flight
    BY <1>5 DEF SubmitRefused
  <2>2. Ordered(scratch, nextFence', pendingFence, flight)
    BY <1>1, <1>2, <2>1, LaterOrdered DEF NumberToTake
  <2>3. QED
    BY <1>1, <1>2, <2>1, <2>2 DEF IInv
<1>6. ASSUME NEW fence \in Number, RadeonCpTestFence(fence) PROVE IInv'
  <2>1. /\ ready /\ ready' = ready /\ scratch' = scratch /\ nextFence' = nextFence /\ flight' = flight
        /\ pendingFence' = IF CpFenceReached(scratch, pendingFence) THEN 0 ELSE pendingFence
    BY <1>6 DEF RadeonCpTestFence
  <2>2. CASE CpFenceReached(scratch, pendingFence)
    <3>1. Ordered(scratch, nextFence, 0, flight)
      BY <1>1, <2>1, <2>2, SeenOrdered
    <3>2. QED
      BY <1>1, <2>1, <2>2, <3>1, Halves DEF IInv, Number
  <2>3. CASE ~CpFenceReached(scratch, pendingFence)
    BY <1>1, <2>1, <2>3 DEF IInv
  <2>4. QED
    BY <2>2, <2>3
<1>7. ASSUME RadeonCpWait PROVE IInv'
  <2>1. /\ ready /\ ready' = ready /\ scratch' = scratch /\ nextFence' = nextFence /\ flight' = flight
        /\ pendingFence' = 0 /\ scratch = pendingFence /\ pendingFence # 0
    BY <1>7 DEF RadeonCpWait
  <2>2. CpFenceReached(scratch, pendingFence)
    BY <1>1, <2>1, Halves DEF CpFenceReached, Ahead, Number
  <2>3. Ordered(scratch, nextFence, 0, flight)
    BY <1>1, <2>1, <2>2, SeenOrdered
  <2>4. QED
    BY <1>1, <2>1, <2>3, Halves DEF IInv, Number
<1>8. ASSUME RadeonCpWaitDrained \/ UNCHANGED fencevars PROVE IInv'
  <2>1. /\ ready' = ready /\ nextFence' = nextFence /\ pendingFence' = pendingFence
        /\ scratch' = scratch /\ flight' = flight
    BY <1>8 DEF RadeonCpWaitDrained, fencevars
  <2>2. QED
    BY <1>1, <2>1 DEF IInv
<1>9. ASSUME RadeonCpAbort PROVE IInv'
  <2>1. /\ ready' = FALSE /\ pendingFence' = 0 /\ nextFence' = nextFence /\ scratch' = scratch
    BY <1>9 DEF RadeonCpAbort
  <2>2. pendingFence' \in Number
    BY <2>1, Halves DEF Number
  <2>3. QED
    BY <1>1, <2>1, <2>2 DEF IInv
<1>10. ASSUME RadeonCpRecover PROVE IInv'
  <2>1. /\ ready' = TRUE /\ pendingFence' = 0 /\ nextFence' = 1 /\ scratch' = TestAfter /\ flight' = <<>>
    BY <1>10 DEF RadeonCpRecover
  <2>2. nextFence' \in Number /\ pendingFence' \in Number /\ scratch' \in Number
    BY <2>1, Halves DEF Number
  <2>3. Ordered(TestAfter, 1, 0, <<>>)
    BY EmptyOrdered
  <2>4. flight' \in Seq(Submission)
    BY <2>1
  <2>5. QED
    BY <2>1, <2>2, <2>3, <2>4 DEF IInv
<1>11. ASSUME RecoverFails PROVE IInv'
  <2>1. /\ ~ready /\ ready' = ready /\ pendingFence' = 0 /\ nextFence' = nextFence
        /\ scratch' \in {scratch, TestBefore, TestAfter}
    BY <1>11 DEF RecoverFails
  <2>2. QED
    BY <1>1, <2>1, Halves DEF IInv, Number
<1>12. ASSUME NEW i \in DOMAIN flight, CpFetch(i) PROVE IInv'
  <2>1. /\ ready /\ ready' = ready /\ nextFence' = nextFence /\ pendingFence' = pendingFence
        /\ scratch' = scratch /\ flight' = [flight EXCEPT ![i].at = "engine"]
    BY <1>12 DEF CpFetch
  <2>2. i \in 1 .. Len(flight)
    BY <1>1, <2>1
  <2>3. flight' \in Seq(Submission) /\ Ordered(scratch, nextFence, pendingFence, flight')
    BY <1>1, <2>1, <2>2, FetchOrdered
  <2>4. QED
    BY <1>1, <2>1, <2>3 DEF IInv
<1>13. ASSUME NEW i \in DOMAIN flight, EngineDone(i) PROVE IInv'
  <2>1. /\ ready' = ready /\ nextFence' = nextFence /\ pendingFence' = pendingFence
        /\ scratch' = scratch /\ ~flight[i].fenced /\ flight' = Removed(flight, i)
    BY <1>13 DEF EngineDone, Without, Removed
  <2>2. CASE ready
    <3>1. i \in 1 .. Len(flight)
      BY <1>1, <2>2
    <3>2. flight' \in Seq(Submission) /\ Ordered(scratch, nextFence, pendingFence, flight')
      BY <1>1, <2>1, <2>2, <3>1, DoneOrdered
    <3>3. QED
      BY <1>1, <2>1, <2>2, <3>2 DEF IInv
  <2>3. CASE ~ready
    BY <1>1, <2>1, <2>3 DEF IInv
  <2>4. QED
    BY <2>2, <2>3
<1>14. ASSUME NEW i \in DOMAIN flight, FenceTail(i) PROVE IInv'
  <2>1. /\ ready /\ ready' = ready /\ nextFence' = nextFence /\ pendingFence' = pendingFence
        /\ i = 1 /\ flight[1].fenced /\ scratch' = flight[1].cover /\ flight' = Removed(flight, 1)
    BY <1>14 DEF FenceTail, Without, Removed
  <2>2. 1 \in 1 .. Len(flight)
    BY <1>1, <2>1
  <2>3. scratch' \in Number /\ flight' \in Seq(Submission)
        /\ Ordered(scratch', nextFence, pendingFence, flight')
    BY <1>1, <2>1, <2>2, TailOrdered
  <2>4. QED
    BY <1>1, <2>1, <2>3 DEF IInv
<1>15. QED
  BY <1>3, <1>4, <1>5, <1>6, <1>7, <1>8, <1>9, <1>10, <1>11, <1>12, <1>13, <1>14 DEF FenceNext

(* The inductive invariant of the numbers, while the command processor runs. *)
THEOREM FenceInvariant == FenceSpec => []IInv
BY FenceStarts, FenceKeeps, PTL DEF FenceSpec

LEMMA Unseen == ASSUME IInv PROVE FenceNeverEarly
<1> SUFFICES ASSUME ready, NEW i \in DOMAIN flight PROVE ~CpFenceReached(scratch, flight[i].cover)
  BY DEF FenceNeverEarly
<1>1. /\ nextFence \in Number /\ scratch \in Number /\ flight \in Seq(Submission)
      /\ Ordered(scratch, nextFence, pendingFence, flight)
  BY DEF IInv
<1>2. i \in 1 .. Len(flight)
  BY <1>1
<1>3. QED
  BY <1>1, <1>2, CoveredNotReached

LEMMA LastPending == ASSUME IInv PROVE PendingFenceIsLast
<1> SUFFICES ASSUME ready, Fenced # {}
             PROVE  /\ pendingFence # 0
                    /\ pendingFence = flight[CHOOSE i \in Fenced : \A j \in Fenced : j <= i].cover
  BY DEF PendingFenceIsLast
<1>1. flight \in Seq(Submission) /\ Ordered(scratch, nextFence, pendingFence, flight)
  BY DEF IInv
<1>2. DOMAIN flight = 1 .. Len(flight)
  BY <1>1
<1>3. PICK m \in 1 .. Len(flight) : IsLast(flight, m) /\ pendingFence = flight[m].cover
  BY <1>1, <1>2 DEF Fenced, Ordered
<1>4. m \in Fenced /\ \A j \in Fenced : j <= m
  BY <1>2, <1>3 DEF IsLast, Fenced
<1> DEFINE c == CHOOSE i \in Fenced : \A j \in Fenced : j <= i
<1>5. c \in Fenced /\ \A j \in Fenced : j <= c
  BY <1>4, Zenon
<1>6. c = m
  <2> HIDE DEF c
  <2>1. c <= m /\ m <= c /\ c \in 1 .. Len(flight) /\ m \in 1 .. Len(flight)
    BY <1>2, <1>4, <1>5 DEF Fenced
  <2>2. QED
    BY <2>1
<1>7. pendingFence # 0
  BY <1>1, <1>3 DEF Ordered, Covers
<1>8. QED
  BY <1>3, <1>6, <1>7

LEMMA ExactWait == ASSUME IInv PROVE WaitSeesFence
<1> SUFFICES ASSUME pendingFence # 0
             PROVE  CpFenceReached(scratch, pendingFence) <=> scratch = pendingFence
  BY DEF WaitSeesFence
<1>1. /\ nextFence \in Number /\ scratch \in Number /\ pendingFence \in Number
      /\ InReach(scratch, nextFence) /\ Ahead(pendingFence, scratch) < Ahead(nextFence, scratch)
  BY DEF IInv, Ordered
<1>2. QED
  BY <1>1, Halves DEF InReach, CpFenceReached, Ahead, Number

(* No number counts as reached while a submission that it covers is in the  *)
(* ring or in the engines, for every range of numbers: across the skipped   *)
(* zero, the signed difference's wrap, failed commits and recoveries        *)
(* (CpFenceReached).                                                        *)
THEOREM FenceStaysUnseen == FenceSpec => []FenceNeverEarly
BY FenceInvariant, Unseen, PTL

(* The fence that is pending is the last one in flight, and is not the 0    *)
(* that means none (RadeonCpWait, RadeonCpTestFence).                       *)
THEOREM PendingStaysLast == FenceSpec => []PendingFenceIsLast
BY FenceInvariant, LastPending, PTL

(* RadeonCpWait's test for equality sees what CpFenceReached would.         *)
THEOREM WaitStaysExact == FenceSpec => []WaitSeesFence
BY FenceInvariant, ExactWait, PTL

(* Submissions in flight, also those left of an abort, and the saturating   *)
(* count.                                                                   *)
FenceBounds ==
  /\ nextFence \in Number /\ pendingUnfenced \in 0 .. UnfencedMax
  /\ flight \in Seq(Submission) /\ Len(flight) <= MaxFencesInFlight

LEMMA AppendBounded ==
  ASSUME FenceBounds, NEW fenced \in BOOLEAN, Len(flight) < MaxFencesInFlight,
         NEW g, g = Append1(Sequence(nextFence), fenced)
  PROVE  g \in Seq(Submission) /\ Len(g) <= MaxFencesInFlight
<1>1. Sequence(nextFence) \in Number
  BY Halves DEF FenceBounds, Number, Sequence
<1> DEFINE c == [cover |-> Sequence(nextFence), fenced |-> fenced, at |-> "ring"]
<1>2. c \in Submission
  BY <1>1 DEF Submission
<1>3. g = Append(flight, c)
  BY DEF Append1
<1> HIDE DEF c
<1>4. QED
  <2>1. flight \in Seq(Submission) /\ MaxFencesInFlight \in Nat
    BY FenceAssumption DEF FenceBounds
  <2>2. Append(flight, c) \in Seq(Submission) /\ Len(Append(flight, c)) = Len(flight) + 1
    BY <1>2, <2>1, AppendProperties
  <2>3. QED
    BY <1>3, <2>1, <2>2, LenProperties

LEMMA NextTyped == ASSUME nextFence \in Number PROVE Following(Sequence(nextFence)) \in Number /\ 1 \in Number
BY Halves DEF Number, Sequence, Following

LEMMA WithoutBounded ==
  ASSUME FenceBounds, NEW i \in DOMAIN flight
  PROVE  Without(i) \in Seq(Submission) /\ Len(Without(i)) <= MaxFencesInFlight
<1> DEFINE f == SubSeq(flight, 1, i - 1)
           g == SubSeq(flight, i + 1, Len(flight))
<1>1. flight \in Seq(Submission) /\ i \in 1 .. Len(flight) /\ Len(flight) \in Nat
  <2>1. flight \in Seq(Submission)
    BY DEF FenceBounds
  <2>2. QED
    BY <2>1
<1>2. f \in Seq(Submission) /\ Len(f) = i - 1
  BY <1>1, SubSeqProperties
<1>3. g \in Seq(Submission) /\ Len(g) = Len(flight) - i
  BY <1>1, SubSeqProperties
<1> HIDE DEF f, g
<1>4. f \o g \in Seq(Submission) /\ Len(f \o g) = Len(f) + Len(g)
  BY <1>2, <1>3
<1>5. Len(f \o g) <= MaxFencesInFlight
  <2>1. Len(f \o g) = Len(flight) - 1
    BY <1>1, <1>2, <1>3, <1>4
  <2>2. Len(flight) <= MaxFencesInFlight /\ MaxFencesInFlight \in Nat
    BY FenceAssumption DEF FenceBounds
  <2>3. QED
    BY <1>1, <2>1, <2>2
<1>6. QED
  BY <1>4, <1>5 DEF Without, f, g

LEMMA FenceBoundsKept == FenceBounds /\ [FenceNext]_fencevars => FenceBounds'
<1> SUFFICES ASSUME FenceBounds, [FenceNext]_fencevars PROVE FenceBounds'
  OBVIOUS
<1> USE FenceAssumption
<1>1. CASE UNCHANGED fencevars
  BY <1>1 DEF fencevars, FenceBounds
<1>2. CASE RadeonCpSubmit
  <2>1. flight' \in Seq(Submission) /\ Len(flight') <= MaxFencesInFlight
    BY <1>2, AppendBounded, Zenon DEF RadeonCpSubmit
  <2>2. QED
    BY <1>2, <2>1, NextTyped DEF RadeonCpSubmit, FenceBounds
<1>3. CASE SubmitStreamFenced
  <2>1. flight' \in Seq(Submission) /\ Len(flight') <= MaxFencesInFlight
    BY <1>3, AppendBounded, Zenon DEF SubmitStreamFenced
  <2>2. nextFence' \in Number
    BY <1>3, NextTyped DEF SubmitStreamFenced, FenceBounds
  <2>3. pendingUnfenced' \in 0 .. UnfencedMax
    BY <1>3 DEF SubmitStreamFenced
  <2>4. QED
    BY <2>1, <2>2, <2>3 DEF FenceBounds
<1>4. CASE SubmitStreamUnfenced
  <2>1. flight' \in Seq(Submission) /\ Len(flight') <= MaxFencesInFlight
    BY <1>4, AppendBounded, Zenon DEF SubmitStreamUnfenced
  <2>2. pendingUnfenced' \in 0 .. UnfencedMax
    BY <1>4 DEF SubmitStreamUnfenced, FenceBounds
  <2>3. QED
    BY <1>4, <2>1, <2>2 DEF SubmitStreamUnfenced, FenceBounds
<1>5. CASE SubmitRefused
  BY <1>5, NextTyped DEF SubmitRefused, FenceBounds
<1>6. CASE \E fence \in Number : RadeonCpTestFence(fence)
  BY <1>6 DEF RadeonCpTestFence, FenceBounds
<1>7. CASE RadeonCpWait
  BY <1>7 DEF RadeonCpWait, FenceBounds
<1>8. CASE RadeonCpWaitDrained
  BY <1>8 DEF RadeonCpWaitDrained, FenceBounds
<1>9. CASE RadeonCpAbort
  <2>1. PICK n \in 0 .. Len(flight) : flight' = [i \in 1 .. n |-> [flight[i] EXCEPT !.fenced = FALSE]]
    BY <1>9 DEF RadeonCpAbort
  <2>2. flight \in Seq(Submission) /\ Len(flight) \in Nat
    BY DEF FenceBounds
  <2>3. \A i \in 1 .. n : flight[i] \in Submission
    BY <2>2, ElementOfSeq
  <2>4. \A c \in Submission : [c EXCEPT !.fenced = FALSE] \in Submission
    BY DEF Submission
  <2>5. flight' \in [1 .. n -> Submission]
    BY <2>1, <2>3, <2>4
  <2>6. flight' \in Seq(Submission) /\ Len(flight') = n
    BY <2>5, <2>2
  <2>7. QED
    BY <1>9, <2>2, <2>6 DEF RadeonCpAbort, FenceBounds
<1>10. CASE RadeonCpRecover
  BY <1>10, NextTyped DEF RadeonCpRecover, FenceBounds
<1>11. CASE RecoverFails
  BY <1>11 DEF RecoverFails, FenceBounds
<1>12. ASSUME NEW i \in DOMAIN flight, CpFetch(i) PROVE FenceBounds'
  <2>1. flight \in Seq(Submission) /\ i \in 1 .. Len(flight)
    BY DEF FenceBounds
  <2>2. flight[i] \in Submission
    BY <2>1, ElementOfSeq
  <2> DEFINE c == [flight[i] EXCEPT !.at = "engine"]
  <2>3. c \in Submission
    BY <2>2 DEF Submission
  <2>4. flight' = [flight EXCEPT ![i] = c]
    BY <1>12 DEF CpFetch
  <2> HIDE DEF c
  <2>5. flight' \in Seq(Submission) /\ Len(flight') = Len(flight)
    BY <2>1, <2>3, <2>4
  <2>6. QED
    BY <1>12, <2>5 DEF CpFetch, FenceBounds
<1>13. ASSUME NEW i \in DOMAIN flight, EngineDone(i) PROVE FenceBounds'
  BY <1>13, WithoutBounded DEF EngineDone, FenceBounds
<1>14. ASSUME NEW i \in DOMAIN flight, FenceTail(i) PROVE FenceBounds'
  BY <1>14, WithoutBounded DEF FenceTail, FenceBounds
<1>15. QED
  BY <1>1, <1>2, <1>3, <1>4, <1>5, <1>6, <1>7, <1>8, <1>9, <1>10, <1>11, <1>12, <1>13, <1>14 DEF FenceNext

LEMMA FenceBoundsStart == FenceInit => FenceBounds
BY NextTyped, Halves, FenceAssumption DEF FenceInit, FenceBounds, Number
------------------------------------------------------------------------------
(* The surface pools.  A cell is a stretch of the pool that a session has:  *)
(* a surface of its list, or the one its task is about to list or to free.  *)
(* As long as no two tasks free entries at the same time, the cells are one *)
(* to one with the entries of the table that nobody is clearing, and the    *)
(* place a task looks at has passed all those it has compared it with       *)
(* since it was moved the last time.                                        *)

Pcs == {"closed", "open", "scan", "take", "cleanup", "find", "clear"}
Block == [at : 0 .. AuxSurfaceBytes - 1, bytes : 0 .. AuxSurfaceBytes]
Room == [at : Nat, bytes : Nat, extent : Nat]
Search == [at : Nat, bytes : Nat, entry : 1 .. MAX_AUX_SURFACES + 1, moved : BOOLEAN, quiet : BOOLEAN, extent : Nat]
Client ==
  [pc : Pcs, lastFence : 0 .. MaxFence, current : BOOLEAN, closing : BOOLEAN,
   surfaces : Seq(Room), work : Search]

Roomy(r) == r.bytes # 0 /\ r.at + r.bytes <= AuxSurfaceBytes /\ r.extent <= r.bytes

(* What holds of a session's record alone. *)
Standing(c) ==
  /\ c \in Client
  /\ \A k \in 1 .. Len(c.surfaces) : Roomy(c.surfaces[k])
  /\ c.pc \in {"scan", "take"} => c.work.bytes # 0 /\ c.work.extent <= c.work.bytes
  /\ c.pc = "scan" /\ c.work.entry > 1 /\ ~c.work.moved => Fits(c.work)
  /\ c.pc = "take" => c.work.entry = MAX_AUX_SURFACES + 1 /\ (MAX_AUX_SURFACES > 0 => Fits(c.work))
  /\ c.pc = "find" => c.work.bytes # 0
  /\ c.pc = "clear" => c.work.entry \in Entry
  /\ c.pc = "closed" => c.surfaces = <<>> /\ ~c.closing
  /\ c.closing => c.pc \in {"cleanup", "find", "clear"}
  /\ c.pc = "cleanup" => c.closing

Inside(c) == ~c.closing /\ c.pc \in {"scan", "take", "find", "clear"}
Alone(c) == \A s, t \in PoolSession : s # t /\ Inside(c[s]) => ~Inside(c[t])

Clearing(c, i) == \E s \in PoolSession : c[s].pc = "clear" /\ c[s].work.entry = i
Kept(b, c, i) == b[i].bytes # 0 /\ ~Clearing(c, i)
Claims(c) == {p \in PoolSession \X Nat :
  p[2] \in 1 .. Len(c[p[1]].surfaces) \/ (p[2] = 0 /\ c[p[1]].pc = "find")}
Claimed(c, p) == IF p[2] = 0 THEN c[p[1]].work ELSE c[p[1]].surfaces[p[2]]

Apart(c) == \A p, q \in Claims(c) : p # q => ~Intersects(Claimed(c, p), Claimed(c, q))
Listed(b, c) == \A p \in Claims(c) : \E i \in Entry : Kept(b, c, i) /\ Same(b[i], Claimed(c, p))
Owned(b, c) == \A i \in Entry : Kept(b, c, i) => \E p \in Claims(c) : Same(b[i], Claimed(c, p))
OneClears(b, c) == \A s, t \in PoolSession : c[s].pc = "clear" =>
  b[c[s].work.entry].bytes # 0 /\ (c[t].pc = "clear" => s = t)
Tidy(b, c) == \A i, j \in Entry : i # j /\ Kept(b, c, i) /\ Kept(b, c, j) => ~Intersects(b[i], b[j])
PassedBy(b, c, d) ==
  /\ d.pc = "scan" /\ ~d.work.moved =>
       \A i \in Entry : i < d.work.entry /\ Kept(b, c, i) => ~Intersects(d.work, b[i])
  /\ d.pc = "take" => \A i \in Entry : Kept(b, c, i) => ~Intersects(d.work, b[i])
Passed(b, c) == \A s \in PoolSession : PassedBy(b, c, c[s])
Held(b, c) == Apart(c) /\ Listed(b, c) /\ Owned(b, c) /\ OneClears(b, c) /\ Tidy(b, c) /\ Passed(b, c)

Seek(b, c) == c.pc = "scan" /\ c.work.quiet =>
  \A at \in Nat : at < c.work.at =>
    \E i \in Entry : b[i].bytes # 0 /\ Intersects([at |-> at, bytes |-> c.work.bytes], b[i])

Work3 == [by : PoolSession, fence : Nat, target : Room]
(* Fenced work by s is waited for by s's last fence, which is behind it. *)
Flight(f, c, n) ==
  /\ f \in Seq(Work3) /\ Len(f) <= MaxInFlight /\ n \in 0 .. MaxFence
  /\ \A i \in 1 .. Len(f) : f[i].fence <= n
  /\ \A i, j \in 1 .. Len(f) : i < j /\ f[i].fence # 0 /\ f[j].fence # 0 => f[i].fence < f[j].fence
  /\ \A i \in 1 .. Len(f) : f[i].fence # 0 =>
       LET d == c[f[i].by] IN
       /\ d.current /\ ~d.closing /\ d.pc # "closed"
       /\ \E k \in 1 .. Len(d.surfaces) : d.surfaces[k] = f[i].target
       /\ d.lastFence # 0
       /\ \E j \in i .. Len(f) : f[j].fence = d.lastFence

PoolsInv ==
  /\ blocks \in [Entry -> Block] /\ overtaken \in BOOLEAN
  /\ client \in [PoolSession -> Client]
  /\ \A s \in PoolSession : Standing(client[s])
  /\ Alone(client)
  /\ \A s \in PoolSession : Seek(blocks, client[s])
  /\ Flight(inFlight, client, fences)
  /\ ~overtaken => Held(blocks, client)

LEMMA PoolConsts ==
  /\ AUX_POOL_ALIGNMENT \in Nat /\ AUX_POOL_ALIGNMENT > 0 /\ AUX_SURFACE_PITCH_ALIGNMENT \in Nat /\ AUX_SURFACE_PITCH_ALIGNMENT > 0
  /\ AuxSurfaceBytes \in Nat /\ AuxSurfaceBytes > 0 /\ MAX_AUX_SURFACES \in Nat /\ MaxFence \in Nat /\ MaxInFlight \in Nat
BY PoolsAssumption

LEMMA NoWorkTyped == NoWork \in Search /\ ClosedSession \in Client /\ Standing(ClosedSession) /\ ~Inside(ClosedSession)
<1>1. NoWork \in Search
  BY PoolConsts DEF NoWork, Search
<1>2. <<>> \in Seq(Room) /\ Len(<<>>) = 0
  BY EmptySeq
<1>3. ClosedSession \in Client
  BY <1>1, <1>2, PoolConsts DEF ClosedSession, Client, Pcs
<1>4. QED
  BY <1>1, <1>2, <1>3 DEF ClosedSession, Standing, Inside

LEMMA Rounded ==
  ASSUME NEW n \in Nat, NEW a \in Nat \ {0}
  PROVE  AlignUp(n, a) \in Nat /\ n <= AlignUp(n, a)
<1>1. n <= ((n + a - 1) \div a) * a
  OBVIOUS
<1>2. ((n + a - 1) \div a) * a \in Nat
  <2>1. (n + a - 1) \div a \in Nat
    OBVIOUS
  <2>2. \A q \in Nat : q * a \in Nat
    OBVIOUS
  <2>3. QED
    BY <2>1, <2>2
<1>3. QED
  BY <1>1, <1>2 DEF AlignUp

(* The others do as before, and s begins nothing that it may not.           *)
LEMMA StaysAlone ==
  ASSUME PoolsInv, NEW s \in PoolSession, NEW c,
         \A t \in PoolSession : t # s /\ Inside(c[t]) => Inside(client[t]),
         Inside(c[s]) => Inside(client[s]) \/ Calls(s)
  PROVE  Alone(c)
<1> SUFFICES ASSUME NEW t \in PoolSession, NEW u \in PoolSession, t # u, Inside(c[t]), Inside(c[u]) PROVE FALSE
  BY DEF Alone
<1>0. Alone(client)
  BY DEF PoolsInv
<1>1. CASE t # s /\ u # s
  BY <1>1, <1>0 DEF Alone
<1>2. CASE t = s
  BY <1>2, <1>0 DEF Alone, Calls, Inside
<1>3. CASE u = s
  BY <1>3, <1>0 DEF Alone, Calls, Inside
<1>4. QED
  BY <1>1, <1>2, <1>3

Rest == UNCHANGED <<blocks, inFlight, fences, overtaken>>
Others(s) == \A t \in PoolSession : t # s => client'[t] = client[t]

(* The task of s goes elsewhere, with other work. *)
Moves(s, pc, w) ==
  /\ client' \in [PoolSession -> Client] /\ Others(s)
  /\ client'[s].pc = pc /\ client'[s].work = w
  /\ client'[s].lastFence = client[s].lastFence /\ client'[s].current = client[s].current
  /\ client'[s].closing = client[s].closing /\ client'[s].surfaces = client[s].surfaces

LEMMA Moving ==
  ASSUME PoolsInv, NEW s \in PoolSession, NEW pc \in Pcs, NEW w \in Search,
         client' = [client EXCEPT ![s].pc = pc, ![s].work = w]
  PROVE  Moves(s, pc, w)
<1>1. client \in [PoolSession -> Client]
  BY DEF PoolsInv
<1>2. QED
  BY <1>1 DEF Client, Others, Moves

LEMMA Working ==
  ASSUME PoolsInv, NEW s \in PoolSession, NEW w \in Search, client' = [client EXCEPT ![s].work = w]
  PROVE  Moves(s, client[s].pc, w)
<1>1. client \in [PoolSession -> Client]
  BY DEF PoolsInv
<1>2. QED
  BY <1>1 DEF Client, Others, Moves

LEMMA Going ==
  ASSUME PoolsInv, NEW s \in PoolSession, NEW pc \in Pcs, client' = [client EXCEPT ![s].pc = pc]
  PROVE  Moves(s, pc, client[s].work)
<1>1. client \in [PoolSession -> Client]
  BY DEF PoolsInv
<1>2. QED
  BY <1>1 DEF Client, Others, Moves

(* What of the claims a change of one session leaves. *)
LEMMA HeldSame ==
  ASSUME NEW b, NEW c, NEW d, Held(b, c), Passed(b, d),
         \A t \in PoolSession :
           /\ d[t].surfaces = c[t].surfaces
           /\ (d[t].pc = "find") = (c[t].pc = "find") /\ (d[t].pc = "clear") = (c[t].pc = "clear")
           /\ c[t].pc \in {"find", "clear"} => d[t].work = c[t].work
  PROVE  Held(b, d)
<1>1. \A i : Clearing(c, i) = Clearing(d, i)
  BY DEF Clearing
<1>2. \A i : Kept(b, c, i) = Kept(b, d, i)
  BY <1>1 DEF Kept
<1>3. Claims(c) = Claims(d)
  BY DEF Claims
<1>4. \A p \in Claims(c) : Claimed(c, p) = Claimed(d, p)
  BY DEF Claims, Claimed
<1>5. Apart(d)
  BY <1>3, <1>4 DEF Held, Apart
<1>6. Listed(b, d)
  BY <1>2, <1>3, <1>4 DEF Held, Listed
<1>7. Owned(b, d)
  BY <1>2, <1>3, <1>4 DEF Held, Owned
<1>8. OneClears(b, d)
  BY DEF Held, OneClears
<1>9. Tidy(b, d)
  BY <1>2 DEF Held, Tidy
<1>10. QED
  BY <1>5, <1>6, <1>7, <1>8, <1>9 DEF Held

(* Sessions with fenced work in flight keep what it needs. *)
LEMMA FlightGrows ==
  ASSUME NEW f, NEW c, NEW d, NEW n, Flight(f, c, n),
         \A t \in PoolSession : (\E i \in 1 .. Len(f) : f[i].fence # 0 /\ f[i].by = t) =>
           /\ \A k \in 1 .. Len(c[t].surfaces) : \E m \in 1 .. Len(d[t].surfaces) :
                d[t].surfaces[m] = c[t].surfaces[k]
           /\ d[t].current = c[t].current
           /\ d[t].closing = c[t].closing /\ d[t].lastFence = c[t].lastFence
           /\ c[t].pc # "closed" => d[t].pc # "closed"
  PROVE  Flight(f, d, n)
<1>1. \A i \in 1 .. Len(f) : f[i].by \in PoolSession
  <2>1. f \in Seq(Work3)
    BY DEF Flight
  <2>2. \A i \in 1 .. Len(f) : f[i] \in Work3
    BY <2>1
  <2>3. QED
    BY <2>2 DEF Work3
<1>2. \A i \in 1 .. Len(f) : f[i].fence # 0 =>
       LET e == d[f[i].by] IN
       /\ e.current /\ ~e.closing /\ e.pc # "closed"
       /\ \E k \in 1 .. Len(e.surfaces) : e.surfaces[k] = f[i].target
       /\ e.lastFence # 0
       /\ \E j \in i .. Len(f) : f[j].fence = e.lastFence
  <2> SUFFICES ASSUME NEW i \in 1 .. Len(f), f[i].fence # 0
               PROVE  LET e == d[f[i].by] IN
                      /\ e.current /\ ~e.closing /\ e.pc # "closed"
                      /\ \E k \in 1 .. Len(e.surfaces) : e.surfaces[k] = f[i].target
                      /\ e.lastFence # 0
                      /\ \E j \in i .. Len(f) : f[j].fence = e.lastFence
    OBVIOUS
  <2> DEFINE t == f[i].by
  <2>1. t \in PoolSession /\ \E h \in 1 .. Len(f) : f[h].fence # 0 /\ f[h].by = t
    BY <1>1
  <2>2. /\ c[t].current /\ ~c[t].closing /\ c[t].pc # "closed"
        /\ \E k \in 1 .. Len(c[t].surfaces) : c[t].surfaces[k] = f[i].target
        /\ c[t].lastFence # 0
        /\ \E j \in i .. Len(f) : f[j].fence = c[t].lastFence
    BY DEF Flight
  <2> HIDE DEF t
  <2>3. /\ d[t].current /\ ~d[t].closing /\ d[t].pc # "closed"
        /\ d[t].lastFence # 0
        /\ \E j \in i .. Len(f) : f[j].fence = d[t].lastFence
    BY <2>1, <2>2
  <2>4. \E m \in 1 .. Len(d[t].surfaces) : d[t].surfaces[m] = f[i].target
    <3>1. PICK k \in 1 .. Len(c[t].surfaces) : c[t].surfaces[k] = f[i].target
      BY <2>2
    <3>2. QED
      BY <2>1, <3>1
  <2>5. QED
    BY <2>3, <2>4 DEF t
<1>3. QED
  BY <1>2 DEF Flight

LEMMA FlightSame ==
  ASSUME NEW f, NEW c, NEW d, NEW n, Flight(f, c, n),
         \A t \in PoolSession :
           /\ d[t].surfaces = c[t].surfaces /\ d[t].current = c[t].current
           /\ d[t].closing = c[t].closing /\ d[t].lastFence = c[t].lastFence
           /\ c[t].pc # "closed" => d[t].pc # "closed"
  PROVE  Flight(f, d, n)
BY FlightGrows

Quiet == {"open", "scan", "take", "cleanup"}

LEMMA MovesKeeps ==
  ASSUME PoolsInv, NEW s \in PoolSession, NEW pc \in Quiet, NEW w, Moves(s, pc, w), Rest,
         client[s].pc \notin {"closed", "clear"}, ~overtaken => client[s].pc # "find",
         Standing(client'[s]), Seek(blocks, client'[s]),
         Inside(client'[s]) => Inside(client[s]) \/ Calls(s),
         ~overtaken => PassedBy(blocks, client, client'[s])
  PROVE  PoolsInv'
<1>1. client' \in [PoolSession -> Client]
  BY DEF Moves
<1>2. \A t \in PoolSession : Standing(client'[t])
  BY DEF Moves, Others, PoolsInv
<1>3. Alone(client')
  BY StaysAlone DEF Moves, Others
<1>4. \A t \in PoolSession : Seek(blocks, client'[t])
  BY DEF Moves, Others, PoolsInv
<1>5. Flight(inFlight, client', fences)
  <2>1. Flight(inFlight, client, fences)
    BY DEF PoolsInv
  <2>2. QED
    BY <2>1, FlightSame DEF Moves, Others, Quiet
<1>6. ASSUME ~overtaken PROVE Held(blocks, client')
  <2>1. Held(blocks, client)
    BY <1>6 DEF PoolsInv
  <2>2. \A t \in PoolSession :
           /\ client'[t].surfaces = client[t].surfaces
           /\ (client'[t].pc = "find") = (client[t].pc = "find") /\ (client'[t].pc = "clear") = (client[t].pc = "clear")
           /\ client[t].pc \in {"find", "clear"} => client'[t].work = client[t].work
    BY <1>6 DEF Moves, Others, Quiet
  <2>3. \A i : Clearing(client, i) = Clearing(client', i)
    BY <2>2 DEF Clearing
  <2>4. \A i : Kept(blocks, client, i) = Kept(blocks, client', i)
    BY <2>3 DEF Kept
  <2>5. Passed(blocks, client')
    <3> SUFFICES ASSUME NEW t \in PoolSession PROVE PassedBy(blocks, client', client'[t])
      BY DEF Passed
    <3>1. PassedBy(blocks, client, client'[t])
      BY <1>6, <2>1 DEF Moves, Others, Held, Passed
    <3>2. QED
      BY <3>1, <2>4 DEF PassedBy
  <2>6. QED
    BY <2>1, <2>2, <2>5, HeldSame
<1>7. QED
  BY <1>1, <1>2, <1>3, <1>4, <1>5, <1>6 DEF PoolsInv, Rest

LEMMA Pushed ==
  ASSUME NEW v \in Search, NEW n \in Nat, NEW m \in BOOLEAN
  PROVE  LET w == [v EXCEPT !.at = n, !.moved = m] IN
         w \in Search /\ w.at = n /\ w.moved = m /\ w.bytes = v.bytes /\ w.extent = v.extent
         /\ w.quiet = v.quiet /\ w.entry = v.entry
BY DEF Search

LEMMA AllocKeeps == ASSUME PoolsInv, NEW s \in PoolSession, AllocSurface(s) PROVE PoolsInv'
<1>1. PICK row \in RowBytes, height \in Heights :
       LET bytes == AlignUp(row, AUX_SURFACE_PITCH_ALIGNMENT) * height
       IN /\ bytes # 0
          /\ client' = [client EXCEPT ![s].pc = "scan",
               ![s].work = [NoWork EXCEPT !.bytes = AlignUp(bytes, AUX_POOL_ALIGNMENT),
                                          !.extent = bytes]]
  BY DEF AllocSurface
<1> DEFINE bytes == AlignUp(row, AUX_SURFACE_PITCH_ALIGNMENT) * height
           w == [NoWork EXCEPT !.bytes = AlignUp(bytes, AUX_POOL_ALIGNMENT), !.extent = bytes]
<1>2. bytes \in Nat
  <2>1. row \in Nat /\ height \in Nat
    BY PoolsAssumption
  <2>2. AlignUp(row, AUX_SURFACE_PITCH_ALIGNMENT) \in Nat
    BY <2>1, Rounded, PoolConsts
  <2>3. \A n \in Nat : n * height \in Nat
    BY <2>1
  <2>4. QED
    BY <2>2, <2>3
<1>3. bytes # 0 /\ client' = [client EXCEPT ![s].pc = "scan", ![s].work = w]
  BY <1>1
<1>4. AlignUp(bytes, AUX_POOL_ALIGNMENT) \in Nat /\ bytes <= AlignUp(bytes, AUX_POOL_ALIGNMENT)
  BY <1>2, Rounded, PoolConsts
<1> HIDE DEF bytes
<1>5. w \in Search
  BY <1>2, <1>4, NoWorkTyped DEF Search
<1>6. w.at = 0 /\ w.entry = 1 /\ w.bytes # 0 /\ w.extent <= w.bytes
  BY <1>2, <1>3, <1>4 DEF NoWork
<1> HIDE DEF w
<1>7. Moves(s, "scan", w)
  BY <1>3, <1>5, Moving DEF Pcs
<1>8. Rest /\ Calls(s) /\ client[s].pc = "open" /\ Standing(client[s])
  BY DEF AllocSurface, Calls, Rest, PoolsInv
<1>9. Standing(client'[s])
  BY <1>5, <1>6, <1>7, <1>8 DEF Moves, Standing
<1>10. Seek(blocks, client'[s])
  BY <1>6, <1>7 DEF Moves, Seek
<1>11. PassedBy(blocks, client, client'[s])
  BY <1>6, <1>7, SMTT(60) DEF Moves, PassedBy, Entry
<1>12. QED
  BY <1>7, <1>8, <1>9, <1>10, <1>11, MovesKeeps DEF Quiet

LEMMA ScanKeeps == ASSUME PoolsInv, NEW s \in PoolSession, ScanBlock(s) PROVE PoolsInv'
<1> DEFINE work == client[s].work
<1>1. /\ client[s].pc = "scan" /\ Rest /\ work \in Search /\ Standing(client[s]) /\ Inside(client[s])
      /\ work.bytes # 0 /\ work.extent <= work.bytes /\ Seek(blocks, client[s])
      /\ blocks \in [Entry -> Block] /\ client \in [PoolSession -> Client]
  BY DEF ScanBlock, Rest, PoolsInv, Standing, Client, Inside
<1>2. ~overtaken => PassedBy(blocks, client, client[s])
  BY DEF PoolsInv, Held, Passed
<1>3. CASE client' = [client EXCEPT ![s].pc = "open", ![s].work = NoWork]
  <2>1. Moves(s, "open", NoWork)
    BY <1>3, Moving, NoWorkTyped DEF Pcs
  <2>2. Standing(client'[s]) /\ Seek(blocks, client'[s]) /\ ~Inside(client'[s]) /\ PassedBy(blocks, client, client'[s])
    BY <1>1, <2>1, NoWorkTyped DEF Moves, Standing, Seek, Inside, PassedBy
  <2>3. QED
    BY <1>1, <2>1, <2>2, MovesKeeps DEF Quiet
<1>4. CASE work.entry \notin Entry /\ PassDone(work) /\ client' = [client EXCEPT ![s].pc = "take"]
  <2>1. Moves(s, "take", work)
    BY <1>4, Going DEF Pcs
  <2>2. work.entry = MAX_AUX_SURFACES + 1 /\ ~work.moved
    BY <1>1, <1>4, PoolConsts DEF Search, Entry, PassDone
  <2>3. MAX_AUX_SURFACES > 0 => Fits(work)
    BY <1>1, <2>2, PoolConsts DEF Standing
  <2>4. Standing(client'[s])
    BY <1>1, <2>1, <2>2, <2>3 DEF Moves, Standing
  <2>5. Seek(blocks, client'[s])
    BY <2>1 DEF Moves, Seek
  <2>6. ~overtaken => PassedBy(blocks, client, client'[s])
    BY <1>1, <1>2, <2>1, <2>2, PoolConsts DEF Moves, PassedBy, Entry
  <2>7. QED
    BY <1>1, <2>1, <2>4, <2>5, <2>6, MovesKeeps DEF Quiet
<1>5. CASE work.entry \notin Entry /\ ~PassDone(work) /\ client' = [client EXCEPT ![s].work.entry = 1]
  <2> DEFINE w == [work EXCEPT !.entry = 1]
  <2>1. w \in Search /\ client' = [client EXCEPT ![s].work = w]
    BY <1>1, <1>5, PoolConsts DEF Search
  <2>2. w.at = work.at /\ w.bytes = work.bytes /\ w.extent = work.extent /\ w.entry = 1 /\ w.quiet = work.quiet
    BY <1>1 DEF Search
  <2> HIDE DEF w
  <2>3. Moves(s, "scan", w)
    BY <1>1, <2>1, Working
  <2>4. Standing(client'[s])
    BY <1>1, <2>1, <2>2, <2>3 DEF Moves, Standing
  <2>5. Seek(blocks, client'[s])
    BY <1>1, <2>2, <2>3 DEF Moves, Seek
  <2>6. PassedBy(blocks, client, client'[s])
    BY <2>2, <2>3 DEF Moves, PassedBy, Entry
  <2>7. QED
    BY <1>1, <2>3, <2>4, <2>5, <2>6, MovesKeeps DEF Quiet
<1>6. CASE /\ work.entry \in Entry
           /\ work.entry = 1 => Fits(work)
           /\ LET seen == Past([work EXCEPT !.moved = (work.entry # 1 /\ @)], blocks[work.entry])
              IN client' = [client EXCEPT ![s].work = [seen EXCEPT !.entry = @ + 1]]
  <2> DEFINE e == work.entry
             cell == blocks[e]
             w0 == [work EXCEPT !.moved = (work.entry # 1 /\ @)]
             seen == Past(w0, cell)
             w == [seen EXCEPT !.entry = @ + 1]
  <2>1. cell \in Block /\ e \in 1 .. MAX_AUX_SURFACES
    BY <1>1, <1>6 DEF Entry
  <2>2. w0 \in Search /\ w0.at = work.at /\ w0.bytes = work.bytes /\ w0.extent = work.extent
        /\ w0.entry = e /\ w0.quiet = work.quiet /\ w0.moved = (e # 1 /\ work.moved)
    BY <1>1 DEF Search
  <2>3. client' = [client EXCEPT ![s].work = w]
    BY <1>6
  <2> HIDE DEF w0, cell
  <2>4. cell.at \in Nat /\ cell.bytes \in Nat /\ Intersects(w0, cell) = Intersects(work, cell)
    BY <2>1, <2>2, PoolConsts DEF Block, Intersects
  <2>5. CASE cell.bytes # 0 /\ Intersects(w0, cell)
    <3>1. seen = [w0 EXCEPT !.at = cell.at + cell.bytes, !.moved = TRUE]
      BY <2>5 DEF Past
    <3> HIDE DEF seen
    <3>9. TRUE \in BOOLEAN /\ cell.at + cell.bytes \in Nat
      BY <2>4
    <3>2. seen \in Search /\ seen.at = cell.at + cell.bytes /\ seen.bytes = work.bytes /\ seen.extent = work.extent
          /\ seen.moved /\ seen.quiet = work.quiet /\ seen.entry = e
      BY <2>2, <3>1, <3>9, Pushed, ZenonT(60)
    <3>3. w \in Search /\ w.at = cell.at + cell.bytes /\ w.bytes = work.bytes /\ w.extent = work.extent
          /\ w.moved /\ w.quiet = work.quiet /\ w.entry = e + 1
      BY <2>1, <3>2, PoolConsts DEF Search
    <3> HIDE DEF w
    <3>4. Moves(s, "scan", w)
      BY <1>1, <2>3, <3>3, Working
    <3>5. Standing(client'[s])
      BY <1>1, <3>3, <3>4 DEF Moves, Standing
    <3>6. PassedBy(blocks, client, client'[s])
      BY <3>3, <3>4 DEF Moves, PassedBy
    <3>7. Seek(blocks, client'[s])
      <4> SUFFICES ASSUME work.quiet, NEW at \in Nat, at < w.at
                   PROVE  \E i \in Entry : blocks[i].bytes # 0 /\ Intersects([at |-> at, bytes |-> w.bytes], blocks[i])
        BY <3>3, <3>4 DEF Moves, Seek
      <4>1. CASE at < work.at
        BY <1>1, <3>3, <4>1 DEF Seek
      <4>2. CASE ~(at < work.at)
        <5>1. cell.at < work.at + work.bytes /\ work.at \in Nat /\ work.bytes \in Nat
          BY <1>1, <2>4, <2>5 DEF Intersects, Search
        <5>2. at < cell.at + cell.bytes /\ cell.at < at + w.bytes
          BY <2>4, <3>3, <4>2, <5>1
        <5>3. Intersects([at |-> at, bytes |-> w.bytes], cell)
          BY <5>2 DEF Intersects
        <5>4. QED
          BY <1>6, <2>5, <5>3 DEF cell
      <4>3. QED
        BY <4>1, <4>2
    <3>8. QED
      BY <1>1, <3>4, <3>5, <3>6, <3>7, MovesKeeps DEF Quiet
  <2>6. CASE ~(cell.bytes # 0 /\ Intersects(w0, cell))
    <3>1. seen = w0
      BY <2>6 DEF Past
    <3> HIDE DEF seen
    <3>3. w \in Search /\ w.at = work.at /\ w.bytes = work.bytes /\ w.extent = work.extent
          /\ w.moved = (e # 1 /\ work.moved) /\ w.quiet = work.quiet /\ w.entry = e + 1
      BY <2>1, <2>2, <3>1, PoolConsts DEF Search
    <3> HIDE DEF w
    <3>4. Moves(s, "scan", w)
      BY <1>1, <2>3, <3>3, Working
    <3>5. ~w.moved => Fits(work)
      <4>1. CASE e = 1
        BY <1>6, <4>1
      <4>2. ASSUME e # 1, ~w.moved PROVE Fits(work)
        <5>1. ~work.moved
          BY <3>3, <4>2, Zenon
        <5>2. work.entry > 1
          BY <2>1, <4>2
        <5>3. QED
          BY <1>1, <5>1, <5>2 DEF Standing
      <4>3. QED
        BY <4>1, <4>2
    <3>6. Standing(client'[s])
      BY <1>1, <3>3, <3>4, <3>5 DEF Moves, Standing, Fits
    <3>7. ~overtaken => PassedBy(blocks, client, client'[s])
      <4> SUFFICES ASSUME ~overtaken, ~w.moved, NEW i \in Entry, i < e + 1, Kept(blocks, client, i)
                   PROVE  ~Intersects(w, blocks[i])
        BY <3>3, <3>4 DEF Moves, PassedBy
      <4>1. CASE i = e
        BY <2>4, <2>6, <3>3, <4>1 DEF Intersects, Kept, cell
      <4>2. CASE i # e
        <5>1. i < e /\ ~work.moved
          <6>1. i < e /\ e # 1
            BY <2>1, <4>2, PoolConsts DEF Entry
          <6>2. ~work.moved
            BY <3>3, <6>1, Zenon
          <6>3. QED
            BY <6>1, <6>2
        <5>2. ~Intersects(work, blocks[i])
          BY <1>1, <1>2, <5>1 DEF PassedBy
        <5>3. QED
          BY <3>3, <5>2 DEF Intersects
      <4>3. QED
        BY <4>1, <4>2
    <3>8. Seek(blocks, client'[s])
      BY <1>1, <3>3, <3>4 DEF Moves, Seek
    <3>9. QED
      BY <1>1, <3>4, <3>6, <3>7, <3>8, MovesKeeps DEF Quiet
  <2>7. QED
    BY <2>5, <2>6
<1>7. QED
  BY <1>3, <1>4, <1>5, <1>6, SMTT(60) DEF ScanBlock

LEMMA OpenKeeps == ASSUME PoolsInv, NEW s \in PoolSession, SurfaceOpen(s) PROVE PoolsInv'
<1> DEFINE d == [ClosedSession EXCEPT !.pc = "open", !.current = TRUE]
<1>1. client[s].pc = "closed" /\ client' = [client EXCEPT ![s] = d] /\ Rest
  BY DEF SurfaceOpen, Rest
<1>2. d \in Client
  <2>1. "open" \in Pcs /\ TRUE \in BOOLEAN
    BY DEF Pcs
  <2>2. QED
    BY <2>1, NoWorkTyped DEF Client
<1>3. d.pc = "open" /\ d.current /\ ~d.closing /\ d.surfaces = <<>> /\ d.work = NoWork
  BY DEF ClosedSession
<1> HIDE DEF d
<1>4. client \in [PoolSession -> Client] /\ Standing(client[s]) /\ Flight(inFlight, client, fences)
  BY DEF PoolsInv
<1>5. client' \in [PoolSession -> Client] /\ client'[s] = d /\ Others(s)
  BY <1>1, <1>2, <1>4 DEF Others
<1>6. Standing(d) /\ ~Inside(d) /\ Seek(blocks, d) /\ client[s].surfaces = <<>>
  BY <1>1, <1>2, <1>3, <1>4, EmptySeq DEF Standing, Inside, Seek
<1>7. Alone(client')
  BY <1>5, <1>6, StaysAlone DEF Others
<1>8. \A t \in PoolSession : Standing(client'[t]) /\ Seek(blocks, client'[t])
  BY <1>5, <1>6 DEF PoolsInv, Others
<1>9. Flight(inFlight, client', fences)
  <2>1. \A i \in 1 .. Len(inFlight) : inFlight[i].fence # 0 => inFlight[i].by # s
    BY <1>1, <1>4 DEF Flight
  <2>2. QED
    BY <1>4, <1>5, <2>1, FlightGrows DEF Others
<1>10. ASSUME ~overtaken PROVE Held(blocks, client')
  <2>1. Held(blocks, client)
    BY <1>10 DEF PoolsInv
  <2>2. \A t \in PoolSession :
           /\ client'[t].surfaces = client[t].surfaces
           /\ (client'[t].pc = "find") = (client[t].pc = "find") /\ (client'[t].pc = "clear") = (client[t].pc = "clear")
           /\ client[t].pc \in {"find", "clear"} => client'[t].work = client[t].work
    BY <1>1, <1>3, <1>5, <1>6 DEF Others
  <2>3. \A i : Kept(blocks, client, i) = Kept(blocks, client', i)
    BY <2>2 DEF Kept, Clearing
  <2>4. Passed(blocks, client')
    BY <1>3, <1>5, <2>1, <2>3 DEF Held, Passed, PassedBy, Others
  <2>5. QED
    BY <2>1, <2>2, <2>4, HeldSame
<1>11. QED
  BY <1>1, <1>5, <1>7, <1>8, <1>9, <1>10 DEF PoolsInv, Rest

LEMMA FinishKeeps == ASSUME PoolsInv, FinishWork PROVE PoolsInv'
<1> DEFINE f == inFlight
           g == Tail(inFlight)
<1>1. f # <<>> /\ inFlight' = g /\ UNCHANGED <<blocks, client, fences, overtaken>> /\ Flight(f, client, fences)
  BY DEF FinishWork, PoolsInv
<1>2. f \in Seq(Work3) /\ Len(f) \in Nat
  BY <1>1 DEF Flight
<1>3. g \in Seq(Work3) /\ Len(g) = Len(f) - 1 /\ \A i \in 1 .. Len(g) : g[i] = f[i + 1]
  BY <1>1, <1>2, HeadTailProperties
<1> HIDE DEF f, g
<1>4. Flight(g, client, fences)
  <2>1. Len(g) \in Nat /\ \A i \in 1 .. Len(g) : i + 1 \in 1 .. Len(f)
    BY <1>2, <1>3
  <2>2. Len(g) <= MaxInFlight /\ \A i \in 1 .. Len(g) : g[i].fence <= fences
    BY <1>1, <1>2, <1>3, <2>1, PoolConsts DEF Flight
  <2>3. \A i, j \in 1 .. Len(g) : i < j /\ g[i].fence # 0 /\ g[j].fence # 0 => g[i].fence < g[j].fence
    <3> SUFFICES ASSUME NEW i \in 1 .. Len(g), NEW j \in 1 .. Len(g), i < j, g[i].fence # 0, g[j].fence # 0
                 PROVE  g[i].fence < g[j].fence
      OBVIOUS
    <3>1. i + 1 < j + 1 /\ g[i] = f[i + 1] /\ g[j] = f[j + 1]
      BY <1>3, <2>1
    <3>2. QED
      BY <1>1, <2>1, <3>1 DEF Flight
  <2>4. ASSUME NEW i \in 1 .. Len(g), g[i].fence # 0
        PROVE  LET d == client[g[i].by] IN
               /\ d.current /\ ~d.closing /\ d.pc # "closed"
               /\ \E k \in 1 .. Len(d.surfaces) : d.surfaces[k] = g[i].target
               /\ d.lastFence # 0
               /\ \E j \in i .. Len(g) : g[j].fence = d.lastFence
    <3>1. g[i] = f[i + 1] /\ i + 1 \in 1 .. Len(f)
      BY <1>3, <2>1
    <3> DEFINE d == client[g[i].by]
    <3>2. /\ d.current /\ ~d.closing /\ d.pc # "closed"
          /\ \E k \in 1 .. Len(d.surfaces) : d.surfaces[k] = g[i].target
          /\ d.lastFence # 0
          /\ \E j \in i + 1 .. Len(f) : f[j].fence = d.lastFence
      BY <1>1, <2>4, <3>1 DEF Flight
    <3> HIDE DEF d
    <3>3. PICK j \in i + 1 .. Len(f) : f[j].fence = d.lastFence
      BY <3>2
    <3>4. j - 1 \in i .. Len(g) /\ g[j - 1] = f[j]
      BY <1>2, <1>3, <3>3, SMTT(60)
    <3>5. \E h \in i .. Len(g) : g[h].fence = d.lastFence
      BY <3>3, <3>4
    <3>6. QED
      BY <3>2, <3>5 DEF d
  <2>5. QED
    BY <1>1, <1>3, <2>2, <2>3, <2>4 DEF Flight
<1>5. QED
  BY <1>1, <1>4 DEF PoolsInv

(* Work that is added: fence-less, or with the next fence. *)
LEMMA WorkSubmitted ==
  ASSUME PoolsInv, NEW s \in PoolSession, Calls(s), client[s].current, Len(inFlight) < MaxInFlight,
         NEW fence \in Nat, NEW m \in 0 .. MaxFence, NEW surface \in ToSet(client[s].surfaces), NEW d,
         inFlight' = Append(inFlight, Work(s, fence, surface)),
         \/ fence = 0 /\ m = fences /\ d = client
         \/ fence = fences + 1 /\ m = fence /\ d = [client EXCEPT ![s] = [client[s] EXCEPT !.lastFence = fence]]
  PROVE  /\ Flight(inFlight', d, m)
         /\ d \in [PoolSession -> Client]
         /\ \A t \in PoolSession : /\ d[t].pc = client[t].pc /\ d[t].current = client[t].current
                                   /\ d[t].closing = client[t].closing /\ d[t].surfaces = client[t].surfaces
                                   /\ d[t].work = client[t].work
<1> DEFINE f == inFlight
           w == Work(s, fence, surface)
           g == inFlight'
<1>1. Flight(f, client, fences) /\ client \in [PoolSession -> Client] /\ Standing(client[s]) /\ client[s].pc = "open"
  BY DEF PoolsInv, Calls
<1>2. f \in Seq(Work3) /\ Len(f) \in Nat /\ fences \in Nat
  BY <1>1, PoolConsts DEF Flight
<1>12. \A i \in 1 .. Len(f) : f[i] \in Work3
  BY <1>2
<1>13. \A i \in 1 .. Len(f) : f[i].fence \in Nat /\ f[i].by \in PoolSession
  BY <1>12 DEF Work3
<1>3. client[s].surfaces \in Seq(Room) /\ ~client[s].closing
  BY <1>1 DEF Standing, Client
<1>4. PICK k0 \in 1 .. Len(client[s].surfaces) : client[s].surfaces[k0] = surface
  BY <1>3 DEF ToSet
<1>5. w \in Work3 /\ w.by = s /\ w.fence = fence /\ w.target = surface
  BY <1>3, <1>4 DEF Work, Work3
<1>6. g \in Seq(Work3) /\ Len(g) = Len(f) + 1 /\ (\A i \in 1 .. Len(f) : g[i] = f[i]) /\ g[Len(f) + 1] = w
  BY <1>2, <1>5, AppendProperties
<1>7. /\ d \in [PoolSession -> Client]
      /\ \A t \in PoolSession : /\ d[t].pc = client[t].pc /\ d[t].current = client[t].current
                                /\ d[t].closing = client[t].closing /\ d[t].surfaces = client[t].surfaces
                                /\ d[t].work = client[t].work
                                /\ d[t].lastFence = IF t = s /\ fence # 0 THEN fence ELSE client[t].lastFence
  <2>1. CASE fence = 0 /\ d = client
    BY <1>1, <2>1
  <2>2. CASE fence = fences + 1 /\ m = fence /\ d = [client EXCEPT ![s] = [client[s] EXCEPT !.lastFence = fence]]
    <3> DEFINE e == [client[s] EXCEPT !.lastFence = fence]
    <3>1. client[s] \in Client /\ fence \in 0 .. MaxFence /\ fence # 0
      BY <1>1, <1>2, <2>2
    <3>2. /\ e \in Client /\ e.pc = client[s].pc /\ e.current = client[s].current
          /\ e.closing = client[s].closing /\ e.surfaces = client[s].surfaces
          /\ e.work = client[s].work /\ e.lastFence = fence
      BY <3>1 DEF Client
    <3> HIDE DEF e
    <3>3. d = [client EXCEPT ![s] = e]
      BY <2>2 DEF e
    <3>4. QED
      BY <1>1, <3>1, <3>2, <3>3
  <2>3. QED
    BY <2>1, <2>2
<1> HIDE DEF f, w, g
<1>8. \A i \in 1 .. Len(g) : g[i].fence <= m
  <2>1. fences <= m /\ fence <= m
    BY <1>2
  <2>2. \A i \in 1 .. Len(f) : f[i].fence <= fences /\ f[i].fence \in Nat
    BY <1>1, <1>13 DEF Flight
  <2>3. ASSUME NEW i \in 1 .. Len(g) PROVE g[i].fence <= m
    BY <1>2, <1>5, <1>6, <2>1, <2>2, SMTT(60)
  <2>4. QED
    BY <2>3
<1>9. \A i, j \in 1 .. Len(g) : i < j /\ g[i].fence # 0 /\ g[j].fence # 0 => g[i].fence < g[j].fence
  <2> SUFFICES ASSUME NEW i \in 1 .. Len(g), NEW j \in 1 .. Len(g), i < j, g[i].fence # 0, g[j].fence # 0
               PROVE  g[i].fence < g[j].fence
    OBVIOUS
  <2>1. i \in 1 .. Len(f) /\ g[i] = f[i]
    BY <1>2, <1>6
  <2>2. CASE j \in 1 .. Len(f)
    BY <1>1, <1>6, <2>1, <2>2 DEF Flight
  <2>3. CASE j \notin 1 .. Len(f)
    <3>1. j = Len(f) + 1 /\ fence # 0 /\ g[j].fence = fences + 1
      BY <1>2, <1>5, <1>6, <2>3
    <3>2. f[i].fence <= fences /\ f[i].fence \in Nat
      BY <1>1, <1>13, <2>1 DEF Flight
    <3>3. QED
      BY <1>2, <2>1, <3>1, <3>2
  <2>4. QED
    BY <2>2, <2>3
<1>10. ASSUME NEW i \in 1 .. Len(g), g[i].fence # 0
       PROVE  LET e == d[g[i].by] IN
              /\ e.current /\ ~e.closing /\ e.pc # "closed"
              /\ \E k \in 1 .. Len(e.surfaces) : e.surfaces[k] = g[i].target
              /\ e.lastFence # 0
              /\ \E j \in i .. Len(g) : g[j].fence = e.lastFence
  <2> DEFINE t == g[i].by
  <2> HIDE DEF t
  <2>1. CASE i \in 1 .. Len(f)
    <3>1. g[i] = f[i] /\ t \in PoolSession
      BY <1>6, <1>13, <2>1 DEF t
    <3>2. /\ client[t].current /\ ~client[t].closing /\ client[t].pc # "closed"
          /\ \E k \in 1 .. Len(client[t].surfaces) : client[t].surfaces[k] = g[i].target
          /\ client[t].lastFence # 0
          /\ \E j \in i .. Len(f) : f[j].fence = client[t].lastFence
      BY <1>1, <1>10, <2>1, <3>1, ZenonT(60) DEF Flight, t
    <3>3. CASE t = s /\ fence # 0
      <4>1. d[t].lastFence = fence /\ Len(g) \in i .. Len(g) /\ g[Len(g)].fence = fence
        BY <1>2, <1>5, <1>6, <1>7, <2>1, <3>1, <3>3
      <4>2. /\ d[t].current /\ ~d[t].closing /\ d[t].pc # "closed" /\ d[t].lastFence # 0
            /\ \E k \in 1 .. Len(d[t].surfaces) : d[t].surfaces[k] = g[i].target
        BY <1>7, <3>1, <3>2, <3>3, <4>1, SMTT(60)
      <4>3. QED
        BY <4>1, <4>2 DEF t
    <3>4. CASE ~(t = s /\ fence # 0)
      <4>1. d[t].lastFence = client[t].lastFence
        BY <1>7, <3>1, <3>4
      <4>2. PICK j \in i .. Len(f) : f[j].fence = client[t].lastFence
        BY <3>2
      <4>3. j \in i .. Len(g) /\ g[j].fence = d[t].lastFence
        BY <1>2, <1>6, <2>1, <4>1, <4>2
      <4>4. /\ d[t].current /\ ~d[t].closing /\ d[t].pc # "closed" /\ d[t].lastFence # 0
            /\ \E k \in 1 .. Len(d[t].surfaces) : d[t].surfaces[k] = g[i].target
        BY <1>7, <3>1, <3>2, <4>1
      <4>5. QED
        BY <4>3, <4>4 DEF t
    <3>5. QED
      BY <3>3, <3>4
  <2>2. CASE i \notin 1 .. Len(f)
    <3>1. i = Len(f) + 1 /\ g[i] = w /\ fence # 0 /\ t = s /\ i = Len(g)
      BY <1>2, <1>5, <1>6, <1>10, <2>2 DEF t
    <3>2. /\ d[s].current /\ ~d[s].closing /\ d[s].pc # "closed" /\ d[s].lastFence = fence
          /\ d[s].surfaces[k0] = g[i].target /\ k0 \in 1 .. Len(d[s].surfaces)
      BY <1>1, <1>3, <1>4, <1>5, <1>7, <3>1
    <3>3. i \in i .. Len(g) /\ g[i].fence = d[s].lastFence
      BY <1>5, <3>1, <3>2
    <3>4. QED
      BY <3>1, <3>2, <3>3 DEF t
  <2>3. QED
    BY <2>1, <2>2
<1>11. QED
  <2>1. Len(g) <= MaxInFlight
    BY <1>2, <1>6, PoolConsts DEF f
  <2>2. Flight(g, d, m)
    BY <1>6, <1>8, <1>9, <1>10, <2>1 DEF Flight
  <2>3. QED
    BY <1>7, <2>2 DEF g

(* What only changes fences and rights leaves the rest.                     *)
LEMMA RightsKeep ==
  ASSUME PoolsInv, UNCHANGED <<blocks, overtaken>>, client' \in [PoolSession -> Client],
         \A t \in PoolSession : /\ client'[t].pc = client[t].pc /\ client'[t].closing = client[t].closing
                                /\ client'[t].surfaces = client[t].surfaces /\ client'[t].work = client[t].work,
         Flight(inFlight', client', fences')
  PROVE  PoolsInv'
<1>1. \A t \in PoolSession : Standing(client'[t])
  <2> SUFFICES ASSUME NEW t \in PoolSession PROVE Standing(client'[t])
    OBVIOUS
  <2>1. Standing(client[t])
    BY DEF PoolsInv
  <2>2. QED
    BY <2>1 DEF Standing
<1>2. Alone(client')
  BY DEF PoolsInv, Alone, Inside
<1>3. \A t \in PoolSession : Seek(blocks, client'[t])
  BY DEF PoolsInv, Seek
<1>4. ASSUME ~overtaken PROVE Held(blocks, client')
  <2>1. Held(blocks, client)
    BY <1>4 DEF PoolsInv
  <2>2. \A i : Kept(blocks, client, i) = Kept(blocks, client', i)
    BY DEF Kept, Clearing
  <2>3. Passed(blocks, client')
    BY <2>1, <2>2 DEF Held, Passed, PassedBy
  <2>4. QED
    BY <2>1, <2>3, HeldSame
<1>5. QED
  BY <1>1, <1>2, <1>3, <1>4 DEF PoolsInv

LEMMA SubmitFencedKeeps == ASSUME PoolsInv, NEW s \in PoolSession, SubmitFenced(s) PROVE PoolsInv'
<1>1. PICK surface \in ToSet(client[s].surfaces) : inFlight' = Append(inFlight, Work(s, fences + 1, surface))
  BY DEF SubmitFenced
<1>2. /\ Calls(s) /\ client[s].current /\ Len(inFlight) < MaxInFlight /\ fences < MaxFence
      /\ fences' = fences + 1 /\ UNCHANGED <<blocks, overtaken>>
      /\ client' = [client EXCEPT ![s] = [client[s] EXCEPT !.lastFence = fences + 1]]
  BY DEF SubmitFenced, WorkFenced
<1>3. fences + 1 \in Nat /\ fences + 1 \in 0 .. MaxFence
  BY <1>2, PoolConsts DEF PoolsInv, Flight
<1>6. PICK n \in Nat : n = fences + 1
  BY <1>3
<1>7. PICK d : d = client'
  OBVIOUS
<1>4. /\ Flight(inFlight', d, n) /\ d \in [PoolSession -> Client]
      /\ \A t \in PoolSession : /\ d[t].pc = client[t].pc
                                /\ d[t].closing = client[t].closing /\ d[t].surfaces = client[t].surfaces
                                /\ d[t].work = client[t].work
  <2>1. /\ inFlight' = Append(inFlight, Work(s, n, surface)) /\ n \in 0 .. MaxFence
        /\ d = [client EXCEPT ![s] = [client[s] EXCEPT !.lastFence = n]]
    BY <1>1, <1>2, <1>3, <1>6, <1>7
  <2>3. Calls(s) /\ client[s].current /\ Len(inFlight) < MaxInFlight
    BY <1>2
  <2>5. surface \in ToSet(client[s].surfaces) /\ n = fences + 1 /\ n \in Nat
    BY <1>1, <1>6
  <2>4. Flight(inFlight', d, n)
    BY <2>1, <2>3, <2>5, WorkSubmitted
  <2>6. d \in [PoolSession -> Client]
    BY <2>1, <2>3, <2>5, WorkSubmitted
  <2>7. \A t \in PoolSession : /\ d[t].pc = client[t].pc
                                /\ d[t].closing = client[t].closing /\ d[t].surfaces = client[t].surfaces
                                /\ d[t].work = client[t].work
    BY <2>1, <2>3, <2>5, WorkSubmitted
  <2>8. QED
    BY <2>4, <2>6, <2>7
<1>5. QED
  BY <1>2, <1>4, <1>6, <1>7, RightsKeep

LEMMA DispatchKeeps == ASSUME PoolsInv, NEW s \in PoolSession, DispatchUnfenced(s) PROVE PoolsInv'
<1>1. PICK surface \in ToSet(client[s].surfaces) : inFlight' = Append(inFlight, Work(s, 0, surface))
  BY DEF DispatchUnfenced
<1>2. /\ Calls(s) /\ client[s].current /\ Len(inFlight) < MaxInFlight
      /\ UNCHANGED <<blocks, client, fences, overtaken>>
  BY DEF DispatchUnfenced
<1>3. 0 \in Nat /\ fences \in 0 .. MaxFence
  BY PoolConsts DEF PoolsInv, Flight
<1>4. Flight(inFlight', client, fences)
  BY <1>1, <1>2, <1>3, WorkSubmitted
<1>5. client \in [PoolSession -> Client]
  BY DEF PoolsInv
<1>6. QED
  BY <1>2, <1>4, <1>5, RightsKeep

FreeOf(f, s) == \A i \in 1 .. Len(f) : f[i].fence # 0 => f[i].by # s

LEMMA NothingFlies == ASSUME NEW c, NEW n \in 0 .. MaxFence, NEW s PROVE Flight(<<>>, c, n) /\ FreeOf(<<>>, s)
<1>1. <<>> \in Seq(Work3) /\ Len(<<>>) = 0
  BY EmptySeq
<1>2. QED
  BY <1>1, PoolConsts DEF Flight, FreeOf

(* The rest of the flight behind the last fence of s. *)
LEMMA Cut ==
  ASSUME NEW s \in PoolSession, Flight(inFlight, client, fences), client \in [PoolSession -> Client], client[s].current,
         NEW d, \A t \in PoolSession : t # s => d[t] = client[t]
  PROVE  Flight(WaitedFor(client[s].lastFence), d, fences) /\ FreeOf(WaitedFor(client[s].lastFence), s)
<1> DEFINE f == inFlight
           last == client[s].lastFence
           g == WaitedFor(last)
           fenced == {i \in DOMAIN f : f[i].fence = last}
<1>1. f \in Seq(Work3) /\ Len(f) \in Nat /\ DOMAIN f = 1 .. Len(f) /\ fences \in Nat /\ Len(f) <= MaxInFlight
  BY PoolConsts DEF Flight
<1>2. \A i \in 1 .. Len(f) : f[i] \in Work3
  BY <1>1
<1>3. \A i \in 1 .. Len(f) : f[i].fence \in Nat /\ f[i].by \in PoolSession
  BY <1>2 DEF Work3
<1>4. CASE last = 0 \/ fenced = {}
  <2>1. g = f
    BY <1>4 DEF WaitedFor
  <2>2. FreeOf(f, s)
    <3> SUFFICES ASSUME NEW i \in 1 .. Len(f), f[i].fence # 0, f[i].by = s PROVE FALSE
      BY DEF FreeOf
    <3>1. last # 0 /\ \E j \in i .. Len(f) : f[j].fence = last
      BY DEF Flight
    <3>2. PICK j \in i .. Len(f) : f[j].fence = last
      BY <3>1
    <3>3. j \in fenced
      BY <1>1, <3>2
    <3>4. QED
      BY <1>4, <3>1, <3>3
  <2>3. Flight(f, d, fences)
    BY <2>2, FlightGrows DEF FreeOf
  <2>4. QED
    BY <2>1, <2>2, <2>3
<1>5. CASE last # 0 /\ fenced # {}
  <2> DEFINE m == CHOOSE i \in fenced : TRUE
  <2>1. m \in fenced
    BY <1>5
  <2>2. g = SubSeq(f, 1 + m, Len(f))
    BY <1>5 DEF WaitedFor
  <2>3. m \in 1 .. Len(f) /\ f[m].fence = last
    BY <1>1, <2>1
  <2> HIDE DEF m, f, g, fenced, last
  <2>4. \A i \in 1 + m .. Len(f) : f[i] \in Work3
    BY <1>2, <2>3
  <2>5. /\ g \in Seq(Work3) /\ Len(g) = Len(f) - m
        /\ \A i \in 1 .. Len(g) : g[i] = f[m + i]
    <3>1. 1 + m \in Int /\ Len(f) \in Int
      BY <1>1, <2>3
    <3>2. /\ g \in Seq(Work3) /\ Len(g) = (IF 1 + m <= Len(f) THEN Len(f) - (1 + m) + 1 ELSE 0)
          /\ \A i \in 1 .. Len(f) - (1 + m) + 1 : g[i] = f[1 + m + i - 1]
      BY <2>2, <2>4, <3>1, SubSeqProperties
    <3>8. Len(f) \in Nat /\ m \in Nat /\ m <= Len(f)
      BY <1>1, <2>3
    <3>3. Len(g) = Len(f) - m
      <4>1. CASE 1 + m <= Len(f)
        BY <1>1, <2>3, <3>2, <4>1
      <4>2. CASE ~(1 + m <= Len(f))
        <5>1. m = Len(f)
          BY <3>8, <4>2
        <5>2. Len(g) = 0
          BY <3>2, <4>2
        <5>3. QED
          BY <1>1, <5>1, <5>2
      <4>3. QED
        BY <4>1, <4>2
    <3>4. ASSUME NEW i \in 1 .. Len(g) PROVE g[i] = f[m + i]
      <4>1. i \in 1 .. Len(f) - (1 + m) + 1 /\ 1 + m + i - 1 = m + i
        BY <1>1, <2>3, <3>3
      <4>2. QED
        BY <3>2, <4>1
    <3>5. QED
      BY <3>2, <3>3, <3>4
  <2>6. \A i \in 1 .. Len(g) : m + i \in 1 .. Len(f)
    BY <1>1, <2>3, <2>5
  <2>7. FreeOf(g, s)
    <3> SUFFICES ASSUME NEW i \in 1 .. Len(g), g[i].fence # 0, g[i].by = s PROVE FALSE
      BY DEF FreeOf
    <3>1. g[i] = f[m + i] /\ m + i \in 1 .. Len(f)
      BY <2>5, <2>6
    <3>2. \E j \in m + i .. Len(f) : f[j].fence = last
      BY <3>1 DEF Flight, f, last
    <3>3. PICK j \in m + i .. Len(f) : f[j].fence = last
      BY <3>2
    <3>4. m < j /\ j \in 1 .. Len(f)
      BY <1>1, <2>3, <2>5, <3>3
    <3>5. f[m].fence < f[j].fence
      BY <1>5, <2>3, <3>3, <3>4 DEF Flight, f
    <3>6. last \in Nat
      BY <1>3, <2>3
    <3>7. QED
      BY <2>3, <3>3, <3>5, <3>6
  <2>8. Flight(g, client, fences)
    <3>1. Len(g) <= MaxInFlight /\ \A i \in 1 .. Len(g) : g[i].fence <= fences
      <4>1. Len(g) <= MaxInFlight
        BY <1>1, <2>3, <2>5, PoolConsts
      <4>2. \A i \in 1 .. Len(f) : f[i].fence <= fences
        BY DEF Flight, f
      <4>3. QED
        BY <4>1, <4>2, <2>5, <2>6
    <3>2. \A i, j \in 1 .. Len(g) : i < j /\ g[i].fence # 0 /\ g[j].fence # 0 => g[i].fence < g[j].fence
      <4> SUFFICES ASSUME NEW i \in 1 .. Len(g), NEW j \in 1 .. Len(g), i < j, g[i].fence # 0, g[j].fence # 0
                   PROVE  g[i].fence < g[j].fence
        OBVIOUS
      <4>1. m + i < m + j /\ g[i] = f[m + i] /\ g[j] = f[m + j] /\ m + i \in 1 .. Len(f) /\ m + j \in 1 .. Len(f)
        BY <2>3, <2>5, <2>6
      <4>2. QED
        BY <4>1 DEF Flight, f
    <3>3. ASSUME NEW i \in 1 .. Len(g), g[i].fence # 0
          PROVE  LET e == client[g[i].by] IN
                 /\ e.current /\ ~e.closing /\ e.pc # "closed"
                 /\ \E k \in 1 .. Len(e.surfaces) : e.surfaces[k] = g[i].target
                 /\ e.lastFence # 0
                 /\ \E j \in i .. Len(g) : g[j].fence = e.lastFence
      <4>1. g[i] = f[m + i] /\ m + i \in 1 .. Len(f)
        BY <2>5, <2>6
      <4> DEFINE h == m + i
                 e == client[f[h].by]
      <4>10. h \in 1 .. Len(f) /\ f[h].fence # 0 /\ g[i] = f[h] /\ h = m + i
        BY <3>3, <4>1
      <4> HIDE DEF h
      <4>2. /\ e.current /\ ~e.closing /\ e.pc # "closed"
            /\ \E k \in 1 .. Len(e.surfaces) : e.surfaces[k] = f[h].target
            /\ e.lastFence # 0
            /\ \E j \in h .. Len(f) : f[j].fence = e.lastFence
        BY <4>10 DEF Flight, f
      <4> HIDE DEF e
      <4>3. PICK j \in m + i .. Len(f) : f[j].fence = e.lastFence
        BY <4>2, <4>10
      <4>4. j - m \in i .. Len(g) /\ j = m + (j - m)
        BY <1>1, <2>3, <2>5, <4>3
      <4>5. j - m \in 1 .. Len(g)
        BY <1>1, <2>3, <2>5, <4>4
      <4>6. g[j - m] = f[j]
        BY <2>5, <4>4, <4>5
      <4>7. \E x \in i .. Len(g) : g[x].fence = e.lastFence
        BY <4>3, <4>4, <4>6
      <4>8. QED
        BY <4>2, <4>7, <4>10 DEF e
    <3>4. fences \in 0 .. MaxFence
      BY DEF Flight
    <3>5. QED
      BY <2>5, <3>1, <3>2, <3>3, <3>4 DEF Flight
  <2>9. Flight(g, d, fences)
    BY <2>7, <2>8, FlightGrows DEF FreeOf
  <2>10. QED
    BY <2>7, <2>9 DEF g, last
<1>6. QED
  BY <1>4, <1>5

SameButFences(c) ==
  \A t \in PoolSession : /\ c[t].pc = client[t].pc /\ c[t].closing = client[t].closing
                         /\ c[t].surfaces = client[t].surfaces /\ c[t].work = client[t].work

LEMMA Waits ==
  ASSUME PoolsInv, NEW s \in PoolSession, NEW waited \in WaitedLast(s)
  PROVE  /\ waited.client \in [PoolSession -> Client] /\ SameButFences(waited.client)
         /\ Flight(waited.inFlight, waited.client, fences) /\ FreeOf(waited.inFlight, s)
<1>1. Flight(inFlight, client, fences) /\ client \in [PoolSession -> Client] /\ fences \in 0 .. MaxFence
  BY DEF PoolsInv, Flight
<1> DEFINE last == client[s].lastFence
           forgotten == [client EXCEPT ![s].lastFence = 0]
           lost == [t \in PoolSession |-> [forgotten[t] EXCEPT !.current = FALSE]]
<1>2. \/ ~client[s].current /\ waited.client = client /\ waited.inFlight = inFlight
      \/ client[s].current /\ waited.client = forgotten /\ waited.inFlight = WaitedFor(last)
      \/ client[s].current /\ waited.client = lost /\ waited.inFlight = <<>>
  <2> DEFINE stays == [client |-> client, inFlight |-> inFlight]
             waits == [client |-> forgotten, inFlight |-> WaitedFor(last)]
             reset == [client |-> lost, inFlight |-> <<>>]
  <2>1. /\ ~client[s].current => waited = stays
        /\ client[s].current => waited = waits \/ waited = reset
    <3> HIDE DEF stays, waits, reset
    <3>1. ASSUME ~client[s].current PROVE waited = stays
      BY <3>1 DEF WaitedLast, stays
    <3>2. ASSUME client[s].current PROVE waited = waits \/ waited = reset
      <4>1. waited \in {waits} \cup (IF last # 0 /\ \E i \in DOMAIN inFlight : inFlight[i].fence = last THEN {reset} ELSE {})
        BY <3>2, Zenon DEF WaitedLast, waits, reset, lost, forgotten, last
      <4>2. QED
        BY <4>1
    <3>3. QED
      BY <3>1, <3>2
  <2>2. stays.client = client /\ stays.inFlight = inFlight
    OBVIOUS
  <2>3. waits.client = forgotten /\ waits.inFlight = WaitedFor(last)
    BY Zenon
  <2>4. reset.client = lost /\ reset.inFlight = <<>>
    BY Zenon
  <2> HIDE DEF stays, waits, reset, lost, forgotten, last
  <2>5. QED
    BY <2>1, <2>2, <2>3, <2>4
<1>3. forgotten \in [PoolSession -> Client] /\ SameButFences(forgotten)
      /\ \A t \in PoolSession : t # s => forgotten[t] = client[t]
  <2>1. 0 \in 0 .. MaxFence
    BY PoolConsts
  <2>2. QED
    BY <1>1, <2>1 DEF Client, SameButFences
<1> HIDE DEF forgotten
<1>4. lost \in [PoolSession -> Client] /\ SameButFences(lost)
  <2> DEFINE l(t) == [forgotten[t] EXCEPT !.current = FALSE]
  <2>1. \A t \in PoolSession : l(t) \in Client /\ l(t).pc = forgotten[t].pc /\ l(t).closing = forgotten[t].closing
           /\ l(t).surfaces = forgotten[t].surfaces /\ l(t).work = forgotten[t].work
    <3>1. FALSE \in BOOLEAN
      OBVIOUS
    <3>2. QED
      BY <1>3, <3>1 DEF Client
  <2> HIDE DEF l
  <2>2. lost = [t \in PoolSession |-> l(t)]
    BY DEF l
  <2>3. QED
    BY <1>3, <2>1, <2>2, ZenonT(60) DEF SameButFences
<1> HIDE DEF lost, last
<1>5. CASE ~client[s].current /\ waited.client = client /\ waited.inFlight = inFlight
  <2>1. FreeOf(inFlight, s)
    BY <1>1, <1>5 DEF Flight, FreeOf
  <2>2. QED
    BY <1>1, <1>5, <2>1 DEF SameButFences
<1>6. CASE client[s].current /\ waited.client = forgotten /\ waited.inFlight = WaitedFor(last)
  <2>1. Flight(WaitedFor(last), forgotten, fences)
    BY <1>1, <1>3, <1>6, Cut DEF last
  <2>2. FreeOf(WaitedFor(last), s)
    BY <1>1, <1>3, <1>6, Cut DEF last
  <2>3. QED
    BY <1>3, <1>6, <2>1, <2>2
<1>7. CASE client[s].current /\ waited.client = lost /\ waited.inFlight = <<>>
  BY <1>1, <1>4, <1>7, NothingFlies
<1>8. QED
  BY <1>2, <1>5, <1>6, <1>7

LEMMA WithoutOne ==
  ASSUME NEW q \in Seq(Room), NEW i \in 1 .. Len(q)
  PROVE  /\ RemoveAt(q, i) \in Seq(Room) /\ Len(RemoveAt(q, i)) = Len(q) - 1
         /\ \A k \in 1 .. Len(q) - 1 : RemoveAt(q, i)[k] = q[IF k < i THEN k ELSE k + 1]
<1> DEFINE a == SubSeq(q, 1, i - 1)
           b == SubSeq(q, i + 1, Len(q))
<1>1. Len(q) \in Nat /\ \A k \in 1 .. Len(q) : q[k] \in Room
  OBVIOUS
<1>2. a \in Seq(Room) /\ Len(a) = i - 1 /\ \A k \in 1 .. i - 1 : a[k] = q[k]
  <2>1. 1 \in Int /\ i - 1 \in Int /\ \A k \in 1 .. i - 1 : q[k] \in Room
    BY <1>1
  <2>2. a \in Seq(Room) /\ Len(a) = (IF 1 <= i - 1 THEN (i - 1) - 1 + 1 ELSE 0)
    BY <2>1, SubSeqProperties
  <2>3. \A k \in 1 .. (i - 1) - 1 + 1 : a[k] = q[1 + k - 1]
    BY <2>1, SubSeqProperties
  <2> HIDE DEF a
  <2>4. Len(a) = i - 1
    BY <2>2
  <2>5. \A k \in 1 .. i - 1 : a[k] = q[k]
    <3> SUFFICES ASSUME NEW k \in 1 .. i - 1 PROVE a[k] = q[k]
      OBVIOUS
    <3>1. k \in 1 .. (i - 1) - 1 + 1 /\ 1 + k - 1 = k
      OBVIOUS
    <3>2. QED
      BY <2>3, <3>1
  <2>6. QED
    BY <2>2, <2>4, <2>5
<1>3. b \in Seq(Room) /\ Len(b) = Len(q) - i /\ \A k \in 1 .. Len(q) - i : b[k] = q[i + k]
  <2>1. i + 1 \in Int /\ Len(q) \in Int /\ \A k \in i + 1 .. Len(q) : q[k] \in Room
    BY <1>1
  <2>2. b \in Seq(Room) /\ Len(b) = (IF i + 1 <= Len(q) THEN Len(q) - (i + 1) + 1 ELSE 0)
    BY <2>1, SubSeqProperties
  <2>3. \A k \in 1 .. Len(q) - (i + 1) + 1 : b[k] = q[(i + 1) + k - 1]
    BY <2>1, SubSeqProperties
  <2> HIDE DEF b
  <2>7. Len(q) \in Nat /\ i \in Nat /\ i <= Len(q)
    BY <1>1
  <2>4. Len(b) = Len(q) - i
    <3>1. CASE i + 1 <= Len(q)
      BY <2>2, <2>7, <3>1
    <3>2. CASE ~(i + 1 <= Len(q))
      <4>1. i = Len(q)
        BY <2>7, <3>2
      <4>2. Len(b) = 0
        BY <2>2, <3>2
      <4>3. QED
        BY <2>7, <4>1, <4>2
    <3>3. QED
      BY <3>1, <3>2
  <2>5. \A k \in 1 .. Len(q) - i : b[k] = q[i + k]
    <3> SUFFICES ASSUME NEW k \in 1 .. Len(q) - i PROVE b[k] = q[i + k]
      OBVIOUS
    <3>1. k \in 1 .. Len(q) - (i + 1) + 1 /\ (i + 1) + k - 1 = i + k
      BY <2>7
    <3>2. QED
      BY <2>3, <3>1
  <2>6. QED
    BY <2>2, <2>4, <2>5
<1> DEFINE r == RemoveAt(q, i)
<1>4. r = a \o b
  BY DEF RemoveAt
<1> HIDE DEF a, b, r
<1>5. r \in Seq(Room) /\ Len(r) = Len(a) + Len(b)
  BY <1>2, <1>3, <1>4, ConcatProperties
<1>6. \A k \in 1 .. Len(a) + Len(b) : r[k] = IF k <= Len(a) THEN a[k] ELSE b[k - Len(a)]
  BY <1>2, <1>3, <1>4, ConcatProperties
<1>7. Len(r) = Len(q) - 1
  BY <1>1, <1>2, <1>3, <1>5
<1>8. ASSUME NEW k \in 1 .. Len(q) - 1 PROVE r[k] = q[IF k < i THEN k ELSE k + 1]
  <2>1. k \in 1 .. Len(a) + Len(b)
    BY <1>1, <1>2, <1>3
  <2>2. CASE k < i
    BY <1>2, <1>6, <2>1, <2>2
  <2>3. CASE ~(k < i)
    <3>1. ~(k <= Len(a)) /\ k - Len(a) \in 1 .. Len(q) - i /\ i + (k - Len(a)) = k + 1
      BY <1>1, <1>2, <2>3
    <3>2. r[k] = b[k - Len(a)]
      BY <1>6, <2>1, <3>1
    <3>3. b[k - Len(a)] = q[i + (k - Len(a))]
      BY <1>3, <3>1
    <3>4. QED
      BY <2>3, <3>1, <3>2, <3>3
  <2>4. QED
    BY <2>2, <2>3
<1>9. QED
  BY <1>5, <1>7, <1>8 DEF r

(* The same claims under other names. *)
LEMMA Renamed ==
  ASSUME NEW b, NEW c, NEW d, Held(b, c), NEW g,
         \A p \in Claims(d) : g[p] \in Claims(c) /\ Same(Claimed(d, p), Claimed(c, g[p])),
         \A p, q \in Claims(d) : g[p] = g[q] => p = q,
         \A q \in Claims(c) : \E p \in Claims(d) : g[p] = q,
         \A i \in Entry : Kept(b, d, i) = Kept(b, c, i),
         OneClears(b, d), Passed(b, d)
  PROVE  Held(b, d)
<1>1. Apart(d)
  <2> SUFFICES ASSUME NEW p \in Claims(d), NEW q \in Claims(d), p # q
               PROVE  ~Intersects(Claimed(d, p), Claimed(d, q))
    BY DEF Apart
  <2>1. ~Intersects(Claimed(c, g[p]), Claimed(c, g[q]))
    BY DEF Held, Apart
  <2>2. QED
    BY <2>1 DEF Intersects, Same
<1>2. Listed(b, d)
  <2> SUFFICES ASSUME NEW p \in Claims(d) PROVE \E i \in Entry : Kept(b, d, i) /\ Same(b[i], Claimed(d, p))
    BY DEF Listed
  <2>1. PICK i \in Entry : Kept(b, c, i) /\ Same(b[i], Claimed(c, g[p]))
    BY DEF Held, Listed
  <2>2. QED
    BY <2>1 DEF Same
<1>3. Owned(b, d)
  <2> SUFFICES ASSUME NEW i \in Entry, Kept(b, d, i) PROVE \E p \in Claims(d) : Same(b[i], Claimed(d, p))
    BY DEF Owned
  <2>1. PICK q \in Claims(c) : Same(b[i], Claimed(c, q))
    BY DEF Held, Owned
  <2>2. PICK p \in Claims(d) : g[p] = q
    OBVIOUS
  <2>3. QED
    BY <2>1, <2>2 DEF Same
<1>4. Tidy(b, d)
  BY DEF Held, Tidy
<1>5. QED
  BY <1>1, <1>2, <1>3, <1>4 DEF Held

(* A surface that leaves its session becomes the cell its task frees.      *)
LEMMA Loosened ==
  ASSUME NEW b, NEW c \in [PoolSession -> Client], NEW d \in [PoolSession -> Client], NEW s \in PoolSession, Held(b, c),
         \A t \in PoolSession : t # s => d[t].pc = c[t].pc /\ d[t].surfaces = c[t].surfaces /\ d[t].work = c[t].work,
         c[s].pc \notin {"find", "clear"}, d[s].pc = "find",
         NEW i \in 1 .. Len(c[s].surfaces), Same(d[s].work, c[s].surfaces[i]),
         Len(d[s].surfaces) = Len(c[s].surfaces) - 1,
         \A k \in 1 .. Len(c[s].surfaces) - 1 : d[s].surfaces[k] = c[s].surfaces[IF k < i THEN k ELSE k + 1]
  PROVE  Held(b, d)
<1> DEFINE n == Len(c[s].surfaces)
           g == [p \in Claims(d) |-> IF p[1] # s THEN p
                                     ELSE <<s, IF p[2] = 0 THEN i ELSE IF p[2] < i THEN p[2] ELSE p[2] + 1>>]
<1>1. n \in Nat /\ n > 0
  <2>1. c[s].surfaces \in Seq(Room)
    BY DEF Client
  <2>2. n \in Nat
    BY <2>1
  <2>3. QED
    BY <2>2
<1>2. /\ \A t \in PoolSession, k \in Nat : t # s => (<<t, k>> \in Claims(d)) = (<<t, k>> \in Claims(c))
      /\ \A k \in Nat : <<s, k>> \in Claims(d) <=> k \in 0 .. n - 1
      /\ \A k \in Nat : <<s, k>> \in Claims(c) <=> k \in 1 .. n
  BY <1>1, SMTT(60) DEF Claims
<1>3. \A p \in Claims(d) \cup Claims(c) : p = <<p[1], p[2]>> /\ p[1] \in PoolSession /\ p[2] \in Nat
  BY DEF Claims
<1>4. ASSUME NEW p \in Claims(d) PROVE g[p] \in Claims(c) /\ Same(Claimed(d, p), Claimed(c, g[p]))
  <2>1. CASE p[1] # s
    BY <1>2, <1>3, <2>1 DEF Claimed, Same
  <2>2. CASE p[1] = s
    <3> DEFINE k == p[2]
               m == IF k = 0 THEN i ELSE IF k < i THEN k ELSE k + 1
    <3>1. k \in 0 .. n - 1 /\ p = <<s, k>> /\ g[p] = <<s, m>>
      BY <1>2, <1>3, <2>2
    <3> HIDE DEF n, g
    <3>2. m \in 1 .. n
      BY <1>1, <3>1 DEF n
    <3>3. g[p] \in Claims(c) /\ Claimed(c, g[p]) = c[s].surfaces[m]
      BY <1>2, <3>1, <3>2 DEF Claimed
    <3>4. CASE k = 0
      BY <3>1, <3>3, <3>4 DEF Claimed, Same
    <3>5. CASE k # 0
      <4>1. Claimed(d, p) = d[s].surfaces[k] /\ k \in 1 .. n - 1
        BY <1>1, <3>1, <3>5 DEF Claimed
      <4>2. d[s].surfaces[k] = c[s].surfaces[m]
        BY <3>5, <4>1 DEF n
      <4>3. QED
        BY <3>3, <4>1, <4>2 DEF Same
    <3>6. QED
      BY <3>4, <3>5
  <2>3. QED
    BY <2>1, <2>2
<1>5. ASSUME NEW p \in Claims(d), NEW q \in Claims(d), g[p] = g[q] PROVE p = q
  <2> DEFINE M(k) == IF k = 0 THEN i ELSE IF k < i THEN k ELSE k + 1
  <2>1. p[1] = q[1]
    BY <1>5
  <2>2. CASE p[1] # s
    BY <1>5, <2>1, <2>2
  <2>3. CASE p[1] = s
    <3>1. p[2] \in 0 .. n - 1 /\ q[2] \in 0 .. n - 1 /\ p = <<s, p[2]>> /\ q = <<s, q[2]>>
      BY <1>2, <1>3, <2>1, <2>3
    <3>2. g[p] = <<s, M(p[2])>> /\ g[q] = <<s, M(q[2])>>
      BY <2>1, <2>3
    <3>3. M(p[2]) = M(q[2])
      BY <1>5, <3>2
    <3>4. \A k, l \in Nat : M(k) = M(l) => k = l
      OBVIOUS
    <3> HIDE DEF M, n
    <3>6. p[2] \in Nat /\ q[2] \in Nat
      BY <1>3
    <3>5. QED
      BY <3>1, <3>3, <3>4, <3>6
  <2>4. QED
    BY <2>2, <2>3
<1>6. ASSUME NEW q \in Claims(c) PROVE \E p \in Claims(d) : g[p] = q
  <2>1. CASE q[1] # s
    <3>1. q \in Claims(d)
      BY <1>2, <1>3, <2>1
    <3>2. g[q] = q
      BY <2>1, <3>1
    <3>3. QED
      BY <3>1, <3>2
  <2>2. CASE q[1] = s
    <3>1. q[2] \in 1 .. n /\ q = <<s, q[2]>>
      BY <1>2, <1>3, <2>2
    <3> DEFINE k == IF q[2] = i THEN 0 ELSE IF q[2] < i THEN q[2] ELSE q[2] - 1
    <3>2. k \in 0 .. n - 1 /\ k \in Nat /\ (IF k = 0 THEN i ELSE IF k < i THEN k ELSE k + 1) = q[2]
      BY <1>1, <3>1
    <3> HIDE DEF k, n
    <3>3. <<s, k>> \in Claims(d)
      BY <1>2, <3>2
    <3>4. g[<<s, k>>] = q
      BY <3>1, <3>2, <3>3
    <3>5. QED
      BY <3>3, <3>4
  <2>3. QED
    BY <2>1, <2>2
<1> HIDE DEF g, n
<1>7. \A j : Clearing(c, j) = Clearing(d, j)
  BY DEF Clearing
<1>8. \A j \in Entry : Kept(b, d, j) = Kept(b, c, j)
  BY <1>7 DEF Kept
<1>9. OneClears(b, d)
  BY DEF Held, OneClears
<1>10. Passed(b, d)
  BY <1>8 DEF Held, Passed, PassedBy
<1>11. QED
  BY <1>4, <1>5, <1>6, <1>8, <1>9, <1>10, Renamed

LEMMA Freed == ASSUME NEW r \in Room, Roomy(r)
               PROVE  Freeing(r) \in Search /\ Freeing(r).at = r.at /\ Freeing(r).bytes = r.bytes
BY NoWorkTyped DEF Freeing, Search, Room

LEMMA LoosenKeeps ==
  ASSUME PoolsInv, NEW s \in PoolSession, NEW i \in 1 .. Len(client[s].surfaces),
         client' \in [PoolSession -> Client], UNCHANGED <<blocks, overtaken>>,
         \A t \in PoolSession : t # s => /\ client'[t].pc = client[t].pc /\ client'[t].surfaces = client[t].surfaces
                                         /\ client'[t].work = client[t].work /\ client'[t].closing = client[t].closing,
         client[s].pc \notin {"find", "clear"}, client'[s].pc = "find", client'[s].closing = client[s].closing,
         client'[s].work = Freeing(client[s].surfaces[i]),
         Len(client'[s].surfaces) = Len(client[s].surfaces) - 1,
         \A k \in 1 .. Len(client[s].surfaces) - 1 :
           client'[s].surfaces[k] = client[s].surfaces[IF k < i THEN k ELSE k + 1],
         Flight(inFlight', client', fences'), Inside(client'[s]) => Calls(s)
  PROVE  PoolsInv'
<1>1. client \in [PoolSession -> Client] /\ Standing(client[s])
  BY DEF PoolsInv
<1>2. client[s].surfaces \in Seq(Room) /\ Len(client[s].surfaces) \in Nat
  BY <1>1 DEF Client
<1>3. client[s].surfaces[i] \in Room /\ Roomy(client[s].surfaces[i])
  BY <1>1, <1>2 DEF Standing
<1>4. /\ client'[s].work.at = client[s].surfaces[i].at /\ client'[s].work.bytes = client[s].surfaces[i].bytes
      /\ client'[s].work.bytes # 0
  BY <1>3, Freed DEF Roomy
<1>5. Standing(client'[s])
  <2>1. \A k \in 1 .. Len(client'[s].surfaces) : Roomy(client'[s].surfaces[k])
    <3> SUFFICES ASSUME NEW k \in 1 .. Len(client[s].surfaces) - 1 PROVE Roomy(client'[s].surfaces[k])
      OBVIOUS
    <3>1. (IF k < i THEN k ELSE k + 1) \in 1 .. Len(client[s].surfaces)
      BY <1>2
    <3>2. QED
      BY <1>1, <3>1 DEF Standing
  <2>2. QED
    BY <1>4, <2>1 DEF Standing
<1>6. \A t \in PoolSession : Standing(client'[t])
  <2> SUFFICES ASSUME NEW t \in PoolSession, t # s PROVE Standing(client'[t])
    BY <1>5
  <2>1. Standing(client[t])
    BY DEF PoolsInv
  <2>2. QED
    BY <2>1 DEF Standing
<1>7. Alone(client')
  BY StaysAlone DEF Inside
<1>8. \A t \in PoolSession : Seek(blocks, client'[t])
  BY DEF PoolsInv, Seek
<1>9. ~overtaken => Held(blocks, client')
  BY <1>1, <1>4, Loosened DEF PoolsInv, Same
<1>10. QED
  BY <1>6, <1>7, <1>8, <1>9 DEF PoolsInv

Loosens(c, s, w, q, d) == d = [c EXCEPT ![s].pc = "find", ![s].work = w, ![s].surfaces = q]

LEMMA Loosening ==
  ASSUME NEW c \in [PoolSession -> Client], NEW s \in PoolSession, NEW w \in Search, NEW q \in Seq(Room), NEW d,
         Loosens(c, s, w, q, d)
  PROVE  /\ d \in [PoolSession -> Client] /\ d[s].pc = "find" /\ d[s].work = w /\ d[s].surfaces = q
         /\ d[s].closing = c[s].closing
         /\ \A t \in PoolSession : t # s => d[t] = c[t]
<1>1. "find" \in Pcs
  BY DEF Pcs
<1>2. QED
  BY <1>1, ZenonT(60) DEF Client, Loosens

LEMMA ReleaseKeeps == ASSUME PoolsInv, NEW s \in PoolSession, ReleaseSurface(s) PROVE PoolsInv'
<1>1. PICK waited \in WaitedLast(s), i \in DOMAIN client[s].surfaces :
       /\ inFlight' = waited.inFlight
       /\ client' = [waited.client EXCEPT ![s].pc = "find",
                       ![s].work = Freeing(client[s].surfaces[i]),
                       ![s].surfaces = RemoveAt(@, i)]
  BY DEF ReleaseSurface
<1>2. Calls(s) /\ UNCHANGED <<blocks, fences, overtaken>> /\ client[s].pc = "open"
  BY DEF ReleaseSurface, Calls
<1>3. client \in [PoolSession -> Client] /\ Standing(client[s])
  BY DEF PoolsInv
<1>4. client[s].surfaces \in Seq(Room) /\ Len(client[s].surfaces) \in Nat /\ i \in 1 .. Len(client[s].surfaces)
  BY <1>3 DEF Client
<1> DEFINE c == waited.client
           w == Freeing(client[s].surfaces[i])
           q == RemoveAt(client[s].surfaces, i)
<1>5. c \in [PoolSession -> Client] /\ SameButFences(c)
  BY Waits
<1>6. Flight(waited.inFlight, c, fences) /\ FreeOf(waited.inFlight, s)
  BY Waits
<1>7. w \in Search
  <2>1. client[s].surfaces[i] \in Room /\ Roomy(client[s].surfaces[i])
    BY <1>3, <1>4 DEF Standing
  <2>2. QED
    BY <2>1, Freed
<1>8. /\ q \in Seq(Room) /\ Len(q) = Len(client[s].surfaces) - 1
      /\ \A k \in 1 .. Len(client[s].surfaces) - 1 : q[k] = client[s].surfaces[IF k < i THEN k ELSE k + 1]
  BY <1>4, WithoutOne
<1>9. client' = [c EXCEPT ![s].pc = "find", ![s].work = w, ![s].surfaces = q]
  BY <1>1, <1>5 DEF SameButFences
<1> HIDE DEF c, w, q
<1>10. /\ client' \in [PoolSession -> Client] /\ client'[s].pc = "find" /\ client'[s].work = w /\ client'[s].surfaces = q
       /\ client'[s].closing = client[s].closing
       /\ \A t \in PoolSession : t # s => client'[t] = c[t]
  <2>1. "find" \in Pcs
    BY DEF Pcs
  <2>2. QED
    <3>1. /\ client' \in [PoolSession -> Client] /\ client'[s].pc = "find" /\ client'[s].work = w /\ client'[s].surfaces = q
          /\ client'[s].closing = c[s].closing
          /\ \A t \in PoolSession : t # s => client'[t] = c[t]
      <4>1. q \in Seq(Room) /\ w \in Search /\ c \in [PoolSession -> Client]
        BY <1>5, <1>7, <1>8
      <4>2. PICK d : d = client'
        OBVIOUS
      <4>3. Loosens(c, s, w, q, d)
        BY <1>9, <4>2 DEF Loosens
      <4>4. d \in [PoolSession -> Client]
        BY <4>1, <4>3, Loosening
      <4>5. d[s].pc = "find" /\ d[s].work = w
        BY <4>1, <4>3, Loosening
      <4>6. d[s].surfaces = q /\ d[s].closing = c[s].closing
        BY <4>1, <4>3, Loosening
      <4>7. \A t \in PoolSession : t # s => d[t] = c[t]
        BY <4>1, <4>3, Loosening
      <4>8. QED
        BY <4>2, <4>4, <4>5, <4>6, <4>7
    <3>2. QED
      BY <1>5, <3>1 DEF SameButFences
<1>11. Flight(waited.inFlight, client', fences)
  BY <1>6, <1>10, FlightGrows DEF FreeOf, c
<1>12. Flight(inFlight', client', fences')
  BY <1>1, <1>2, <1>11
<1>13. \A t \in PoolSession : t # s =>
          /\ client'[t].pc = client[t].pc /\ client'[t].surfaces = client[t].surfaces
          /\ client'[t].work = client[t].work /\ client'[t].closing = client[t].closing
  BY <1>5, <1>10 DEF SameButFences
<1>14. QED
  BY <1>2, <1>4, <1>8, <1>10, <1>12, <1>13, LoosenKeeps DEF w

LEMMA CloseKeeps == ASSUME PoolsInv, NEW s \in PoolSession, SurfaceClose(s) PROVE PoolsInv'
<1>1. PICK waited \in WaitedLast(s) :
       /\ inFlight' = waited.inFlight
       /\ client' = [waited.client EXCEPT ![s].pc = "cleanup", ![s].closing = TRUE]
  BY DEF SurfaceClose
<1>2. Calls(s) /\ UNCHANGED <<blocks, fences, overtaken>> /\ client[s].pc = "open"
  BY DEF SurfaceClose, Calls
<1>3. client \in [PoolSession -> Client]
  BY DEF PoolsInv
<1> DEFINE c == waited.client
<1>5. c \in [PoolSession -> Client] /\ SameButFences(c)
  BY Waits
<1>6. Flight(waited.inFlight, c, fences) /\ FreeOf(waited.inFlight, s)
  BY Waits
<1>9. client' = [c EXCEPT ![s].pc = "cleanup", ![s].closing = TRUE]
  BY <1>1
<1> HIDE DEF c
<1>10. /\ client' \in [PoolSession -> Client] /\ client'[s].pc = "cleanup" /\ client'[s].closing
       /\ client'[s].work = client[s].work /\ client'[s].surfaces = client[s].surfaces
       /\ \A t \in PoolSession : t # s => client'[t] = c[t]
  <2>1. "cleanup" \in Pcs /\ TRUE \in BOOLEAN
    BY DEF Pcs
  <2>2. QED
    BY <1>5, <1>9, <2>1, ZenonT(60) DEF Client, SameButFences
<1>11. Flight(waited.inFlight, client', fences)
  BY <1>6, <1>10, FlightGrows DEF FreeOf, c
<1>12. Flight(inFlight', client', fences')
  BY <1>1, <1>2, <1>11
<1>13. \A t \in PoolSession : t # s =>
          /\ client'[t].pc = client[t].pc /\ client'[t].surfaces = client[t].surfaces
          /\ client'[t].work = client[t].work /\ client'[t].closing = client[t].closing
  BY <1>5, <1>10 DEF SameButFences
<1>14. \A t \in PoolSession : Standing(client'[t])
  <2> SUFFICES ASSUME NEW t \in PoolSession PROVE Standing(client'[t])
    OBVIOUS
  <2>1. Standing(client[t])
    BY DEF PoolsInv
  <2>2. CASE t = s
    BY <1>2, <1>10, <2>1, <2>2 DEF Standing
  <2>3. CASE t # s
    BY <1>10, <1>13, <2>1, <2>3 DEF Standing
  <2>4. QED
    BY <2>2, <2>3
<1>15. Alone(client')
  BY <1>10, <1>13, StaysAlone DEF Inside
<1>16. \A t \in PoolSession : Seek(blocks, client'[t])
  BY <1>10, <1>13 DEF PoolsInv, Seek
<1>17. ASSUME ~overtaken PROVE Held(blocks, client')
  <2>1. Held(blocks, client)
    BY <1>17 DEF PoolsInv
  <2>2. \A t \in PoolSession :
           /\ client'[t].surfaces = client[t].surfaces
           /\ (client'[t].pc = "find") = (client[t].pc = "find") /\ (client'[t].pc = "clear") = (client[t].pc = "clear")
           /\ client[t].pc \in {"find", "clear"} => client'[t].work = client[t].work
    BY <1>2, <1>10, <1>13
  <2>3. \A i : Kept(blocks, client, i) = Kept(blocks, client', i)
    BY <2>2 DEF Kept, Clearing
  <2>4. Passed(blocks, client')
    BY <1>10, <1>13, <2>1, <2>3 DEF Held, Passed, PassedBy
  <2>5. QED
    BY <2>1, <2>2, <2>4, HeldSame
<1>18. QED
  BY <1>2, <1>10, <1>12, <1>14, <1>15, <1>16, <1>17 DEF PoolsInv

LEMMA CleanupKeeps == ASSUME PoolsInv, NEW s \in PoolSession, CleanupSurface(s) PROVE PoolsInv'
<1>1. client[s].pc = "cleanup" /\ UNCHANGED <<blocks, inFlight, fences, overtaken>>
  BY DEF CleanupSurface
<1>2. client \in [PoolSession -> Client] /\ Standing(client[s]) /\ client[s].closing /\ Flight(inFlight, client, fences)
  BY <1>1 DEF PoolsInv, Standing
<1>3. FreeOf(inFlight, s)
  BY <1>2 DEF Flight, FreeOf
<1>4. CASE client[s].surfaces = <<>> /\ client' = [client EXCEPT ![s] = ClosedSession]
  <2>1. client' \in [PoolSession -> Client] /\ client'[s] = ClosedSession /\ Others(s)
    BY <1>2, <1>4, NoWorkTyped DEF Others
  <2>2. \A t \in PoolSession : Standing(client'[t])
    BY <2>1, NoWorkTyped DEF Others, PoolsInv
  <2>3. Alone(client')
    BY <2>1, NoWorkTyped, StaysAlone DEF Others
  <2>9. ClosedSession.pc = "closed" /\ ClosedSession.surfaces = <<>>
    BY DEF ClosedSession
  <2>4. \A t \in PoolSession : Seek(blocks, client'[t])
    BY <2>1, <2>9 DEF PoolsInv, Seek, Others
  <2>5. Flight(inFlight, client', fences)
    BY <1>2, <1>3, <2>1, FlightGrows DEF FreeOf, Others
  <2>6. ASSUME ~overtaken PROVE Held(blocks, client')
    <3>1. Held(blocks, client)
      BY <2>6 DEF PoolsInv
    <3>2. \A t \in PoolSession :
           /\ client'[t].surfaces = client[t].surfaces
           /\ (client'[t].pc = "find") = (client[t].pc = "find") /\ (client'[t].pc = "clear") = (client[t].pc = "clear")
           /\ client[t].pc \in {"find", "clear"} => client'[t].work = client[t].work
      BY <1>1, <1>4, <2>1, <2>9 DEF Others
    <3>3. \A i : Kept(blocks, client, i) = Kept(blocks, client', i)
      BY <3>2 DEF Kept, Clearing
    <3>4. Passed(blocks, client')
      BY <2>1, <2>9, <3>1, <3>3 DEF Held, Passed, PassedBy, Others
    <3>5. QED
      BY <3>1, <3>2, <3>4, HeldSame
  <2>7. QED
    BY <1>1, <2>1, <2>2, <2>3, <2>4, <2>5, <2>6 DEF PoolsInv
<1>5. CASE /\ client[s].surfaces # <<>>
           /\ client' = [client EXCEPT ![s].pc = "find", ![s].work = Freeing(Head(client[s].surfaces)),
                                       ![s].surfaces = Tail(@)]
  <2> DEFINE q == client[s].surfaces
             r == Tail(q)
             w == Freeing(Head(q))
  <2>1. q \in Seq(Room) /\ Len(q) \in Nat /\ q # <<>>
    BY <1>2, <1>5 DEF Client
  <2>2. /\ r \in Seq(Room) /\ Len(r) = Len(q) - 1 /\ Head(q) = q[1]
        /\ \A k \in 1 .. Len(q) - 1 : r[k] = q[k + 1]
    BY <2>1, HeadTailProperties
  <2>3. 1 \in 1 .. Len(q)
    BY <2>1, EmptySeq
  <2>4. \A k \in 1 .. Len(q) - 1 : (IF k < 1 THEN k ELSE k + 1) = k + 1
    OBVIOUS
  <2>5. \A k \in 1 .. Len(q) - 1 : r[k] = q[IF k < 1 THEN k ELSE k + 1]
    BY <2>2, <2>4
  <2>6. w \in Search
    <3>1. q[1] \in Room /\ Roomy(q[1])
      BY <1>2, <2>1, <2>3 DEF Standing
    <3>2. QED
      BY <2>2, <3>1, Freed
  <2>7. client' = [client EXCEPT ![s].pc = "find", ![s].work = w, ![s].surfaces = r]
    BY <1>5
  <2> HIDE DEF r, w
  <2>8. /\ client' \in [PoolSession -> Client] /\ client'[s].pc = "find" /\ client'[s].work = w /\ client'[s].surfaces = r
        /\ client'[s].closing = client[s].closing /\ Others(s)
    <3>1. "find" \in Pcs
      BY DEF Pcs
    <3>2. QED
      BY <1>2, <2>2, <2>6, <2>7, <3>1 DEF Client, Others
  <2>9. Flight(inFlight, client', fences)
    BY <1>2, <1>3, <2>8, FlightGrows DEF FreeOf, Others
  <2>10. ~Inside(client'[s])
    BY <1>2, <2>8 DEF Inside
  <2>11. \A t \in PoolSession : t # s => /\ client'[t].pc = client[t].pc /\ client'[t].surfaces = client[t].surfaces
                                         /\ client'[t].work = client[t].work /\ client'[t].closing = client[t].closing
    BY <2>8 DEF Others
  <2>12. client'[s].work = Freeing(client[s].surfaces[1])
    BY <2>2, <2>8 DEF w
  <2>13. Flight(inFlight', client', fences')
    BY <1>1, <2>9
  <2>14. QED
    BY <1>1, <2>2, <2>3, <2>5, <2>8, <2>10, <2>11, <2>12, <2>13, LoosenKeeps
<1>6. QED
  BY <1>4, <1>5 DEF CleanupSurface

Takes(b, c, s, i, e, d) ==
  /\ b \in [Entry -> Block] /\ e \in [Entry -> Block]
  /\ c \in [PoolSession -> Client] /\ d \in [PoolSession -> Client]
  /\ b[i].bytes = 0 /\ \A j \in Entry : j # i => e[j] = b[j]
  /\ c[s].pc = "take" /\ d[s].pc = "open"
  /\ Len(d[s].surfaces) = Len(c[s].surfaces) + 1
  /\ \A k \in 1 .. Len(c[s].surfaces) : d[s].surfaces[k] = c[s].surfaces[k]
  /\ Same(c[s].work, d[s].surfaces[Len(c[s].surfaces) + 1]) /\ Same(c[s].work, e[i]) /\ c[s].work.bytes # 0
  /\ \A t \in PoolSession : t # s => d[t] = c[t] /\ c[t].pc \notin {"scan", "take"}
  /\ \A t \in PoolSession : c[t].pc = "clear" => c[t].work.entry \in Entry

LEMMA Taking ==
  ASSUME NEW b, NEW c, NEW d, NEW s \in PoolSession, NEW i \in Entry, NEW e, Held(b, c), Takes(b, c, s, i, e, d)
  PROVE  Held(e, d)
<1> DEFINE n == Len(c[s].surfaces)
           new == <<s, n + 1>>
<1>0. /\ b \in [Entry -> Block] /\ e \in [Entry -> Block]
      /\ c \in [PoolSession -> Client] /\ d \in [PoolSession -> Client]
      /\ b[i].bytes = 0 /\ \A j \in Entry : j # i => e[j] = b[j]
      /\ c[s].pc = "take" /\ d[s].pc = "open"
      /\ Len(d[s].surfaces) = Len(c[s].surfaces) + 1
      /\ \A k \in 1 .. Len(c[s].surfaces) : d[s].surfaces[k] = c[s].surfaces[k]
      /\ Same(c[s].work, d[s].surfaces[Len(c[s].surfaces) + 1]) /\ Same(c[s].work, e[i]) /\ c[s].work.bytes # 0
      /\ \A t \in PoolSession : t # s => d[t] = c[t] /\ c[t].pc \notin {"scan", "take"}
      /\ \A t \in PoolSession : c[t].pc = "clear" => c[t].work.entry \in Entry
  BY DEF Takes
<1> USE <1>0
<1>1. n \in Nat
  <2>1. c[s].surfaces \in Seq(Room)
    BY DEF Client
  <2>2. QED
    BY <2>1
<1>2. Claims(d) = Claims(c) \cup {new}
  <2>1. \A t \in PoolSession, k \in Nat : <<t, k>> \in Claims(d) <=> <<t, k>> \in Claims(c) \/ (t = s /\ k = n + 1)
    BY <1>1 DEF Claims
  <2>2. \A p \in Claims(d) \cup Claims(c) \cup {new} : p = <<p[1], p[2]>> /\ p[1] \in PoolSession /\ p[2] \in Nat
    BY <1>1 DEF Claims
  <2>3. new \in Claims(d)
    BY <1>1, <2>1
  <2>4. \A p \in Claims(d) : p \in Claims(c) \cup {new}
    BY <2>1, <2>2
  <2>5. \A p \in Claims(c) : p \in Claims(d)
    BY <2>1, <2>2
  <2>6. QED
    BY <2>3, <2>4, <2>5
<1>3. \A p \in Claims(c) : Claimed(d, p) = Claimed(c, p)
  BY <1>1 DEF Claims, Claimed
<1>4. Same(Claimed(d, new), c[s].work)
  <2>1. Claimed(d, new) = d[s].surfaces[n + 1]
    BY <1>1 DEF Claimed
  <2>2. QED
    BY <2>1 DEF Same
<1>5. \A j : Clearing(c, j) = Clearing(d, j)
  BY DEF Clearing
<1>6. ~Clearing(c, i)
  BY DEF Held, OneClears, Clearing
<1>7. Kept(e, d, i) /\ \A j \in Entry : j # i => Kept(e, d, j) = Kept(b, c, j)
  BY <1>5, <1>6 DEF Kept, Same
<1>8. \A j \in Entry : Kept(b, c, j) => j # i /\ e[j] = b[j] /\ ~Intersects(c[s].work, b[j])
  BY DEF Held, Passed, PassedBy, Kept
<1>9. \A j \in Entry : b[j].at \in Nat /\ b[j].bytes \in Nat /\ e[j].at \in Nat /\ e[j].bytes \in Nat
  BY PoolConsts, SMTT(60) DEF Block
<1> HIDE DEF new
<1>10. Listed(e, d)
  <2> SUFFICES ASSUME NEW p \in Claims(d) PROVE \E j \in Entry : Kept(e, d, j) /\ Same(e[j], Claimed(d, p))
    BY DEF Listed
  <2>1. CASE p = new
    BY <1>4, <1>7, <2>1 DEF Same
  <2>2. CASE p \in Claims(c)
    <3>1. PICK j \in Entry : Kept(b, c, j) /\ Same(b[j], Claimed(c, p))
      BY <2>2 DEF Held, Listed
    <3>2. QED
      BY <1>3, <1>7, <1>8, <2>2, <3>1
  <2>3. QED
    BY <1>2, <2>1, <2>2
<1>11. Owned(e, d)
  <2> SUFFICES ASSUME NEW j \in Entry, Kept(e, d, j) PROVE \E p \in Claims(d) : Same(e[j], Claimed(d, p))
    BY DEF Owned
  <2>1. CASE j = i
    BY <1>2, <1>4, <2>1 DEF Same
  <2>2. CASE j # i
    <3>1. PICK p \in Claims(c) : Same(b[j], Claimed(c, p))
      BY <1>7, <2>2 DEF Held, Owned
    <3>2. QED
      BY <1>2, <1>3, <2>2, <3>1
  <2>3. QED
    BY <2>1, <2>2
<1>12. \A p \in Claims(c) : ~Intersects(Claimed(d, p), Claimed(d, new)) /\ ~Intersects(Claimed(d, new), Claimed(d, p))
  <2> SUFFICES ASSUME NEW p \in Claims(c)
               PROVE  ~Intersects(Claimed(d, p), Claimed(d, new)) /\ ~Intersects(Claimed(d, new), Claimed(d, p))
    OBVIOUS
  <2>1. PICK j \in Entry : Kept(b, c, j) /\ Same(b[j], Claimed(c, p))
    BY DEF Held, Listed
  <2>2. ~Intersects(c[s].work, b[j])
    BY <1>8, <2>1
  <2>3. QED
    BY <1>3, <1>4, <2>1, <2>2 DEF Intersects, Same
<1>13. Apart(d)
  BY <1>2, <1>3, <1>12 DEF Held, Apart
<1>14. OneClears(e, d)
  <2> SUFFICES ASSUME NEW t \in PoolSession, d[t].pc = "clear", NEW u \in PoolSession
               PROVE  e[d[t].work.entry].bytes # 0 /\ (d[u].pc = "clear" => t = u)
    BY DEF OneClears
  <2>1. t # s /\ d[t] = c[t] /\ c[t].work.entry \in Entry /\ (d[u].pc = "clear" => c[u].pc = "clear")
    OBVIOUS
  <2>2. c[t].work.entry # i
    BY <1>6, <2>1 DEF Clearing
  <2>3. b[c[t].work.entry].bytes # 0 /\ (c[u].pc = "clear" => t = u)
    BY <2>1 DEF Held, OneClears
  <2>4. QED
    BY <2>1, <2>2, <2>3
<1>15. Tidy(e, d)
  <2> SUFFICES ASSUME NEW j \in Entry, NEW k \in Entry, j # k, Kept(e, d, j), Kept(e, d, k) PROVE ~Intersects(e[j], e[k])
    BY DEF Tidy
  <2>1. CASE j # i /\ k # i
    BY <1>7, <1>8, <2>1 DEF Held, Tidy
  <2>2. CASE j = i
    <3>1. Kept(b, c, k)
      BY <1>7, <2>2
    <3>2. ~Intersects(c[s].work, b[k]) /\ e[k] = b[k]
      BY <1>8, <3>1
    <3>3. QED
      BY <2>2, <3>2 DEF Intersects, Same
  <2>3. CASE k = i
    <3>1. Kept(b, c, j)
      BY <1>7, <2>3
    <3>2. ~Intersects(c[s].work, b[j]) /\ e[j] = b[j]
      BY <1>8, <3>1
    <3>3. QED
      BY <2>3, <3>2 DEF Intersects, Same
  <2>4. QED
    BY <2>1, <2>2, <2>3
<1>16. Passed(e, d)
  BY DEF Passed, PassedBy
<1>17. QED
  BY <1>10, <1>11, <1>13, <1>14, <1>15, <1>16 DEF Held

LEMMA TakeKeeps == ASSUME PoolsInv, NEW s \in PoolSession, TakeEntry(s) PROVE PoolsInv'
<1> DEFINE w == client[s].work
           free == {i \in Entry : blocks[i].bytes = 0}
<1>1. /\ client[s].pc = "take" /\ UNCHANGED <<inFlight, fences, overtaken>> /\ w \in Search /\ Standing(client[s])
      /\ Inside(client[s]) /\ w.bytes # 0 /\ w.extent <= w.bytes
      /\ blocks \in [Entry -> Block] /\ client \in [PoolSession -> Client]
  BY DEF TakeEntry, PoolsInv, Standing, Client, Inside
<1>2. CASE UNCHANGED blocks /\ client' = [client EXCEPT ![s].pc = "open", ![s].work = NoWork]
  <2>1. Moves(s, "open", NoWork) /\ Rest
    BY <1>1, <1>2, Moving, NoWorkTyped DEF Pcs, Rest
  <2>2. Standing(client'[s]) /\ Seek(blocks, client'[s]) /\ ~Inside(client'[s]) /\ PassedBy(blocks, client, client'[s])
    BY <1>1, <2>1, NoWorkTyped DEF Moves, Standing, Seek, Inside, PassedBy
  <2>3. QED
    BY <1>1, <2>1, <2>2, MovesKeeps DEF Quiet
<1>3. ASSUME NEW i \in free, blocks' = [blocks EXCEPT ![i] = [at |-> w.at, bytes |-> w.bytes]],
             client' = [client EXCEPT ![s].pc = "open", ![s].work = NoWork,
                          ![s].surfaces = Append(@, [at |-> w.at, bytes |-> w.bytes, extent |-> w.extent])]
      PROVE  PoolsInv'
  <2> DEFINE surface == [at |-> w.at, bytes |-> w.bytes, extent |-> w.extent]
             old == client[s].surfaces
             q == Append(old, surface)
             cell == [at |-> w.at, bytes |-> w.bytes]
             n == Len(old)
  <2>1. i \in Entry /\ blocks[i].bytes = 0 /\ MAX_AUX_SURFACES > 0
    BY PoolConsts DEF Entry
  <2>2. Fits(w) /\ w.at \in Nat /\ w.bytes \in Nat /\ w.extent \in Nat
    BY <1>1, <2>1 DEF Standing, Search
  <2>3. surface \in Room /\ Roomy(surface) /\ surface.at = w.at /\ surface.bytes = w.bytes
    <3>1. w.at + w.bytes <= AuxSurfaceBytes
      BY <2>2, PoolConsts DEF Fits
    <3>2. QED
      BY <1>1, <2>2, <3>1 DEF Room, Roomy
  <2>4. cell \in Block /\ cell.at = w.at /\ cell.bytes = w.bytes
    <3>1. w.at < AuxSurfaceBytes /\ w.bytes <= AuxSurfaceBytes
      BY <1>1, <2>2, PoolConsts DEF Fits
    <3>2. QED
      BY <2>2, <3>1, PoolConsts DEF Block
  <2>5. old \in Seq(Room) /\ n \in Nat
    BY <1>1 DEF Client
  <2>13. surface \in Room
    BY <2>3
  <2> HIDE DEF surface
  <2>6. q \in Seq(Room) /\ Len(q) = n + 1 /\ (\A k \in 1 .. n : q[k] = old[k]) /\ q[n + 1] = surface
    BY <2>5, <2>13, AppendProperties
  <2>7. client' = [client EXCEPT ![s].pc = "open", ![s].work = NoWork, ![s].surfaces = q]
    BY <1>3 DEF surface
  <2>14. q \in Seq(Room)
    BY <2>6
  <2> HIDE DEF q, cell
  <2>8. /\ client' \in [PoolSession -> Client] /\ client'[s].pc = "open" /\ client'[s].work = NoWork /\ client'[s].surfaces = q
        /\ client'[s].closing = client[s].closing /\ client'[s].lastFence = client[s].lastFence
        /\ client'[s].current = client[s].current /\ Others(s)
    <3>1. "open" \in Pcs
      BY DEF Pcs
    <3>2. QED
      BY <1>1, <2>7, <2>14, <3>1, NoWorkTyped DEF Client, Others
  <2>9. blocks' \in [Entry -> Block] /\ blocks'[i] = cell /\ \A j \in Entry : j # i => blocks'[j] = blocks[j]
    BY <1>1, <1>3, <2>1, <2>4 DEF cell
  <2>10. \A t \in PoolSession : Standing(client'[t])
    <3>1. \A k \in 1 .. n + 1 : Roomy(q[k])
      BY <1>1, <2>3, <2>5, <2>6 DEF Standing
    <3>2. Standing(client'[s])
      BY <1>1, <2>6, <2>8, <3>1 DEF Standing
    <3>3. QED
      BY <2>8, <3>2 DEF Others, PoolsInv
  <2>11. Alone(client')
    BY <2>8, StaysAlone DEF Others, Inside
  <2>12. \A t \in PoolSession : Seek(blocks', client'[t])
    <3> SUFFICES ASSUME NEW t \in PoolSession, client'[t].pc = "scan", client'[t].work.quiet,
                        NEW at \in Nat, at < client'[t].work.at
                 PROVE  \E j \in Entry : blocks'[j].bytes # 0 /\ Intersects([at |-> at, bytes |-> client'[t].work.bytes], blocks'[j])
      BY DEF Seek
    <3>1. t # s /\ client'[t] = client[t]
      BY <2>8 DEF Others
    <3>2. PICK j \in Entry : blocks[j].bytes # 0 /\ Intersects([at |-> at, bytes |-> client[t].work.bytes], blocks[j])
      BY <3>1 DEF PoolsInv, Seek
    <3>3. j # i
      BY <2>1, <3>2
    <3>4. QED
      BY <2>9, <3>1, <3>2, <3>3
  <2>15. Flight(inFlight, client', fences)
    <3>1. \A k \in 1 .. n : k \in 1 .. Len(client'[s].surfaces) /\ client'[s].surfaces[k] = client[s].surfaces[k]
      BY <2>5, <2>6, <2>8
    <3>2. Flight(inFlight, client, fences)
      BY DEF PoolsInv
    <3>3. \A t \in PoolSession :
           /\ \A k \in 1 .. Len(client[t].surfaces) : \E m \in 1 .. Len(client'[t].surfaces) :
                client'[t].surfaces[m] = client[t].surfaces[k]
           /\ client'[t].current = client[t].current
           /\ client'[t].closing = client[t].closing /\ client'[t].lastFence = client[t].lastFence
           /\ client[t].pc # "closed" => client'[t].pc # "closed"
      BY <2>8, <3>1 DEF Others
    <3>4. QED
      BY <3>2, <3>3, FlightGrows, SMTT(60)
  <2>16. ASSUME ~overtaken PROVE Held(blocks', client')
    <3>1. Held(blocks, client)
      BY <2>16 DEF PoolsInv
    <3>2. Same(w, client'[s].surfaces[n + 1]) /\ Same(w, blocks'[i])
      BY <2>3, <2>4, <2>6, <2>8, <2>9 DEF Same
    <3>3. \A t \in PoolSession : t # s => client[t].pc \notin {"scan", "take"}
      <4> SUFFICES ASSUME NEW t \in PoolSession, t # s, client[t].pc \in {"scan", "take"} PROVE FALSE
        OBVIOUS
      <4>1. Standing(client[t]) /\ Alone(client)
        BY DEF PoolsInv
      <4>2. Inside(client[t])
        BY <4>1 DEF Standing, Inside
      <4>3. QED
        BY <1>1, <4>1, <4>2 DEF Alone
    <3>4. \A t \in PoolSession : t # s => client'[t] = client[t]
      BY <2>8 DEF Others
    <3>5. /\ Len(client'[s].surfaces) = Len(client[s].surfaces) + 1
          /\ \A k \in 1 .. Len(client[s].surfaces) : client'[s].surfaces[k] = client[s].surfaces[k]
      BY <2>6, <2>8
    <3>6. \A t \in PoolSession : client[t].pc = "clear" => client[t].work.entry \in Entry
      BY DEF PoolsInv, Standing
    <3>7. /\ Same(client[s].work, client'[s].surfaces[Len(client[s].surfaces) + 1]) /\ Same(client[s].work, blocks'[i])
          /\ client[s].work.bytes # 0
      BY <1>1, <3>2
    <3>8. /\ i \in Entry /\ blocks[i].bytes = 0 /\ (\A j \in Entry : j # i => blocks'[j] = blocks[j])
          /\ client[s].pc = "take" /\ client'[s].pc = "open"
      BY <1>1, <2>1, <2>8, <2>9
    <3>9. blocks \in [Entry -> Block] /\ client \in [PoolSession -> Client] /\ client' \in [PoolSession -> Client]
          /\ blocks' \in [Entry -> Block]
      BY <1>1, <2>8, <2>9
    <3>10. PICK d : d = client'
      OBVIOUS
    <3>11. PICK e : e = blocks'
      OBVIOUS
    <3>12. Takes(blocks, client, s, i, e, d)
      BY <3>3, <3>4, <3>5, <3>6, <3>7, <3>8, <3>9, <3>10, <3>11 DEF Takes
    <3>14. Held(e, d)
      BY <3>1, <3>8, <3>12, Taking
    <3>13. QED
      BY <3>10, <3>11, <3>14
  <2>17. QED
    BY <1>1, <2>8, <2>9, <2>10, <2>11, <2>12, <2>15, <2>16 DEF PoolsInv
<1>4. QED
  <2>1. \/ UNCHANGED blocks /\ client' = [client EXCEPT ![s].pc = "open", ![s].work = NoWork]
        \/ \E i \in free :
             /\ blocks' = [blocks EXCEPT ![i] = [at |-> w.at, bytes |-> w.bytes]]
             /\ client' = [client EXCEPT ![s].pc = "open", ![s].work = NoWork,
                          ![s].surfaces = Append(@, [at |-> w.at, bytes |-> w.bytes, extent |-> w.extent])]
    BY DEF TakeEntry
  <2>2. QED
    BY <1>2, <1>3, <2>1

(* c disturbed: who looks for a place has no quiet pass, and else nothing changes. *)
Stirred(c, d) ==
  /\ d \in [PoolSession -> Client]
  /\ \A t \in PoolSession :
       /\ d[t].pc = c[t].pc /\ d[t].lastFence = c[t].lastFence /\ d[t].current = c[t].current
       /\ d[t].closing = c[t].closing /\ d[t].surfaces = c[t].surfaces
       /\ d[t].work.at = c[t].work.at /\ d[t].work.bytes = c[t].work.bytes /\ d[t].work.entry = c[t].work.entry
       /\ d[t].work.moved = c[t].work.moved /\ d[t].work.extent = c[t].work.extent
       /\ c[t].pc = "scan" => ~d[t].work.quiet
       /\ c[t].pc # "scan" => d[t].work = c[t].work

LEMMA Stirring == ASSUME NEW c \in [PoolSession -> Client] PROVE Stirred(c, Disturbed(c))
<1> DEFINE l(t) == IF c[t].pc = "scan" THEN [c[t] EXCEPT !.work.quiet = FALSE] ELSE c[t]
<1>1. ASSUME NEW t \in PoolSession
      PROVE  /\ l(t) \in Client
             /\ l(t).pc = c[t].pc /\ l(t).lastFence = c[t].lastFence /\ l(t).current = c[t].current
             /\ l(t).closing = c[t].closing /\ l(t).surfaces = c[t].surfaces
             /\ l(t).work.at = c[t].work.at /\ l(t).work.bytes = c[t].work.bytes /\ l(t).work.entry = c[t].work.entry
             /\ l(t).work.moved = c[t].work.moved /\ l(t).work.extent = c[t].work.extent
             /\ c[t].pc = "scan" => ~l(t).work.quiet
             /\ c[t].pc # "scan" => l(t).work = c[t].work
  <2>1. FALSE \in BOOLEAN /\ c[t] \in Client
    OBVIOUS
  <2> DEFINE w == [c[t].work EXCEPT !.quiet = FALSE]
             m == [c[t] EXCEPT !.work = w]
  <2>2. w \in Search /\ w.at = c[t].work.at /\ w.bytes = c[t].work.bytes /\ w.entry = c[t].work.entry
        /\ w.moved = c[t].work.moved /\ w.extent = c[t].work.extent /\ ~w.quiet
    <3>1. c[t].work \in Search
      BY <2>1 DEF Client
    <3>2. QED
      BY <2>1, <3>1 DEF Search
  <2>3. CASE c[t].pc = "scan"
    <3>1. l(t) = m
      BY <2>3
    <3> HIDE DEF w, l
    <3>2. m \in Client /\ m.pc = c[t].pc /\ m.lastFence = c[t].lastFence /\ m.current = c[t].current
          /\ m.closing = c[t].closing /\ m.surfaces = c[t].surfaces /\ m.work = w
      BY <2>1, <2>2 DEF Client
    <3> HIDE DEF m
    <3>3. QED
      BY <2>2, <2>3, <3>1, <3>2
  <2>4. CASE c[t].pc # "scan"
    BY <2>1, <2>4
  <2>5. QED
    BY <2>3, <2>4
<1> HIDE DEF l
<1>2. Disturbed(c) = [t \in PoolSession |-> l(t)]
  BY DEF Disturbed, l
<1> DEFINE d == Disturbed(c)
<1>3. \A t \in PoolSession : d[t] = l(t)
  BY <1>2
<1>4. d \in [PoolSession -> Client]
  BY <1>1, <1>2
<1> HIDE DEF d
<1>5. Stirred(c, d)
  BY <1>1, <1>3, <1>4 DEF Stirred
<1>6. QED
  BY <1>5 DEF d

(* The entry that is found is the only one of its claim.                    *)
Finds(b, c, s, i, e, d) ==
  /\ c[s].pc = "find" /\ Same(b[i], c[s].work) /\ c[s].work.bytes # 0
  /\ \A t \in PoolSession : c[t].pc # "clear"
  /\ e[i].bytes = b[i].bytes /\ \A j \in Entry : j # i => e[j] = b[j]
  /\ d[s].pc = "clear" /\ d[s].work.entry = i /\ d[s].surfaces = c[s].surfaces
  /\ \A t \in PoolSession : t # s =>
       /\ d[t].pc = c[t].pc /\ d[t].surfaces = c[t].surfaces
       /\ d[t].work.at = c[t].work.at /\ d[t].work.bytes = c[t].work.bytes /\ d[t].work.entry = c[t].work.entry
       /\ d[t].work.moved = c[t].work.moved

LEMMA Finding ==
  ASSUME NEW b \in [Entry -> Block], NEW c, NEW d, NEW s \in PoolSession, NEW i \in Entry, NEW e, Held(b, c),
         Finds(b, c, s, i, e, d)
  PROVE  Held(e, d)
<1> DEFINE loose == <<s, 0>>
<1>0. /\ c[s].pc = "find" /\ Same(b[i], c[s].work) /\ c[s].work.bytes # 0
      /\ \A t \in PoolSession : c[t].pc # "clear"
      /\ e[i].bytes = b[i].bytes /\ \A j \in Entry : j # i => e[j] = b[j]
      /\ d[s].pc = "clear" /\ d[s].work.entry = i /\ d[s].surfaces = c[s].surfaces
      /\ \A t \in PoolSession : t # s =>
           /\ d[t].pc = c[t].pc /\ d[t].surfaces = c[t].surfaces
           /\ d[t].work.at = c[t].work.at /\ d[t].work.bytes = c[t].work.bytes /\ d[t].work.entry = c[t].work.entry
           /\ d[t].work.moved = c[t].work.moved
  BY DEF Finds
<1> USE <1>0
<1>1. \A j \in Entry : b[j].at \in Nat /\ b[j].bytes \in Nat
  BY PoolConsts DEF Block
<1>2. \A j \in Entry : Kept(b, c, j) <=> b[j].bytes # 0
  BY DEF Kept, Clearing
<1>3. \A j \in Entry : Kept(e, d, j) <=> j # i /\ Kept(b, c, j)
  BY <1>2 DEF Kept, Clearing
<1>4. loose \in Claims(c) /\ Claimed(c, loose) = c[s].work /\ Kept(b, c, i)
  BY <1>2 DEF Claims, Claimed, Same
<1>5. \A p \in Claims(d) : p \in Claims(c) /\ p # loose
  BY DEF Claims
<1>6. \A p \in Claims(c) : p # loose => p \in Claims(d)
  BY DEF Claims
<1>7. \A p \in Claims(d) : Same(Claimed(d, p), Claimed(c, p))
  BY <1>5 DEF Claims, Claimed, Same
<1> HIDE DEF loose
<1>8. Apart(d)
  <2> SUFFICES ASSUME NEW p \in Claims(d), NEW q \in Claims(d), p # q
               PROVE  ~Intersects(Claimed(d, p), Claimed(d, q))
    BY DEF Apart
  <2>1. ~Intersects(Claimed(c, p), Claimed(c, q))
    BY <1>5 DEF Held, Apart
  <2>2. QED
    BY <1>7, <2>1 DEF Intersects, Same
<1>9. Listed(e, d)
  <2> SUFFICES ASSUME NEW p \in Claims(d) PROVE \E j \in Entry : Kept(e, d, j) /\ Same(e[j], Claimed(d, p))
    BY DEF Listed
  <2>1. PICK j \in Entry : Kept(b, c, j) /\ Same(b[j], Claimed(c, p))
    BY <1>5 DEF Held, Listed
  <2>2. j # i
    <3> SUFFICES ASSUME j = i PROVE FALSE
      OBVIOUS
    <3>1. Claimed(c, p).at = b[i].at /\ Claimed(c, p).bytes = b[i].bytes /\ c[s].work.at = b[i].at /\ c[s].work.bytes = b[i].bytes
      BY <2>1 DEF Same
    <3>2. b[i].bytes # 0 /\ b[i].at \in Nat /\ b[i].bytes \in Nat
      BY <1>1, <1>2, <1>4
    <3>3. Intersects(Claimed(c, p), Claimed(c, loose))
      BY <1>4, <3>1, <3>2 DEF Intersects
    <3>4. QED
      BY <1>4, <1>5, <3>3 DEF Held, Apart
  <2>3. QED
    BY <1>3, <1>7, <2>1, <2>2 DEF Same
<1>10. Owned(e, d)
  <2> SUFFICES ASSUME NEW j \in Entry, Kept(e, d, j) PROVE \E p \in Claims(d) : Same(e[j], Claimed(d, p))
    BY DEF Owned
  <2>1. j # i /\ Kept(b, c, j) /\ e[j] = b[j]
    BY <1>3
  <2>2. PICK p \in Claims(c) : Same(b[j], Claimed(c, p))
    BY <2>1 DEF Held, Owned
  <2>3. p # loose
    <3> SUFFICES ASSUME p = loose PROVE FALSE
      OBVIOUS
    <3>1. b[j].at = b[i].at /\ b[j].bytes = b[i].bytes
      BY <1>4, <2>2 DEF Same
    <3>2. b[i].bytes # 0 /\ b[i].at \in Nat /\ b[i].bytes \in Nat
      BY <1>1, <1>2, <1>4
    <3>3. Intersects(b[i], b[j])
      BY <3>1, <3>2 DEF Intersects
    <3>4. QED
      BY <1>4, <2>1, <3>3 DEF Held, Tidy
  <2>4. QED
    BY <1>6, <1>7, <2>1, <2>2, <2>3 DEF Same
<1>11. OneClears(e, d)
  <2>1. b[i].bytes # 0
    BY <1>2, <1>4
  <2>2. QED
    BY <2>1 DEF OneClears
<1>12. Tidy(e, d)
  BY <1>3 DEF Held, Tidy
<1>13. Passed(e, d)
  <2> SUFFICES ASSUME NEW t \in PoolSession PROVE PassedBy(e, d, d[t])
    BY DEF Passed
  <2>1. CASE t = s
    BY <2>1 DEF PassedBy
  <2>2. CASE t # s
    <3>1. PassedBy(b, c, c[t])
      BY DEF Held, Passed
    <3>2. \A j \in Entry : Kept(e, d, j) => Kept(b, c, j) /\ e[j] = b[j]
      BY <1>3
    <3>3. \A x : Intersects(d[t].work, x) = Intersects(c[t].work, x)
      BY <2>2 DEF Intersects
    <3>4. QED
      BY <2>2, <3>1, <3>2, <3>3 DEF PassedBy
  <2>3. QED
    BY <2>1, <2>2
<1>14. QED
  BY <1>8, <1>9, <1>10, <1>11, <1>12, <1>13 DEF Held

(* What a disturbed session still is.                                       *)
LEMMA StirredStands ==
  ASSUME NEW c \in [PoolSession -> Client], NEW d, Stirred(c, d), NEW t \in PoolSession, Standing(c[t])
  PROVE  Standing(d[t]) /\ Inside(d[t]) = Inside(c[t])
<1>1. d[t] \in Client
  BY DEF Stirred
<1>2. /\ d[t].pc = c[t].pc /\ d[t].closing = c[t].closing /\ d[t].surfaces = c[t].surfaces
      /\ d[t].work.at = c[t].work.at /\ d[t].work.bytes = c[t].work.bytes /\ d[t].work.entry = c[t].work.entry
      /\ d[t].work.moved = c[t].work.moved /\ d[t].work.extent = c[t].work.extent
  BY DEF Stirred
<1>3. QED
  BY <1>1, <1>2 DEF Standing, Inside, Fits

LEMMA Afterwards ==
  ASSUME PoolsInv, NEW s \in PoolSession
  PROVE  PoolAfter(s) \in Quiet /\ PoolAfter(s) \in Pcs /\ (PoolAfter(s) = "cleanup") = client[s].closing
         /\ PoolAfter(s) \in {"cleanup", "open"}
<1>1. client[s].closing \in BOOLEAN
  BY DEF PoolsInv, Client
<1>2. QED
  BY <1>1 DEF PoolAfter, Quiet, Pcs

LEMMA FindKeeps == ASSUME PoolsInv, NEW s \in PoolSession, FindEntry(s) PROVE PoolsInv'
<1> DEFINE w == client[s].work
           found == {i \in Entry : IsEntry(blocks[i], w)}
<1>1. /\ client[s].pc = "find" /\ UNCHANGED <<inFlight, fences>> /\ w \in Search /\ w.bytes # 0 /\ Standing(client[s])
      /\ blocks \in [Entry -> Block] /\ client \in [PoolSession -> Client]
  BY DEF FindEntry, PoolsInv, Standing, Client
<1>2. CASE found = {} /\ client' = [client EXCEPT ![s].pc = PoolAfter(s), ![s].work = NoWork] /\ UNCHANGED <<blocks, overtaken>>
  <2> DEFINE pc == PoolAfter(s)
  <2>1. pc \in Quiet /\ pc \in Pcs /\ (pc = "cleanup") = client[s].closing /\ pc \in {"cleanup", "open"}
    BY Afterwards
  <2>2. client' = [client EXCEPT ![s].pc = pc, ![s].work = NoWork]
    BY <1>2
  <2> HIDE DEF pc
  <2>3. Moves(s, pc, NoWork) /\ Rest
    BY <1>1, <1>2, <2>1, <2>2, Moving, NoWorkTyped DEF Rest
  <2>4. overtaken
    <3> SUFFICES ASSUME ~overtaken PROVE FALSE
      OBVIOUS
    <3>1. Held(blocks, client)
      BY DEF PoolsInv
    <3>2. <<s, 0>> \in Claims(client) /\ Claimed(client, <<s, 0>>) = w
      BY <1>1 DEF Claims, Claimed
    <3>3. PICK i \in Entry : Same(blocks[i], w)
      BY <3>1, <3>2 DEF Held, Listed
    <3>4. QED
      BY <1>2, <3>3 DEF IsEntry, Same
  <2>5. Standing(client'[s]) /\ Seek(blocks, client'[s]) /\ (Inside(client'[s]) => Inside(client[s]))
    BY <1>1, <2>1, <2>3, NoWorkTyped DEF Moves, Standing, Seek, Inside
  <2>6. QED
    BY <1>1, <2>1, <2>3, <2>4, <2>5, MovesKeeps
<1>3. ASSUME NEW i \in found, blocks' = [blocks EXCEPT ![i].at = 0],
             client' = Disturbed([client EXCEPT ![s].pc = "clear", ![s].work.entry = i]),
             overtaken' = (overtaken \/ \E t \in PoolSession : client[t].pc = "clear")
      PROVE  PoolsInv'
  <2> DEFINE v == [w EXCEPT !.entry = i]
             c == [client EXCEPT ![s].pc = "clear", ![s].work = v]
             d == client'
             cell == [blocks[i] EXCEPT !.at = 0]
  <2>1. i \in Entry /\ Same(blocks[i], w) /\ i \in 1 .. MAX_AUX_SURFACES + 1
    BY PoolConsts DEF Entry, IsEntry, Same
  <2>2. v \in Search /\ v.at = w.at /\ v.bytes = w.bytes /\ v.entry = i /\ v.moved = w.moved
    BY <1>1, <2>1 DEF Search
  <2>3. cell \in Block /\ cell.bytes = blocks[i].bytes
    <3>1. 0 \in 0 .. AuxSurfaceBytes - 1
      BY PoolConsts
    <3>2. QED
      BY <1>1, <2>1, <3>1 DEF Block
  <2>4. blocks' = [blocks EXCEPT ![i] = cell]
    BY <1>3
  <2> HIDE DEF cell
  <2>5. blocks' \in [Entry -> Block] /\ blocks'[i].bytes = blocks[i].bytes /\ \A j \in Entry : j # i => blocks'[j] = blocks[j]
    BY <1>1, <2>1, <2>3, <2>4
  <2>6. c = [client EXCEPT ![s].pc = "clear", ![s].work.entry = i]
    BY <1>1
  <2>16. d = Disturbed(c)
    BY <1>3, <2>6
  <2> HIDE DEF v
  <2>7. /\ c \in [PoolSession -> Client] /\ c[s].pc = "clear" /\ c[s].work = v /\ c[s].surfaces = client[s].surfaces
        /\ c[s].closing = client[s].closing /\ c[s].lastFence = client[s].lastFence /\ c[s].current = client[s].current
        /\ \A t \in PoolSession : t # s => c[t] = client[t]
    <3>1. "clear" \in Pcs
      BY DEF Pcs
    <3>2. QED
      BY <1>1, <2>2, <3>1 DEF Client
  <2> HIDE DEF c
  <2>8. Stirred(c, d)
    BY <2>7, <2>16, Stirring
  <2>9. \A t \in PoolSession : Standing(c[t]) /\ (Inside(c[t]) => Inside(client[t]))
    <3>1. Standing(c[s])
      BY <1>1, <2>1, <2>2, <2>7 DEF Standing
    <3>2. Inside(c[s]) => Inside(client[s])
      BY <1>1, <2>7 DEF Inside
    <3>3. QED
      BY <2>7, <3>1, <3>2 DEF PoolsInv
  <2>10. \A t \in PoolSession : Standing(d[t]) /\ (Inside(d[t]) => Inside(client[t]))
    BY <2>7, <2>8, <2>9, StirredStands
  <2>11. Alone(d)
    BY <2>10, StaysAlone
  <2>12. \A t \in PoolSession : Seek(blocks', d[t])
    BY <2>8 DEF Seek, Stirred
  <2>13. Flight(inFlight, d, fences)
    <3>1. \A t \in PoolSession :
           /\ d[t].surfaces = client[t].surfaces /\ d[t].current = client[t].current
           /\ d[t].closing = client[t].closing /\ d[t].lastFence = client[t].lastFence
           /\ client[t].pc # "closed" => d[t].pc # "closed"
      BY <1>1, <2>7, <2>8 DEF Stirred
    <3>2. Flight(inFlight, client, fences)
      BY DEF PoolsInv
    <3>3. QED
      BY <3>1, <3>2, FlightSame
  <2>14. ASSUME ~overtaken' PROVE Held(blocks', d)
    <3>1. ~overtaken /\ \A t \in PoolSession : client[t].pc # "clear"
      BY <1>3, <2>14
    <3>2. Held(blocks, client)
      BY <3>1 DEF PoolsInv
    <3>3. d[s].pc = "clear" /\ d[s].work.entry = i /\ d[s].surfaces = client[s].surfaces /\ d \in [PoolSession -> Client]
      BY <2>2, <2>7, <2>8 DEF Stirred
    <3>4. \A t \in PoolSession : t # s =>
           /\ d[t].pc = client[t].pc /\ d[t].surfaces = client[t].surfaces
           /\ d[t].work.at = client[t].work.at /\ d[t].work.bytes = client[t].work.bytes
           /\ d[t].work.entry = client[t].work.entry /\ d[t].work.moved = client[t].work.moved
      BY <2>7, <2>8 DEF Stirred
    <3>6. PICK dd : dd = d
      OBVIOUS
    <3>7. PICK e : e = blocks'
      OBVIOUS
    <3>8. e[i].bytes = blocks[i].bytes /\ \A j \in Entry : j # i => e[j] = blocks[j]
      BY <2>5, <3>7
    <3>9. dd \in [PoolSession -> Client] /\ dd[s].pc = "clear" /\ dd[s].work.entry = i /\ dd[s].surfaces = client[s].surfaces
      BY <3>3, <3>6
    <3>10. \A t \in PoolSession : t # s =>
           /\ dd[t].pc = client[t].pc /\ dd[t].surfaces = client[t].surfaces
           /\ dd[t].work.at = client[t].work.at /\ dd[t].work.bytes = client[t].work.bytes
           /\ dd[t].work.entry = client[t].work.entry /\ dd[t].work.moved = client[t].work.moved
      BY <3>4, <3>6
    <3>12. Finds(blocks, client, s, i, e, dd)
      BY <1>1, <2>1, <3>1, <3>8, <3>9, <3>10 DEF Finds
    <3>11. Held(e, dd)
      BY <1>1, <2>1, <3>2, <3>12, Finding
    <3>5. QED
      BY <3>6, <3>7, <3>11
  <2>15. QED
    <3>1. overtaken' \in BOOLEAN
      BY <1>3
    <3>2. QED
      BY <1>1, <2>5, <2>8, <2>10, <2>11, <2>12, <2>13, <2>14, <3>1 DEF PoolsInv, Stirred
<1>4. QED
  BY <1>2, <1>3 DEF FindEntry

LEMMA ClearKeeps == ASSUME PoolsInv, NEW s \in PoolSession, ClearEntry(s) PROVE PoolsInv'
<1> DEFINE k == client[s].work.entry
           pc == PoolAfter(s)
           cell == [blocks[k] EXCEPT !.bytes = 0]
           c == [client EXCEPT ![s].pc = pc, ![s].work = NoWork]
           d == client'
<1>1. /\ client[s].pc = "clear" /\ UNCHANGED <<inFlight, fences, overtaken>> /\ Standing(client[s]) /\ k \in Entry
      /\ blocks \in [Entry -> Block] /\ client \in [PoolSession -> Client]
  BY DEF ClearEntry, PoolsInv, Standing
<1>2. blocks' = [blocks EXCEPT ![k] = cell] /\ d = Disturbed(c)
  BY DEF ClearEntry
<1>3. pc \in Quiet /\ pc \in Pcs /\ (pc = "cleanup") = client[s].closing /\ pc \in {"cleanup", "open"}
  BY Afterwards
<1>4. cell \in Block /\ cell.bytes = 0
  <2>1. 0 \in 0 .. AuxSurfaceBytes
    BY PoolConsts
  <2>2. QED
    BY <1>1, <2>1 DEF Block
<1> HIDE DEF cell, pc
<1>5. blocks' \in [Entry -> Block] /\ blocks'[k].bytes = 0 /\ \A j \in Entry : j # k => blocks'[j] = blocks[j]
  BY <1>1, <1>2, <1>4
<1>6. /\ c \in [PoolSession -> Client] /\ c[s].pc = pc /\ c[s].work = NoWork /\ c[s].surfaces = client[s].surfaces
      /\ c[s].closing = client[s].closing /\ c[s].lastFence = client[s].lastFence /\ c[s].current = client[s].current
      /\ \A t \in PoolSession : t # s => c[t] = client[t]
  BY <1>1, <1>3, NoWorkTyped DEF Client
<1> HIDE DEF c
<1>8. Stirred(c, d)
  BY <1>2, <1>6, Stirring
<1>9. \A t \in PoolSession : Standing(c[t]) /\ (Inside(c[t]) => Inside(client[t]))
  <2>1. Standing(c[s])
    BY <1>1, <1>3, <1>6, NoWorkTyped DEF Standing
  <2>2. Inside(c[s]) => Inside(client[s])
    BY <1>1, <1>6 DEF Inside
  <2>3. QED
    BY <1>6, <2>1, <2>2 DEF PoolsInv
<1>10. \A t \in PoolSession : Standing(d[t]) /\ (Inside(d[t]) => Inside(client[t]))
  BY <1>6, <1>8, <1>9, StirredStands
<1>11. Alone(d)
  BY <1>10, StaysAlone
<1>12. \A t \in PoolSession : Seek(blocks', d[t])
  BY <1>8 DEF Seek, Stirred
<1>13. Flight(inFlight, d, fences)
  <2>1. \A t \in PoolSession :
         /\ d[t].surfaces = client[t].surfaces /\ d[t].current = client[t].current
         /\ d[t].closing = client[t].closing /\ d[t].lastFence = client[t].lastFence
         /\ client[t].pc # "closed" => d[t].pc # "closed"
    BY <1>3, <1>6, <1>8 DEF Stirred, Quiet
  <2>2. Flight(inFlight, client, fences)
    BY DEF PoolsInv
  <2>3. QED
    BY <2>1, <2>2, FlightSame
<1>14. ASSUME ~overtaken PROVE Held(blocks', d)
  <2>1. Held(blocks, client)
    BY <1>14 DEF PoolsInv
  <2>2. /\ d[s].pc \in {"cleanup", "open"} /\ d[s].surfaces = client[s].surfaces
        /\ \A t \in PoolSession : t # s =>
           /\ d[t].pc = client[t].pc /\ d[t].surfaces = client[t].surfaces
           /\ d[t].work.at = client[t].work.at /\ d[t].work.bytes = client[t].work.bytes
           /\ d[t].work.entry = client[t].work.entry /\ d[t].work.moved = client[t].work.moved
    BY <1>3, <1>6, <1>8 DEF Stirred
  <2>3. \A t \in PoolSession : client[t].pc = "clear" => t = s
    BY <1>1, <2>1 DEF Held, OneClears
  <2>4. \A t \in PoolSession : d[t].pc # "clear"
    BY <2>2, <2>3
  <2>5. \A j : Clearing(client, j) <=> j = k
    BY <1>1, <2>3 DEF Clearing
  <2>6. \A j : ~Clearing(d, j)
    BY <2>4 DEF Clearing
  <2>7. \A j \in Entry : Kept(blocks', d, j) = Kept(blocks, client, j)
    BY <1>5, <2>5, <2>6 DEF Kept
  <2>8. \A j \in Entry : Kept(blocks, client, j) => blocks'[j] = blocks[j]
    BY <1>5, <2>5 DEF Kept
  <2>9. Claims(d) = Claims(client)
    BY <1>1, <2>2 DEF Claims
  <2>10. \A p \in Claims(client) : Same(Claimed(d, p), Claimed(client, p))
    BY <1>1, <2>2 DEF Claims, Claimed, Same
  <2>11. Apart(d)
    <3> SUFFICES ASSUME NEW p \in Claims(client), NEW q \in Claims(client), p # q
                 PROVE  ~Intersects(Claimed(d, p), Claimed(d, q))
      BY <2>9 DEF Apart
    <3>1. ~Intersects(Claimed(client, p), Claimed(client, q))
      BY <2>1 DEF Held, Apart
    <3>2. QED
      BY <2>10, <3>1 DEF Intersects, Same
  <2>12. Listed(blocks', d)
    <3> SUFFICES ASSUME NEW p \in Claims(client)
                 PROVE \E j \in Entry : Kept(blocks', d, j) /\ Same(blocks'[j], Claimed(d, p))
      BY <2>9 DEF Listed
    <3>1. PICK j \in Entry : Kept(blocks, client, j) /\ Same(blocks[j], Claimed(client, p))
      BY <2>1 DEF Held, Listed
    <3>2. QED
      BY <2>7, <2>8, <2>10, <3>1 DEF Same
  <2>13. Owned(blocks', d)
    <3> SUFFICES ASSUME NEW j \in Entry, Kept(blocks', d, j) PROVE \E p \in Claims(client) : Same(blocks'[j], Claimed(d, p))
      BY <2>9 DEF Owned
    <3>1. PICK p \in Claims(client) : Same(blocks[j], Claimed(client, p))
      BY <2>1, <2>7 DEF Held, Owned
    <3>2. QED
      BY <2>7, <2>8, <2>10, <3>1 DEF Same
  <2>14. OneClears(blocks', d)
    BY <2>4 DEF OneClears
  <2>15. Tidy(blocks', d)
    BY <2>1, <2>7, <2>8 DEF Held, Tidy
  <2>16. Passed(blocks', d)
    <3> SUFFICES ASSUME NEW t \in PoolSession PROVE PassedBy(blocks', d, d[t])
      BY DEF Passed
    <3>1. CASE t = s
      BY <2>2, <3>1 DEF PassedBy
    <3>2. CASE t # s
      <4>1. PassedBy(blocks, client, client[t])
        BY <2>1 DEF Held, Passed
      <4>2. \A x : Intersects(d[t].work, x) = Intersects(client[t].work, x)
        BY <2>2, <3>2 DEF Intersects
      <4>3. QED
        BY <2>2, <2>7, <2>8, <3>2, <4>1, <4>2 DEF PassedBy
    <3>3. QED
      BY <3>1, <3>2
  <2>17. QED
    BY <2>11, <2>12, <2>13, <2>14, <2>15, <2>16 DEF Held
<1>15. QED
  BY <1>1, <1>5, <1>8, <1>10, <1>11, <1>12, <1>13, <1>14 DEF PoolsInv, Stirred

LEMMA PoolsInvInitial == ASSUME PoolsInit PROVE PoolsInv
<1>1. /\ blocks = [i \in Entry |-> NoBlock] /\ client = [s \in PoolSession |-> ClosedSession]
      /\ inFlight = <<>> /\ fences = 0 /\ overtaken = FALSE
  BY DEF PoolsInit
<1>2. NoBlock \in Block /\ NoBlock.bytes = 0
  BY PoolConsts DEF NoBlock, Block
<1>3. blocks \in [Entry -> Block] /\ client \in [PoolSession -> Client] /\ \A i \in Entry : blocks[i].bytes = 0
  BY <1>1, <1>2, NoWorkTyped
<1>4. \A s \in PoolSession : Standing(client[s]) /\ ~Inside(client[s]) /\ client[s].pc = "closed"
                             /\ client[s].surfaces = <<>>
  <2>1. ClosedSession.pc = "closed" /\ ClosedSession.surfaces = <<>>
    BY DEF ClosedSession
  <2>2. QED
    BY <1>1, <2>1, NoWorkTyped
<1>5. Flight(inFlight, client, fences)
  <2>1. 0 \in 0 .. MaxFence
    BY PoolConsts
  <2>2. QED
    BY <1>1, <2>1, NothingFlies
<1>6. \A p : p \notin Claims(client)
  BY <1>4, EmptySeq DEF Claims
<1>7. \A i \in Entry : ~Kept(blocks, client, i)
  BY <1>3 DEF Kept
<1>8. Held(blocks, client)
  BY <1>4, <1>6, <1>7 DEF Held, Apart, Listed, Owned, OneClears, Tidy, Passed, PassedBy
<1>9. overtaken \in BOOLEAN
  BY <1>1
<1>10. Alone(client)
  BY <1>4 DEF Alone
<1>11. \A s \in PoolSession : Seek(blocks, client[s])
  BY <1>4 DEF Seek
<1>12. QED
  BY <1>3, <1>4, <1>5, <1>8, <1>9, <1>10, <1>11 DEF PoolsInv

LEMMA PoolsInvKept == ASSUME PoolsInv, [PoolsNext]_poolvars PROVE PoolsInv'
<1>1. CASE FinishWork
  BY <1>1, FinishKeeps
<1>2. ASSUME NEW s \in PoolSession,
             \/ SurfaceOpen(s) \/ AllocSurface(s) \/ ScanBlock(s) \/ TakeEntry(s)
             \/ SubmitFenced(s) \/ DispatchUnfenced(s)
             \/ ReleaseSurface(s) \/ SurfaceClose(s) \/ CleanupSurface(s)
             \/ FindEntry(s) \/ ClearEntry(s)
      PROVE  PoolsInv'
  BY <1>2, OpenKeeps, AllocKeeps, ScanKeeps, TakeKeeps, SubmitFencedKeeps, DispatchKeeps, ReleaseKeeps,
     CloseKeeps, CleanupKeeps, FindKeeps, ClearKeeps
<1>3. CASE UNCHANGED poolvars
  <2>1. UNCHANGED <<blocks, client, inFlight, fences, overtaken>>
    BY <1>3 DEF poolvars
  <2>2. Flight(inFlight, client, fences) /\ client \in [PoolSession -> Client]
    BY DEF PoolsInv
  <2>3. QED
    BY <2>1, <2>2, RightsKeep
<1>4. QED
  BY <1>1, <1>2, <1>3 DEF PoolsNext

(* A session has at most as many surfaces as the table has entries.         *)
LEMMA OneEntryEach ==
  ASSUME PoolsInv, ~overtaken, NEW s \in PoolSession
  PROVE  Len(client[s].surfaces) <= MAX_AUX_SURFACES
<1> DEFINE n == Len(client[s].surfaces)
           At(k) == CHOOSE i \in Entry : Kept(blocks, client, i) /\ Same(blocks[i], client[s].surfaces[k])
           f == [k \in 1 .. n |-> At(k)]
<1>1. Held(blocks, client) /\ client \in [PoolSession -> Client] /\ blocks \in [Entry -> Block]
  BY DEF PoolsInv
<1>2. n \in Nat
  <2>1. client[s].surfaces \in Seq(Room)
    BY <1>1 DEF Client
  <2>2. QED
    BY <2>1
<1> HIDE DEF n
<1>3. \A k \in 1 .. n : <<s, k>> \in Claims(client) /\ Claimed(client, <<s, k>>) = client[s].surfaces[k]
  BY <1>2 DEF Claims, Claimed, n
<1>4. ASSUME NEW k \in 1 .. n
      PROVE  At(k) \in Entry /\ Kept(blocks, client, At(k)) /\ Same(blocks[At(k)], client[s].surfaces[k])
  <2>1. \E i \in Entry : Kept(blocks, client, i) /\ Same(blocks[i], client[s].surfaces[k])
    BY <1>1, <1>3 DEF Held, Listed
  <2>2. QED
    BY <2>1
<1>5. ASSUME NEW k \in 1 .. n, NEW l \in 1 .. n, At(k) = At(l) PROVE k = l
  <2> SUFFICES ASSUME k # l PROVE FALSE
    OBVIOUS
  <2> DEFINE i == At(k)
  <2>1. i \in Entry /\ Kept(blocks, client, i) /\ Same(blocks[i], client[s].surfaces[k]) /\ Same(blocks[i], client[s].surfaces[l])
    BY <1>4, <1>5
  <2> HIDE DEF i
  <2>2. blocks[i].at \in Nat /\ blocks[i].bytes \in Nat /\ blocks[i].bytes # 0
    BY <1>1, <2>1, PoolConsts DEF Block, Kept
  <2>3. Intersects(client[s].surfaces[k], client[s].surfaces[l])
    BY <2>1, <2>2 DEF Intersects, Same
  <2>4. <<s, k>> # <<s, l>>
    OBVIOUS
  <2>5. QED
    BY <1>1, <1>3, <2>3, <2>4 DEF Held, Apart
<1> HIDE DEF At
<1>6. f \in Injection(1 .. n, Entry)
  <2>1. f \in [1 .. n -> Entry]
    BY <1>4
  <2>2. \A a, b \in 1 .. n : f[a] = f[b] => a = b
    BY <1>5
  <2> HIDE DEF f
  <2>3. QED
    BY <2>1, <2>2 DEF Injection, IsInjective
<1> HIDE DEF f
<1>7. IsFiniteSet(Entry) /\ Cardinality(Entry) = MAX_AUX_SURFACES
  <2>1. 1 \in Int /\ MAX_AUX_SURFACES \in Int
    BY PoolConsts
  <2>2. IsFiniteSet(Entry) /\ Cardinality(Entry) = IF 1 > MAX_AUX_SURFACES THEN 0 ELSE MAX_AUX_SURFACES - 1 + 1
    BY <2>1, FS_Interval DEF Entry
  <2>3. QED
    BY <2>2, PoolConsts
<1>8. Cardinality(1 .. n) = n
  <2>1. 1 \in Int /\ n \in Int
    BY <1>2
  <2>2. Cardinality(1 .. n) = IF 1 > n THEN 0 ELSE n - 1 + 1
    BY <2>1, FS_Interval
  <2>3. QED
    BY <1>2, <2>2
<1>9. Cardinality(1 .. n) <= Cardinality(Entry)
  BY <1>6, <1>7, FS_Injection
<1>10. QED
  BY <1>7, <1>8, <1>9 DEF n

LEMMA PoolsTyped == ASSUME PoolsInv PROVE PoolsTypeOK
<1>1. blocks \in [Entry -> [at : 0 .. AuxSurfaceBytes - 1, bytes : 0 .. AuxSurfaceBytes]]
  BY DEF PoolsInv, Block
<1>2. ASSUME NEW s \in PoolSession
      PROVE  /\ client[s].pc \in {"closed", "open", "scan", "take", "cleanup", "find", "clear"}
             /\ client[s].lastFence \in 0 .. MaxFence
             /\ client[s].work.entry \in 1 .. MAX_AUX_SURFACES + 1
             /\ ~overtaken => Len(client[s].surfaces) <= MAX_AUX_SURFACES
  <2>1. client[s] \in Client
    BY DEF PoolsInv
  <2>2. QED
    BY <2>1, OneEntryEach DEF Client, Pcs, Search
<1>3. Len(inFlight) <= MaxInFlight /\ fences \in 0 .. MaxFence /\ overtaken \in BOOLEAN
  BY DEF PoolsInv, Flight
<1>4. QED
  BY <1>1, <1>2, <1>3 DEF PoolsTypeOK

LEMMA PoolsApart == ASSUME PoolsInv PROVE SurfacesDisjoint
<1> SUFFICES ASSUME ~overtaken
             PROVE  /\ \A p, q \in Surfaces : p # q => ~Intersects(SurfaceAt(p), SurfaceAt(q))
                    /\ \A p \in Surfaces : /\ SurfaceAt(p).at + SurfaceAt(p).bytes <= AuxSurfaceBytes
                                            /\ SurfaceAt(p).extent <= SurfaceAt(p).bytes
  BY DEF SurfacesDisjoint
<1>1. ASSUME NEW p \in Surfaces
      PROVE  p \in Claims(client) /\ SurfaceAt(p) = Claimed(client, p) /\ Roomy(SurfaceAt(p))
  <2>1. p[1] \in PoolSession /\ p[2] \in Entry /\ p[2] \in DOMAIN client[p[1]].surfaces /\ p \in PoolSession \X Entry
    BY DEF Surfaces
  <2>2. client[p[1]] \in Client /\ Standing(client[p[1]])
    BY <2>1 DEF PoolsInv
  <2>3. client[p[1]].surfaces \in Seq(Room)
    BY <2>2 DEF Client
  <2>4. p[2] \in 1 .. Len(client[p[1]].surfaces) /\ p[2] # 0 /\ p[2] \in Nat
    BY <2>1, <2>3, PoolConsts, SMTT(60) DEF Entry
  <2>5. QED
    BY <2>1, <2>2, <2>4 DEF Claims, Claimed, SurfaceAt, Standing
<1>2. QED
  BY <1>1 DEF PoolsInv, Held, Apart, Roomy

LEMMA PoolsKept == ASSUME PoolsInv PROVE PoolNotLeaked
<1> SUFFICES ASSUME ~overtaken, NEW i \in Entry, blocks[i].bytes # 0
             PROVE  \/ \E p \in Surfaces : Same(blocks[i], SurfaceAt(p))
                    \/ \E s \in PoolSession :
                         \/ client[s].pc = "find" /\ Same(blocks[i], client[s].work)
                         \/ client[s].pc = "clear" /\ client[s].work.entry = i
  BY DEF PoolNotLeaked
<1>1. CASE Clearing(client, i)
  BY <1>1 DEF Clearing
<1>2. CASE ~Clearing(client, i)
  <2>1. Kept(blocks, client, i) /\ Held(blocks, client)
    BY <1>2 DEF Kept, PoolsInv
  <2>2. PICK p \in Claims(client) : Same(blocks[i], Claimed(client, p))
    BY <2>1 DEF Held, Owned
  <2>3. p[1] \in PoolSession /\ p[2] \in Nat /\ p \in PoolSession \X Nat
        /\ (p[2] \in 1 .. Len(client[p[1]].surfaces) \/ (p[2] = 0 /\ client[p[1]].pc = "find"))
    BY DEF Claims
  <2>4. CASE p[2] = 0
    <3>1. client[p[1]].pc = "find" /\ Same(blocks[i], client[p[1]].work)
      BY <2>2, <2>3, <2>4 DEF Claimed
    <3>2. QED
      BY <2>3, <3>1
  <2>5. CASE p[2] # 0
    <3>1. p[2] \in 1 .. Len(client[p[1]].surfaces) /\ Len(client[p[1]].surfaces) <= MAX_AUX_SURFACES
      BY <2>3, <2>5, OneEntryEach
    <3>2. client[p[1]].surfaces \in Seq(Room)
      BY <2>3 DEF PoolsInv, Client
    <3>3. p[2] \in DOMAIN client[p[1]].surfaces /\ p[2] \in Entry
      BY <3>1, <3>2, PoolConsts DEF Entry
    <3>4. p \in PoolSession \X Entry
      BY <2>3, <3>3
    <3>5. p \in Surfaces
      BY <3>3, <3>4 DEF Surfaces
    <3>6. Same(blocks[i], SurfaceAt(p))
      BY <2>2, <2>5 DEF SurfaceAt, Claimed
    <3>7. QED
      BY <3>5, <3>6
  <2>6. QED
    BY <2>4, <2>5
<1>3. QED
  BY <1>1, <1>2

LEMMA PoolsFit == ASSUME PoolsInv PROVE FirstFit
<1> SUFFICES ASSUME NEW s \in PoolSession, client[s].pc = "scan", client[s].work.quiet,
                    NEW at \in 0 .. client[s].work.at - 1
             PROVE  \E i \in Entry : blocks[i].bytes # 0 /\
                      Intersects([at |-> at, bytes |-> client[s].work.bytes], blocks[i])
  BY DEF FirstFit
<1>1. client[s].work.at \in Nat /\ Seek(blocks, client[s])
  BY DEF PoolsInv, Client, Search
<1>2. QED
  BY <1>1 DEF Seek

LEMMA PoolsFly == ASSUME PoolsInv PROVE FencedWorkKeepsTarget
<1> SUFFICES ASSUME NEW i \in DOMAIN inFlight, inFlight[i].fence # 0
             PROVE  inFlight[i].target \in ToSet(client[inFlight[i].by].surfaces)
  BY DEF FencedWorkKeepsTarget
<1>1. Flight(inFlight, client, fences) /\ client \in [PoolSession -> Client]
  BY DEF PoolsInv
<1>2. inFlight \in Seq(Work3)
  BY <1>1 DEF Flight
<1>3. i \in 1 .. Len(inFlight) /\ inFlight[i] \in Work3
  BY <1>2
<1> DEFINE t == inFlight[i].by
<1>4. t \in PoolSession
  BY <1>3 DEF Work3
<1>5. PICK k \in 1 .. Len(client[t].surfaces) : client[t].surfaces[k] = inFlight[i].target
  BY <1>1, <1>3 DEF Flight
<1> HIDE DEF t
<1>6. client[t].surfaces \in Seq(Room)
  BY <1>1, <1>4 DEF Client
<1>7. k \in DOMAIN client[t].surfaces
  BY <1>6
<1>8. QED
  BY <1>5, <1>7 DEF ToSet, t

------------------------------------------------------------------------------
(* The samples.  A slot whose number is not 0 holds one whole sample of that *)
(* number; the last samples are all in their slots, but for the one that is  *)
(* about to be overwritten; and what a reader has copied of a slot is of the *)
(* sample it looks for, as long as the slot has that number.                 *)

Slots == 0 .. SAMPLE_RING_SIZE - 1
Sample == [Words -> Nat]
Whole(e) == \A w \in Field : e[w] = e["Seq"]
All(n) == [w \in Words |-> n]

(* The number that is being written or is the last, and the last published. *)
Top(w, n) == IF w.pc = "idle" THEN n ELSE n + 1
Published(w, n) == IF w.pc = "count" THEN n + 1 ELSE n

WriterTyped(w) ==
  /\ w \in [pc : {"idle", "fill", "count"}, left : SUBSET Field]
  /\ w.pc = "idle" => w = Idling

Numbered(r, w, n) ==
  \A i \in Slots : r[i]["Seq"] # 0 => r[i]["Seq"] <= Published(w, n) /\ Whole(r[i])
Present(r, w, n) ==
  \A k \in 1 .. Published(w, n) : k > Top(w, n) - SAMPLE_RING_SIZE => r[SlotIndex(k)]["Seq"] = k
Filling(r, w, n) ==
  w.pc = "fill" => /\ r[SlotIndex(n + 1)]["Seq"] = 0
                   /\ \A f \in Field \ w.left : r[SlotIndex(n + 1)][f] = n + 1
RingGood(r, w, n) ==
  /\ r \in [Slots -> Sample]
  /\ Numbered(r, w, n) /\ Present(r, w, n) /\ Filling(r, w, n)

(* What the reader copies is one sample as long as its slot has the number. *)
Copying(d, r) ==
  d.pc = "copy" /\ r[SlotIndex(d.next)]["Seq"] = d.next => \A w \in Words \ d.left : d.copy[w] = d.next
ReaderGood(d, r, n) ==
  /\ d \in [pc : {"check", "copy"}, seq : 1 .. n, next : Nat, left : SUBSET Words, copy : Sample]
  /\ FirstSeq(d.seq) <= d.next /\ d.next <= d.seq + 1 /\ (d.pc = "copy" => d.next <= d.seq)
  /\ Copying(d, r)

(* A reader that nobody overtakes has every sample up to where it is.       *)
Gathered(a, d, r, w, n) ==
  d.pc # "idle" /\ d.seq = n /\ w.pc = "idle" =>
    /\ a = {All(k) : k \in FirstSeq(n) .. d.next - 1}
    /\ d.pc = "copy" => r[SlotIndex(d.next)]["Seq"] = d.next

SamplesInv ==
  /\ timer \in {"none", "open", "failed"} /\ sampleSeq \in 0 .. MaxSample /\ WriterTyped(writer)
  /\ reader.pc = "idle" => reader = NotReading
  /\ ring = NoRing => sampleSeq = 0 /\ writer = Idling /\ reader = NotReading
  /\ ring # NoRing => timer = "open" /\ RingGood(ring, writer, sampleSeq)
                      /\ (reader.pc # "idle" => ReaderGood(reader, ring, sampleSeq))
  /\ writer.pc # "idle" => sampleSeq < MaxSample
  /\ \A c \in accepted : Whole(c)
  /\ Gathered(accepted, reader, ring, writer, sampleSeq)

LEMMA SampleConsts ==
  /\ SAMPLE_RING_SIZE \in Nat /\ SAMPLE_RING_SIZE > 0 /\ MaxSample \in Nat /\ "Seq" \notin Field
  /\ Words = {"Seq"} \cup Field /\ 0 \in Slots
BY SamplesAssumption DEF Words, Slots

LEMMA Divides == ASSUME NEW m \in Int, NEW a \in Nat, a > 0 PROVE m = a * (m \div a) + (m % a)
BY Z3

LEMMA NoMultiple == ASSUME NEW k \in Int, NEW a \in Nat, a > 0, 0 < a * k PROVE a <= a * k
<1>1. k >= 1
  BY Z3
<1>2. QED
  BY <1>1, Z3

LEMMA NearApart ==
  ASSUME NEW m \in Nat, NEW n \in Nat, NEW a \in Nat, a > 0, m < n, n < m + a
  PROVE  m % a # n % a
<1> SUFFICES ASSUME m % a = n % a PROVE FALSE
  OBVIOUS
<1> DEFINE p == m \div a
           q == n \div a
           r == m % a
<1>1. p \in Int /\ q \in Int /\ r \in Int
  OBVIOUS
<1>2. m = a * p + r /\ n = a * q + r
  BY Divides
<1> HIDE DEF p, q, r
<1>3. a * (q - p) = n - m
  <2>1. a * (q - p) = a * q - a * p
    BY <1>1
  <2>2. QED
    BY <1>1, <1>2, <2>1
<1>4. q - p \in Int
  BY <1>1
<1>5. a <= a * (q - p)
  BY <1>3, <1>4, NoMultiple
<1>6. QED
  BY <1>3, <1>5

(* Each number has a slot, and numbers less than a ring apart have two.     *)
LEMMA SlotsApart ==
  /\ \A n \in Nat : n > 0 => SlotIndex(n) \in Slots
  /\ \A m, n \in Nat : m > 0 /\ m < n /\ n < m + SAMPLE_RING_SIZE => SlotIndex(m) # SlotIndex(n)
<1>1. ASSUME NEW n \in Nat, n > 0 PROVE SlotIndex(n) \in Slots
  <2>1. n - 1 \in Nat
    BY <1>1
  <2>2. \A m \in Nat : m % SAMPLE_RING_SIZE \in 0 .. SAMPLE_RING_SIZE - 1
    BY SampleConsts
  <2>3. QED
    BY <2>1, <2>2 DEF SlotIndex, Slots
<1>2. ASSUME NEW m \in Nat, NEW n \in Nat, m > 0, m < n, n < m + SAMPLE_RING_SIZE
      PROVE  SlotIndex(m) # SlotIndex(n)
  <2>1. m - 1 \in Nat /\ n - 1 \in Nat /\ m - 1 < n - 1 /\ n - 1 < (m - 1) + SAMPLE_RING_SIZE
    BY <1>2, SampleConsts
  <2>2. QED
    BY <2>1, NearApart, SampleConsts DEF SlotIndex
<1>3. QED
  BY <1>1, <1>2

LEMMA FirstIsOne == \A n \in Nat : n > 0 => FirstSeq(n) \in 1 .. n /\ FirstSeq(n) > n - SAMPLE_RING_SIZE
BY SampleConsts DEF FirstSeq

LEMMA Nexts == ASSUME NEW d, NEW r, NEW n \in Nat, ReaderGood(d, r, n)
               PROVE  d.next \in Nat /\ d.next >= 1 /\ d.seq \in 1 .. n
<1>1. d.seq \in 1 .. n /\ d.next \in Nat /\ FirstSeq(d.seq) <= d.next
  BY DEF ReaderGood
<1>2. FirstSeq(d.seq) \in 1 .. d.seq
  BY <1>1, FirstIsOne
<1>3. QED
  BY <1>1, <1>2

LEMMA NoRingIsNone == NoRing \notin [Slots -> Sample]
<1>1. DOMAIN NoRing = {}
  BY DEF NoRing
<1>2. \A r \in [Slots -> Sample] : DOMAIN r = Slots
  OBVIOUS
<1>3. QED
  BY <1>1, <1>2, SampleConsts

(* A word stored.                                                           *)
Stores(r, k, w, v, q) == q = [r EXCEPT ![k][w] = v]

LEMMA Storing ==
  ASSUME NEW r \in [Slots -> Sample], NEW k \in Slots, NEW w \in Words, NEW v \in Nat, NEW q, Stores(r, k, w, v, q)
  PROVE  /\ q \in [Slots -> Sample] /\ q[k][w] = v
         /\ \A i \in Slots : i # k => q[i] = r[i]
         /\ \A u \in Words : u # w => q[k][u] = r[k][u]
BY DEF Stores, Sample

LEMMA SamplesInitial == ASSUME SamplesInit PROVE SamplesInv
<1>1. timer = "none" /\ ring = NoRing /\ sampleSeq = 0 /\ writer = Idling /\ reader = NotReading /\ accepted = {}
  BY DEF SamplesInit
<1>2. writer.pc = "idle" /\ WriterTyped(writer) /\ reader.pc = "idle"
  BY <1>1 DEF Idling, WriterTyped, NotReading
<1>3. 0 \in 0 .. MaxSample
  BY SampleConsts
<1>4. QED
  BY <1>1, <1>2, <1>3 DEF SamplesInv, Gathered

(* The slot that is written is nobody's while its number is 0, and what the *)
(* reader has of it is worth nothing.                                       *)
LEMMA BeginKeeps == ASSUME SamplesInv, RecordBegin PROVE SamplesInv'
<1> DEFINE n == sampleSeq
           k == SlotIndex(n + 1)
<1>1. /\ timer = "open" /\ ring # NoRing /\ writer.pc = "idle" /\ n < MaxSample
      /\ ring' = [ring EXCEPT ![k]["Seq"] = 0]
      /\ writer' = [pc |-> "fill", left |-> Field]
      /\ UNCHANGED <<timer, sampleSeq, reader, accepted>>
  BY DEF RecordBegin, Withdrawn
<1>2. RingGood(ring, writer, n) /\ n \in Nat
  BY <1>1, SampleConsts DEF SamplesInv
<1>3. ring \in [Slots -> Sample] /\ k \in Slots /\ "Seq" \in Words /\ 0 \in Nat
  BY <1>2, SlotsApart, SampleConsts DEF RingGood
<1>4. Stores(ring, k, "Seq", 0, ring')
  BY <1>1 DEF Stores
<1> HIDE DEF k
<1>5. ring' \in [Slots -> Sample] /\ ring'[k]["Seq"] = 0
  BY <1>3, <1>4, Storing, SMTT(60)
<1>6. \A i \in Slots : i # k => ring'[i] = ring[i]
  BY <1>3, <1>4, Storing
<1>7. Numbered(ring', writer', n)
  BY <1>1, <1>2, <1>5, <1>6 DEF RingGood, Numbered, Published
<1>21. n \in Int /\ SAMPLE_RING_SIZE \in Int
  BY SampleConsts, <1>2
<1>20. Published(writer', n) = n /\ Top(writer', n) = n + 1 /\ Published(writer, n) = n /\ Top(writer, n) = n
  BY <1>1 DEF Published, Top
<1>8. Present(ring', writer', n)
  <2> SUFFICES ASSUME NEW j \in 1 .. n, j > n + 1 - SAMPLE_RING_SIZE PROVE ring'[SlotIndex(j)]["Seq"] = j
    BY <1>20, <1>21 DEF Present
  <2>1. ring[SlotIndex(j)]["Seq"] = j
    BY <1>2, <1>20, SampleConsts DEF RingGood, Present
  <2>2. SlotIndex(j) \in Slots /\ SlotIndex(j) # k
    BY <1>2, SlotsApart, SampleConsts DEF k
  <2>3. QED
    BY <1>6, <2>1, <2>2
<1>9. Filling(ring', writer', n)
  BY <1>1, <1>5 DEF Filling, k
<1>10. RingGood(ring', writer', n) /\ ring' # NoRing /\ WriterTyped(writer')
  <2>1. writer'.pc = "fill" /\ writer' \in [pc : {"idle", "fill", "count"}, left : SUBSET Field]
    BY <1>1
  <2>2. QED
    BY <1>5, <1>7, <1>8, <1>9, <2>1, NoRingIsNone DEF RingGood, WriterTyped
<1>11. ASSUME reader.pc # "idle" PROVE ReaderGood(reader, ring', n)
  <2>1. ReaderGood(reader, ring, n)
    BY <1>1, <1>11 DEF SamplesInv
  <2>2. reader.next \in Nat /\ reader.next >= 1
    BY <1>2, <2>1, Nexts
  <2>3. SlotIndex(reader.next) \in Slots
    BY <2>2, SlotsApart
  <2>4. Copying(reader, ring')
    BY <1>5, <1>6, <2>1, <2>2, <2>3 DEF ReaderGood, Copying
  <2>5. QED
    BY <2>1, <2>4 DEF ReaderGood
<1>12. Gathered(accepted, reader, ring', writer', n)
  BY <1>1 DEF Gathered
<1>13. QED
  BY <1>1, <1>10, <1>11, <1>12 DEF SamplesInv

LEMMA FieldKeeps == ASSUME SamplesInv, RecordField PROVE SamplesInv'
<1> DEFINE n == sampleSeq
           k == SlotIndex(n + 1)
<1>1. writer.pc = "fill" /\ UNCHANGED <<timer, sampleSeq, reader, accepted>>
  BY DEF RecordField
<1>2. PICK w \in writer.left :
       /\ ring' = [ring EXCEPT ![k][w] = n + 1]
       /\ writer' = [writer EXCEPT !.left = @ \ {w}]
  BY DEF RecordField
<1>3. /\ RingGood(ring, writer, n) /\ n \in Nat /\ WriterTyped(writer) /\ n < MaxSample /\ timer = "open"
      /\ ring # NoRing
  <2>1. ring # NoRing
    BY <1>1 DEF SamplesInv, Idling
  <2>2. QED
    BY <1>1, <2>1, SampleConsts DEF SamplesInv
<1>4. ring \in [Slots -> Sample] /\ k \in Slots /\ w \in Words /\ w \in Field /\ w # "Seq" /\ n + 1 \in Nat
  BY <1>3, SlotsApart, SampleConsts DEF RingGood, WriterTyped
<1>5. Stores(ring, k, w, n + 1, ring')
  BY <1>2 DEF Stores
<1>14. ring[k]["Seq"] = 0 /\ \A f \in Field \ writer.left : ring[k][f] = n + 1
  BY <1>1, <1>3 DEF RingGood, Filling
<1> HIDE DEF k
<1>6. ring' \in [Slots -> Sample] /\ ring'[k][w] = n + 1
  BY <1>4, <1>5, Storing
<1>7. (\A i \in Slots : i # k => ring'[i] = ring[i]) /\ \A u \in Words : u # w => ring'[k][u] = ring[k][u]
  BY <1>4, <1>5, Storing
<1>8. writer'.pc = "fill" /\ writer'.left = writer.left \ {w} /\ WriterTyped(writer')
  BY <1>1, <1>2, <1>3 DEF WriterTyped
<1>9. \A i \in Slots : ring'[i]["Seq"] = ring[i]["Seq"] /\ (ring[i]["Seq"] # 0 => ring'[i] = ring[i])
  BY <1>4, <1>7, <1>14, SampleConsts
<1>10. Numbered(ring', writer', n)
  BY <1>1, <1>3, <1>8, <1>9 DEF RingGood, Numbered, Published
<1>21. n \in Int /\ SAMPLE_RING_SIZE \in Int
  BY SampleConsts, <1>3
<1>20. Published(writer', n) = n /\ Top(writer', n) = n + 1 /\ Published(writer, n) = n /\ Top(writer, n) = n + 1
  BY <1>1, <1>8 DEF Published, Top
<1>11. Present(ring', writer', n)
  <2> SUFFICES ASSUME NEW j \in 1 .. n, j > n + 1 - SAMPLE_RING_SIZE PROVE ring'[SlotIndex(j)]["Seq"] = j
    BY <1>20, <1>21 DEF Present
  <2>1. ring[SlotIndex(j)]["Seq"] = j
    BY <1>3, <1>20, <1>21 DEF RingGood, Present
  <2>2. SlotIndex(j) \in Slots
    BY <1>3, SlotsApart
  <2>3. QED
    BY <1>9, <2>1, <2>2
<1>12. Filling(ring', writer', n)
  <2>1. ring'[k]["Seq"] = 0
    BY <1>4, <1>9, <1>14
  <2>2. ASSUME NEW f \in Field \ writer'.left PROVE ring'[k][f] = n + 1
    BY <1>6, <1>7, <1>8, <1>14, SampleConsts
  <2>3. QED
    BY <2>1, <2>2 DEF Filling, k
<1>13. RingGood(ring', writer', n) /\ ring' # NoRing
  BY <1>6, <1>10, <1>11, <1>12, NoRingIsNone DEF RingGood
<1>15. ASSUME reader.pc # "idle" PROVE ReaderGood(reader, ring', n)
  <2>1. ReaderGood(reader, ring, n)
    BY <1>3, <1>15 DEF SamplesInv
  <2>2. reader.next \in Nat /\ reader.next >= 1
    BY <1>3, <2>1, Nexts
  <2>3. SlotIndex(reader.next) \in Slots
    BY <2>2, SlotsApart
  <2>4. Copying(reader, ring')
    BY <1>9, <2>1, <2>3 DEF ReaderGood, Copying
  <2>5. QED
    BY <2>1, <2>4 DEF ReaderGood
<1>16. Gathered(accepted, reader, ring', writer', n)
  BY <1>8 DEF Gathered
<1>17. QED
  BY <1>1, <1>3, <1>8, <1>13, <1>15, <1>16 DEF SamplesInv

LEMMA PublishKeeps == ASSUME SamplesInv, RecordPublish PROVE SamplesInv'
<1> DEFINE n == sampleSeq
           k == SlotIndex(n + 1)
<1>1. /\ writer.pc = "fill" /\ writer.left = {} /\ UNCHANGED <<timer, sampleSeq, reader, accepted>>
      /\ ring' = [ring EXCEPT ![k]["Seq"] = n + 1] /\ writer' = [writer EXCEPT !.pc = "count"]
  BY DEF RecordPublish
<1>3. /\ RingGood(ring, writer, n) /\ n \in Nat /\ WriterTyped(writer) /\ n < MaxSample /\ timer = "open"
      /\ ring # NoRing
  <2>1. ring # NoRing
    BY <1>1 DEF SamplesInv, Idling
  <2>2. QED
    BY <1>1, <2>1, SampleConsts DEF SamplesInv
<1>4. ring \in [Slots -> Sample] /\ k \in Slots /\ "Seq" \in Words /\ n + 1 \in Nat
  BY <1>3, SlotsApart, SampleConsts DEF RingGood
<1>5. Stores(ring, k, "Seq", n + 1, ring')
  BY <1>1 DEF Stores
<1>14. \A f \in Field : ring[k][f] = n + 1
  BY <1>1, <1>3 DEF RingGood, Filling
<1> HIDE DEF k
<1>6. ring' \in [Slots -> Sample] /\ ring'[k]["Seq"] = n + 1
  BY <1>4, <1>5, Storing
<1>7. (\A i \in Slots : i # k => ring'[i] = ring[i]) /\ \A u \in Words : u # "Seq" => ring'[k][u] = ring[k][u]
  BY <1>4, <1>5, Storing
<1>8. writer'.pc = "count" /\ WriterTyped(writer')
  BY <1>1, <1>3 DEF WriterTyped
<1>9. Whole(ring'[k])
  BY <1>6, <1>7, <1>14, SampleConsts DEF Whole
<1>10. Numbered(ring', writer', n)
  <2> SUFFICES ASSUME NEW i \in Slots, ring'[i]["Seq"] # 0 PROVE ring'[i]["Seq"] <= n + 1 /\ Whole(ring'[i])
    BY <1>8 DEF Numbered, Published
  <2>1. CASE i = k
    BY <1>3, <1>6, <1>9, <2>1
  <2>2. CASE i # k
    <3>1. ring[i]["Seq"] # 0 /\ ring'[i] = ring[i]
      BY <1>7, <2>2
    <3>2. ring[i]["Seq"] <= n /\ Whole(ring[i])
      BY <1>1, <1>3, <3>1 DEF RingGood, Numbered, Published
    <3>3. ring[i]["Seq"] \in Nat
      BY <1>4 DEF Sample
    <3>4. QED
      BY <1>3, <3>1, <3>2, <3>3
  <2>3. QED
    BY <2>1, <2>2
<1>21. n \in Int /\ SAMPLE_RING_SIZE \in Int
  BY SampleConsts, <1>3
<1>20. Published(writer', n) = n + 1 /\ Top(writer', n) = n + 1 /\ Published(writer, n) = n /\ Top(writer, n) = n + 1
  BY <1>1, <1>8 DEF Published, Top
<1>11. Present(ring', writer', n)
  <2> SUFFICES ASSUME NEW j \in 1 .. n + 1, j > n + 1 - SAMPLE_RING_SIZE PROVE ring'[SlotIndex(j)]["Seq"] = j
    BY <1>20, <1>21 DEF Present
  <2>1. CASE j = n + 1
    BY <1>6, <2>1 DEF k
  <2>2. CASE j # n + 1
    <3>1. j \in 1 .. n
      BY <1>3, <2>2
    <3>2. ring[SlotIndex(j)]["Seq"] = j
      BY <1>3, <1>20, <1>21, <3>1 DEF RingGood, Present
    <3>5. j \in Nat /\ j > 0 /\ n + 1 \in Nat /\ j < n + 1 /\ n + 1 < j + SAMPLE_RING_SIZE
      BY <1>3, <3>1, SampleConsts
    <3>3. SlotIndex(j) \in Slots /\ SlotIndex(j) # k
      BY <3>5, SlotsApart DEF k
    <3>4. QED
      BY <1>7, <3>2, <3>3
  <2>3. QED
    BY <2>1, <2>2
<1>12. Filling(ring', writer', n)
  BY <1>8 DEF Filling
<1>13. RingGood(ring', writer', n) /\ ring' # NoRing
  BY <1>6, <1>10, <1>11, <1>12, NoRingIsNone DEF RingGood
<1>15. ASSUME reader.pc # "idle" PROVE ReaderGood(reader, ring', n)
  <2>1. ReaderGood(reader, ring, n)
    BY <1>3, <1>15 DEF SamplesInv
  <2>2. reader.next \in Nat /\ reader.next >= 1
    BY <1>3, <2>1, Nexts
  <2>3. SlotIndex(reader.next) \in Slots
    BY <2>2, SlotsApart
  <2>4. reader.pc = "copy" => reader.next # n + 1
    BY <1>3, <2>1 DEF ReaderGood
  <2>5. Copying(reader, ring')
    BY <1>6, <1>7, <2>1, <2>3, <2>4 DEF ReaderGood, Copying
  <2>6. QED
    BY <2>1, <2>5 DEF ReaderGood
<1>16. Gathered(accepted, reader, ring', writer', n)
  BY <1>8 DEF Gathered
<1>17. QED
  BY <1>1, <1>3, <1>8, <1>13, <1>15, <1>16 DEF SamplesInv

LEMMA CountKeeps == ASSUME SamplesInv, RecordCount PROVE SamplesInv'
<1> DEFINE n == sampleSeq
<1>1. /\ writer.pc = "count" /\ sampleSeq' = n + 1 /\ writer' = Idling /\ UNCHANGED <<timer, ring, reader, accepted>>
  BY DEF RecordCount
<1>3. RingGood(ring, writer, n) /\ n \in Nat /\ WriterTyped(writer) /\ n < MaxSample /\ timer = "open" /\ ring # NoRing
  <2>1. ring # NoRing
    BY <1>1 DEF SamplesInv, Idling
  <2>2. QED
    BY <1>1, <2>1, SampleConsts DEF SamplesInv
<1>4. writer'.pc = "idle" /\ WriterTyped(writer')
  BY <1>1 DEF Idling, WriterTyped
<1>5. RingGood(ring, writer', n + 1)
  BY <1>1, <1>3, <1>4 DEF RingGood, Numbered, Present, Filling, Published, Top
<1>6. ASSUME reader.pc # "idle" PROVE ReaderGood(reader, ring, n + 1) /\ reader.seq <= n
  <2>1. ReaderGood(reader, ring, n)
    BY <1>3, <1>6 DEF SamplesInv
  <2>2. 1 .. n \subseteq 1 .. n + 1
    BY <1>3
  <2>3. QED
    BY <1>3, <2>1, <2>2 DEF ReaderGood
<1>7. Gathered(accepted, reader, ring, writer', n + 1)
  BY <1>3, <1>6 DEF Gathered, ReaderGood
<1>8. n + 1 \in 0 .. MaxSample
  BY <1>3, SampleConsts
<1>9. QED
  BY <1>1, <1>3, <1>4, <1>5, <1>6, <1>7, <1>8 DEF SamplesInv

LEMMA FreshIsGood == RingGood(Fresh, Idling, 0) /\ Fresh # NoRing /\ WriterTyped(Idling) /\ Idling.pc = "idle"
<1>1. Fresh \in [Slots -> Sample] /\ \A i \in Slots : Fresh[i]["Seq"] = 0
  <2>1. [w \in Words |-> 0] \in Sample
    BY DEF Sample
  <2>2. "Seq" \in Words
    BY SampleConsts
  <2>3. QED
    BY <2>1, <2>2 DEF Fresh, Slots
<1>2. Idling.pc = "idle" /\ WriterTyped(Idling)
  BY DEF Idling, WriterTyped
<1>3. Published(Idling, 0) = 0 /\ Numbered(Fresh, Idling, 0)
  BY <1>1, <1>2 DEF Published, Numbered
<1>4. Present(Fresh, Idling, 0)
  BY <1>3 DEF Present
<1>5. Filling(Fresh, Idling, 0)
  BY <1>2 DEF Filling
<1>6. QED
  BY <1>1, <1>2, <1>3, <1>4, <1>5, NoRingIsNone DEF RingGood

(* Only a base with no ring gets one.                                       *)
LEMMA EnsureKeeps == ASSUME SamplesInv, EnsureExecTimer PROVE SamplesInv'
<1>1. timer = "none" /\ UNCHANGED <<sampleSeq, writer, reader, accepted>>
  BY DEF EnsureExecTimer
<1>2. ring = NoRing /\ sampleSeq = 0 /\ writer = Idling /\ reader = NotReading
  BY <1>1 DEF SamplesInv
<1>3. reader.pc = "idle" /\ writer.pc = "idle"
  BY <1>2 DEF NotReading, Idling
<1>4. (timer' = "failed" /\ ring' = NoRing) \/ (timer' = "open" /\ ring' \in {Fresh, NoRing})
  BY <1>2 DEF EnsureExecTimer
<1>5. /\ timer' \in {"none", "open", "failed"} /\ WriterTyped(writer)
      /\ ring' # NoRing => timer' = "open" /\ RingGood(ring', writer, sampleSeq)
  BY <1>2, <1>4, FreshIsGood
<1>6. Gathered(accepted, reader, ring', writer, sampleSeq)
  BY <1>3 DEF Gathered
<1>7. QED
  BY <1>1, <1>2, <1>3, <1>5, <1>6 DEF SamplesInv

LEMMA FreeKeeps == ASSUME SamplesInv, FreeExecTimer PROVE SamplesInv'
<1>1. /\ timer' = "none" /\ ring' = NoRing /\ sampleSeq' = 0 /\ accepted' = {}
      /\ writer' = Idling /\ reader' = NotReading /\ reader'.pc = "idle" /\ writer'.pc = "idle"
  BY DEF FreeExecTimer, NotReading, Idling
<1>2. 0 \in 0 .. MaxSample
  BY SampleConsts
<1>3. Gathered(accepted', reader', ring', writer', sampleSeq')
  BY <1>1 DEF Gathered
<1>4. QED
  BY <1>1, <1>2, <1>3, FreshIsGood DEF SamplesInv

LEMMA BeginsKeeps == ASSUME SamplesInv, DumpBegin PROVE SamplesInv'
<1> DEFINE n == sampleSeq
           d == reader'
<1>1. /\ ring # NoRing /\ n # 0 /\ accepted' = {} /\ UNCHANGED <<timer, ring, sampleSeq, writer>>
      /\ d = [NotReading EXCEPT !.pc = "check", !.seq = n, !.next = FirstSeq(n)]
  BY DEF DumpBegin
<1>2. RingGood(ring, writer, n) /\ n \in Nat /\ n > 0
  BY <1>1, SampleConsts DEF SamplesInv
<1>3. FirstSeq(n) \in 1 .. n
  BY <1>2, FirstIsOne
<1>4. [w \in Words |-> 0] \in Sample
  BY DEF Sample
<1>5. d = [pc |-> "check", seq |-> n, next |-> FirstSeq(n), left |-> {}, copy |-> [w \in Words |-> 0]]
  BY <1>1 DEF NotReading
<1>6. d.pc = "check" /\ d.seq = n /\ d.next = FirstSeq(n)
  BY <1>5
<1>7. d \in [pc : {"check", "copy"}, seq : 1 .. n, next : Nat, left : SUBSET Words, copy : Sample]
  <2>1. n \in 1 .. n /\ FirstSeq(n) \in Nat
    BY <1>2, <1>3
  <2>2. QED
    BY <1>4, <1>5, <2>1
<1>8. ReaderGood(d, ring, n)
  <2>1. Copying(d, ring)
    BY <1>6 DEF Copying
  <2>2. FirstSeq(d.seq) <= d.next /\ d.next <= d.seq + 1
    BY <1>2, <1>3, <1>6
  <2>3. QED
    BY <1>6, <1>7, <2>1, <2>2 DEF ReaderGood
<1>9. Gathered({}, d, ring, writer, n)
  <2>1. FirstSeq(n) .. FirstSeq(n) - 1 = {}
    BY <1>3
  <2>2. QED
    BY <1>6, <2>1 DEF Gathered
<1>10. QED
  BY <1>1, <1>2, <1>6, <1>8, <1>9 DEF SamplesInv

(* What the reader of a ring finds where its next sample should be.         *)
LEMMA StillPresent ==
  ASSUME SamplesInv, reader.pc # "idle", reader.seq = sampleSeq, writer.pc = "idle", reader.next <= reader.seq
  PROVE  ring[SlotIndex(reader.next)]["Seq"] = reader.next
<1> DEFINE n == sampleSeq
           j == reader.next
<1>1. ring # NoRing
  BY DEF SamplesInv, NotReading
<1>2. RingGood(ring, writer, n) /\ ReaderGood(reader, ring, n) /\ n \in Nat
  BY <1>1, SampleConsts DEF SamplesInv
<1>3. j \in 1 .. n
  BY <1>2, Nexts
<1>4. FirstSeq(n) > n - SAMPLE_RING_SIZE /\ FirstSeq(n) \in 1 .. n /\ FirstSeq(n) <= j
  BY <1>2, <1>3, FirstIsOne DEF ReaderGood
<1>5. j > n - SAMPLE_RING_SIZE
  BY <1>2, <1>3, <1>4, SampleConsts
<1>6. Published(writer, n) = n /\ Top(writer, n) = n
  BY DEF Published, Top
<1>7. QED
  BY <1>2, <1>3, <1>5, <1>6 DEF RingGood, Present

LEMMA ChecksKeeps == ASSUME SamplesInv, DumpCheck PROVE SamplesInv'
<1> DEFINE n == sampleSeq
           j == reader.next
           found == ring[SlotIndex(j)]["Seq"] = j
<1>1. reader.pc = "check" /\ j <= reader.seq /\ UNCHANGED <<timer, ring, sampleSeq, writer, accepted>>
  BY DEF DumpCheck
<1>2. ring # NoRing
  BY <1>1 DEF SamplesInv, NotReading
<1>3. ReaderGood(reader, ring, n) /\ n \in Nat
  BY <1>1, <1>2, SampleConsts DEF SamplesInv
<1>4. reader.seq \in 1 .. n /\ j \in Nat /\ j >= 1 /\ j + 1 \in Nat
  BY <1>3, Nexts
<1>5. reader \in [pc : {"check", "copy"}, seq : 1 .. n, next : Nat, left : SUBSET Words, copy : Sample]
  BY <1>3 DEF ReaderGood
<1>6. [w \in Words |-> 0] \in Sample
  BY DEF Sample
<1>7. CASE ~found
  <2>1. reader' = [reader EXCEPT !.pc = "check", !.next = j + 1, !.copy = [w \in Words |-> 0]]
    BY <1>7 DEF DumpCheck, DumpSkip, NotReading
  <2>2. reader'.pc = "check" /\ reader'.seq = reader.seq /\ reader'.next = j + 1
    BY <1>5, <2>1
  <2>3. reader' \in [pc : {"check", "copy"}, seq : 1 .. n, next : Nat, left : SUBSET Words, copy : Sample]
    BY <1>4, <1>5, <1>6, <2>1
  <2>4. FirstSeq(reader.seq) <= j + 1
    <3>1. FirstSeq(reader.seq) \in Int
      BY <1>4, FirstIsOne
    <3>2. QED
      BY <1>3, <1>4, <3>1 DEF ReaderGood
  <2>5. Copying(reader', ring)
    BY <2>2 DEF Copying
  <2>6. ReaderGood(reader', ring, n)
    BY <1>1, <1>4, <2>2, <2>3, <2>4, <2>5 DEF ReaderGood
  <2>7. Gathered(accepted, reader', ring, writer, n)
    <3>1. ~ (reader.seq = n /\ writer.pc = "idle")
      BY <1>1, <1>7, StillPresent
    <3>2. QED
      BY <2>2, <3>1 DEF Gathered
  <2>8. QED
    BY <1>1, <1>2, <2>2, <2>6, <2>7 DEF SamplesInv
<1>8. CASE found
  <2>1. reader' = [reader EXCEPT !.pc = "copy", !.left = Words]
    BY <1>8 DEF DumpCheck
  <2>2. reader'.pc = "copy" /\ reader'.seq = reader.seq /\ reader'.next = j /\ reader'.left = Words
    BY <1>5, <2>1
  <2>3. reader' \in [pc : {"check", "copy"}, seq : 1 .. n, next : Nat, left : SUBSET Words, copy : Sample]
    BY <1>5, <2>1
  <2>4. Copying(reader', ring)
    BY <2>2 DEF Copying
  <2>5. ReaderGood(reader', ring, n)
    BY <1>1, <1>3, <2>2, <2>3, <2>4 DEF ReaderGood
  <2>6. Gathered(accepted, reader', ring, writer, n)
    BY <1>1, <1>8, <2>2 DEF SamplesInv, Gathered
  <2>7. QED
    BY <1>1, <1>2, <2>2, <2>5, <2>6 DEF SamplesInv
<1>9. QED
  BY <1>7, <1>8

(* A word copied.                                                           *)
Copies(d, w, r, e) == e = [d EXCEPT !.left = @ \ {w}, !.copy[w] = r[SlotIndex(d.next)][w]]

LEMMA WordCopied ==
  ASSUME NEW n \in Nat, NEW r \in [Slots -> Sample],
         NEW d \in [pc : {"check", "copy"}, seq : 1 .. n, next : Nat, left : SUBSET Words, copy : Sample],
         NEW w \in d.left, SlotIndex(d.next) \in Slots, NEW e, Copies(d, w, r, e)
  PROVE  /\ e \in [pc : {"check", "copy"}, seq : 1 .. n, next : Nat, left : SUBSET Words, copy : Sample]
         /\ e.pc = d.pc /\ e.seq = d.seq /\ e.next = d.next /\ e.left = d.left \ {w}
         /\ e.copy[w] = r[SlotIndex(d.next)][w]
         /\ \A u \in Words : u # w => e.copy[u] = d.copy[u]
<1> DEFINE v == r[SlotIndex(d.next)][w]
           c == [d.copy EXCEPT ![w] = v]
<1>1. w \in Words /\ v \in Nat
  BY DEF Sample
<1>2. c \in Sample /\ c[w] = v /\ \A u \in Words : u # w => c[u] = d.copy[u]
  BY <1>1 DEF Sample
<1>3. e = [d EXCEPT !.left = d.left \ {w}, !.copy = c]
  BY DEF Copies
<1> HIDE DEF c, v
<1>4. e \in [pc : {"check", "copy"}, seq : 1 .. n, next : Nat, left : SUBSET Words, copy : Sample]
  BY <1>2, <1>3
<1>5. e.pc = d.pc /\ e.seq = d.seq /\ e.next = d.next /\ e.left = d.left \ {w} /\ e.copy = c
  BY <1>3
<1>6. QED
  BY <1>2, <1>4, <1>5 DEF v

LEMMA CopiesKeeps == ASSUME SamplesInv, DumpCopy PROVE SamplesInv'
<1> DEFINE n == sampleSeq
           k == SlotIndex(reader.next)
<1>1. reader.pc = "copy" /\ UNCHANGED <<timer, ring, sampleSeq, writer, accepted>>
  BY DEF DumpCopy
<1>2. PICK w \in reader.left : Copies(reader, w, ring, reader')
  BY DEF DumpCopy, Copies
<1>3. ring # NoRing
  BY <1>1 DEF SamplesInv, NotReading
<1>4. ReaderGood(reader, ring, n) /\ n \in Nat /\ RingGood(ring, writer, n)
  BY <1>1, <1>3, SampleConsts DEF SamplesInv
<1>5. /\ reader \in [pc : {"check", "copy"}, seq : 1 .. n, next : Nat, left : SUBSET Words, copy : Sample]
      /\ ring \in [Slots -> Sample] /\ k \in Slots /\ w \in Words /\ "Seq" \in Words
  <2>1. reader.next \in Nat /\ reader.next >= 1
    BY <1>4, Nexts
  <2>2. k \in Slots
    BY <2>1, SlotsApart
  <2>3. QED
    BY <1>4, <2>2, SampleConsts DEF ReaderGood, RingGood
<1>6. reader' \in [pc : {"check", "copy"}, seq : 1 .. n, next : Nat, left : SUBSET Words, copy : Sample]
  BY <1>2, <1>4, <1>5, WordCopied
<1>7. reader'.pc = reader.pc /\ reader'.seq = reader.seq /\ reader'.next = reader.next
  BY <1>2, <1>4, <1>5, WordCopied
<1>8. reader'.left = reader.left \ {w} /\ reader'.copy[w] = ring[k][w]
  BY <1>2, <1>4, <1>5, WordCopied
<1>9. \A u \in Words : u # w => reader'.copy[u] = reader.copy[u]
  BY <1>2, <1>4, <1>5, WordCopied
<1>10. Copying(reader', ring)
  <2> SUFFICES ASSUME ring[k]["Seq"] = reader.next, NEW u \in Words \ reader'.left
               PROVE  reader'.copy[u] = reader.next
    BY <1>7 DEF Copying
  <2>1. CASE u = w
    <3>1. ring[k]["Seq"] # 0
      BY <1>4, Nexts
    <3>2. Whole(ring[k])
      BY <1>4, <1>5, <3>1 DEF RingGood, Numbered
    <3>3. ring[k][w] = reader.next
      BY <1>5, <3>2, SampleConsts DEF Whole
    <3>4. QED
      BY <1>8, <2>1, <3>3
  <2>2. CASE u # w
    <3>1. u \in Words \ reader.left
      BY <1>8, <2>2
    <3>2. reader.copy[u] = reader.next
      BY <1>1, <1>4, <3>1 DEF ReaderGood, Copying
    <3>3. QED
      BY <1>9, <2>2, <3>2
  <2>3. QED
    BY <2>1, <2>2
<1>11. ReaderGood(reader', ring, n)
  BY <1>4, <1>6, <1>7, <1>10 DEF ReaderGood
<1>12. Gathered(accepted, reader', ring, writer, n)
  BY <1>7 DEF SamplesInv, Gathered
<1>13. QED
  BY <1>1, <1>3, <1>7, <1>11, <1>12 DEF SamplesInv

(* The copy that is taken is the one sample whose number the slot has kept. *)
LEMMA AcceptsKeeps == ASSUME SamplesInv, DumpAccept PROVE SamplesInv'
<1> DEFINE n == sampleSeq
           j == reader.next
           c == reader.copy
<1>1. reader.pc = "copy" /\ reader.left = {} /\ UNCHANGED <<timer, ring, sampleSeq, writer>>
  BY DEF DumpAccept
<1>2. ring # NoRing
  BY <1>1 DEF SamplesInv, NotReading
<1>3. ReaderGood(reader, ring, n) /\ n \in Nat
  BY <1>1, <1>2, SampleConsts DEF SamplesInv
<1>4. reader.seq \in 1 .. n /\ j \in Nat /\ j >= 1 /\ j + 1 \in Nat
  BY <1>3, Nexts
<1>5. reader \in [pc : {"check", "copy"}, seq : 1 .. n, next : Nat, left : SUBSET Words, copy : Sample]
  BY <1>3 DEF ReaderGood
<1>6. [w \in Words |-> 0] \in Sample
  BY DEF Sample
<1>7. reader' = [reader EXCEPT !.pc = "check", !.next = j + 1, !.copy = [w \in Words |-> 0]]
  BY DEF DumpAccept, DumpSkip, NotReading
<1>8. reader'.pc = "check" /\ reader'.seq = reader.seq /\ reader'.next = j + 1
  BY <1>5, <1>7
<1>9. reader' \in [pc : {"check", "copy"}, seq : 1 .. n, next : Nat, left : SUBSET Words, copy : Sample]
  BY <1>4, <1>5, <1>6, <1>7
<1>10. FirstSeq(reader.seq) <= j + 1
  <2>1. FirstSeq(reader.seq) \in Int
    BY <1>4, FirstIsOne
  <2>2. QED
    BY <1>3, <1>4, <2>1 DEF ReaderGood
<1>11. ReaderGood(reader', ring, n)
  <2>1. Copying(reader', ring)
    BY <1>8 DEF Copying
  <2>2. j <= reader.seq
    BY <1>1, <1>3 DEF ReaderGood
  <2>3. QED
    BY <1>4, <1>8, <1>9, <1>10, <2>1, <2>2 DEF ReaderGood
<1>12. ASSUME ring[SlotIndex(j)]["Seq"] = j PROVE (\A w \in Words : c[w] = j) /\ StillThere /\ Whole(c)
  <2>1. \A w \in Words : c[w] = j
    BY <1>1, <1>3, <1>12 DEF ReaderGood, Copying
  <2>2. QED
    BY <1>12, <2>1, SampleConsts DEF StillThere, Whole
<1>13. accepted' = IF StillThere THEN accepted \cup {c} ELSE accepted
  BY DEF DumpAccept
<1>14. \A e \in accepted' : Whole(e)
  <2>1. StillThere => ring[SlotIndex(j)]["Seq"] = j
    BY DEF StillThere
  <2>2. \A e \in accepted : Whole(e)
    BY DEF SamplesInv
  <2>3. QED
    BY <1>12, <1>13, <2>1, <2>2
<1>15. Gathered(accepted', reader', ring, writer, n)
  <2> SUFFICES ASSUME reader.seq = n, writer.pc = "idle"
               PROVE  accepted' = {All(k) : k \in FirstSeq(n) .. j}
    BY <1>4, <1>8 DEF Gathered
  <2>1. j <= reader.seq
    BY <1>1, <1>3 DEF ReaderGood
  <2>2. ring[SlotIndex(j)]["Seq"] = j
    BY <1>1, <2>1, StillPresent
  <2>3. c = All(j)
    <3>1. c \in Sample /\ \A w \in Words : c[w] = j
      BY <1>5, <1>12, <2>2
    <3>2. QED
      BY <3>1 DEF Sample, All
  <2>4. accepted = {All(k) : k \in FirstSeq(n) .. j - 1}
    BY <1>1 DEF SamplesInv, Gathered
  <2>5. FirstSeq(n) \in Int /\ FirstSeq(n) <= j
    BY <1>3, <1>4, FirstIsOne DEF ReaderGood
  <2>6. FirstSeq(n) .. j = (FirstSeq(n) .. j - 1) \cup {j}
    BY <1>4, <2>5
  <2>7. accepted' = accepted \cup {All(j)}
    BY <1>12, <1>13, <2>2, <2>3
  <2> HIDE DEF j, c
  <2>8. QED
    BY <2>4, <2>6, <2>7
<1>16. QED
  BY <1>1, <1>2, <1>8, <1>11, <1>14, <1>15 DEF SamplesInv

LEMMA EndsKeeps == ASSUME SamplesInv, DumpEnd PROVE SamplesInv'
<1>1. reader' = NotReading /\ UNCHANGED <<timer, ring, sampleSeq, writer, accepted>>
  BY DEF DumpEnd
<1>2. NotReading.pc = "idle"
  BY DEF NotReading
<1>3. Gathered(accepted, NotReading, ring, writer, sampleSeq)
  BY <1>2 DEF Gathered
<1>4. QED
  BY <1>1, <1>2, <1>3 DEF SamplesInv

LEMMA SamplesKept == SamplesInv /\ [SamplesNext]_samplevars => SamplesInv'
<1> SUFFICES ASSUME SamplesInv, [SamplesNext]_samplevars PROVE SamplesInv'
  OBVIOUS
<1>1. CASE UNCHANGED samplevars
  BY <1>1 DEF samplevars, SamplesInv
<1>2. CASE SamplesNext
  BY <1>2, EnsureKeeps, BeginKeeps, FieldKeeps, PublishKeeps, CountKeeps, BeginsKeeps, ChecksKeeps, CopiesKeeps,
     AcceptsKeeps, EndsKeeps, FreeKeeps DEF SamplesNext
<1>3. QED
  BY <1>1, <1>2

LEMMA SamplesTyped == ASSUME SamplesInv PROVE SamplesTypeOK
<1>1. ring # NoRing => DOMAIN ring = 0 .. SAMPLE_RING_SIZE - 1
  BY DEF SamplesInv, RingGood, Slots
<1>2. writer.pc \in {"idle", "fill", "count"} /\ writer.left \subseteq Field
  BY DEF SamplesInv, WriterTyped
<1>3. reader.pc \in {"idle", "check", "copy"} /\ reader.left \subseteq Words
  <2>1. CASE reader.pc = "idle"
    BY <2>1 DEF SamplesInv, NotReading
  <2>2. CASE reader.pc # "idle"
    <3>1. ring # NoRing
      BY <2>2 DEF SamplesInv, NotReading
    <3>2. ReaderGood(reader, ring, sampleSeq)
      BY <2>2, <3>1 DEF SamplesInv
    <3>3. QED
      BY <3>2 DEF ReaderGood
  <2>3. QED
    BY <2>1, <2>2
<1>4. QED
  BY <1>1, <1>2, <1>3 DEF SamplesInv, SamplesTypeOK

LEMMA NoneTorn == ASSUME SamplesInv PROVE NoTornSample
BY DEF SamplesInv, NoTornSample, Whole

LEMMA AllGathered == ASSUME SamplesInv PROVE QuietReaderGetsAll
<1> DEFINE n == sampleSeq
           I == FirstSeq(n) .. n
           f == [k \in I |-> All(k)]
<1> SUFFICES ASSUME reader.pc = "check", reader.next > reader.seq, n = reader.seq, writer = Idling
             PROVE  Cardinality(accepted) = IF n > SAMPLE_RING_SIZE THEN SAMPLE_RING_SIZE ELSE n
  BY DEF QuietReaderGetsAll
<1>1. ring # NoRing
  BY DEF SamplesInv, NotReading
<1>2. ReaderGood(reader, ring, n) /\ n \in Nat
  BY <1>1, SampleConsts DEF SamplesInv
<1>3. reader.next = n + 1 /\ n > 0
  BY <1>2, Nexts DEF ReaderGood
<1>4. writer.pc = "idle"
  BY DEF Idling
<1>5. accepted = {All(k) : k \in I}
  <2>1. accepted = {All(k) : k \in FirstSeq(n) .. reader.next - 1}
    BY <1>4 DEF SamplesInv, Gathered
  <2>2. reader.next - 1 = n
    BY <1>2, <1>3
  <2>3. QED
    BY <2>1, <2>2
<1>6. FirstSeq(n) \in 1 .. n
  BY <1>2, <1>3, FirstIsOne
<1>7. IsFiniteSet(I) /\ Cardinality(I) = n - FirstSeq(n) + 1
  BY <1>2, <1>6, FS_Interval
<1>8. \A k, m \in I : All(k) = All(m) => k = m
  <2>1. \A k \in I : All(k)["Seq"] = k
    BY SampleConsts DEF All
  <2>2. QED
    BY <2>1
<1> HIDE DEF I
<1>9. f \in Bijection(I, accepted)
  BY <1>5, <1>8 DEF Bijection, Injection, Surjection, IsInjective
<1>10. ExistsBijection(I, accepted)
  BY <1>9 DEF ExistsBijection
<1>11. Cardinality(accepted) = Cardinality(I)
  BY <1>7, <1>10, FS_Bijection
<1>12. QED
  BY <1>2, <1>3, <1>7, <1>11, SampleConsts DEF FirstSeq

------------------------------------------------------------------------------
(* The requests.  What is submitted is the copy that was accepted, so each   *)
(* property is one of what is accepted.  What a batch does is defined by     *)
(* recursion on its dwords; that it does what the published stream says      *)
(* follows dword by dword from the last one back, by the least dword of      *)
(* which it would hold from there on.                                        *)

Least(S) == CHOOSE m \in S : \A n \in S : m <= n
LEMMA LeastIs == ASSUME NEW S \in SUBSET Nat, S # {} PROVE Least(S) \in S /\ \A n \in S : Least(S) <= n
<1> DEFINE R == OpToRel(<, Nat)
<1>1. IsWellFoundedOn(R, Nat)
  BY NatLessThanWellFounded
<1> HIDE DEF R
<1>2. PICK m \in S : \A n \in S : ~ (<<n, m>> \in R)
  BY <1>1, WFMin
<1>3. \A n \in S : ~ (n < m)
  BY <1>2 DEF R, OpToRel
<1>4. \A n \in S : m <= n
  BY <1>3
<1>5. QED
  BY <1>4, Zenon DEF Least

(* What is executed from a dword on, if g says it of the later ones.        *)
Onward(b, g, at) ==
  IF at > Len(b) THEN <<>>
  ELSE IF b[at][1] = "packet2" THEN g[at + 1]
  ELSE IF b[at][1] = "packet0" /\ at + 1 <= Len(b)
  THEN <<[set |-> b[at][2], to |-> b[at + 1]]>> \o g[at + 2]
  ELSE IF b[at][1] = "packet3" /\ at + 1 + b[at][3] <= Len(b)
  THEN <<[draw |-> SubSeq(b, at + 2, at + 1 + b[at][3])]>> \o g[at + 2 + b[at][3]]
  ELSE <<[garbage |-> at]>>

LEMMA ExecutedIs ==
  ASSUME NEW b, NEW g, g = [at \in 1 .. Len(b) + 1 |-> Onward(b, g, at)]
  PROVE  \E f : f = [at \in 1 .. Len(b) + 1 |-> Onward(b, f, at)] /\ Executed(b) = f[1]
BY Zenon DEF Executed, Onward

Goes(b, g, from) == \A at \in from .. Len(b) + 1 : g[at] = Onward(b, g, at)

(* Each dword says what is executed from it on by what is from later ones.  *)
LEMMA OnwardLater ==
  ASSUME NEW b \in Seq(Dword), NEW at \in 1 .. Len(b) + 1, NEW g, NEW h,
         \A i \in at + 1 .. Len(b) + 1 : g[i] = h[i]
  PROVE  Onward(b, g, at) = Onward(b, h, at)
<1> DEFINE n == Len(b)
<1>1. n \in Nat
  OBVIOUS
<1>2. CASE at > n
  BY <1>2 DEF Onward
<1>3. CASE at <= n
  <2>1. b[at] \in Dword
    BY <1>3
  <2>2. b[at][1] = "packet3" => b[at][3] \in Nat
    BY <2>1 DEF Dword
  <2>3. at + 1 \in at + 1 .. n + 1
    BY <1>1, <1>3
  <2>4. at + 1 <= n => at + 2 \in at + 1 .. n + 1
    BY <1>1, <1>3
  <2>5. b[at][1] = "packet3" /\ at + 1 + b[at][3] <= n => at + 2 + b[at][3] \in at + 1 .. n + 1
    BY <1>1, <1>3, <2>2
  <2>6. g[at + 1] = h[at + 1]
    BY <2>3
  <2>7. at + 1 <= n => g[at + 2] = h[at + 2]
    BY <2>4
  <2>8. b[at][1] = "packet3" /\ at + 1 + b[at][3] <= n => g[at + 2 + b[at][3]] = h[at + 2 + b[at][3]]
    BY <2>5
  <2>9. QED
    BY <2>6, <2>7, <2>8, Zenon DEF Onward
<1>4. QED
  BY <1>1, <1>2, <1>3

(* So there is a function that says it of all of them.                      *)
LEMMA SomethingGoes == ASSUME NEW b \in Seq(Dword) PROVE \E g : Goes(b, g, 1)
<1> DEFINE n == Len(b)
           S == {m \in 1 .. n + 2 : \E g : Goes(b, g, m)}
<1>1. n \in Nat /\ S \in SUBSET Nat
  OBVIOUS
<1>2. n + 2 \in S
  <2>1. Goes(b, <<>>, n + 2)
    BY <1>1 DEF Goes
  <2>2. n + 2 \in 1 .. n + 2
    BY <1>1
  <2>3. QED
    BY <2>1, <2>2
<1> DEFINE m == Least(S)
<1>3. m \in S /\ \A i \in S : m <= i
  BY <1>1, <1>2, LeastIs
<1> HIDE DEF m
<1>4. ASSUME m # 1 PROVE FALSE
  <2>1. PICK g : Goes(b, g, m)
    BY <1>3
  <2> DEFINE k == m - 1
             h == [at \in 1 .. n + 1 |-> IF at = k THEN Onward(b, g, at) ELSE g[at]]
  <2>2. m \in 1 .. n + 2 /\ k \in 1 .. n + 1
    BY <1>1, <1>3, <1>4
  <2>3. \A at \in m .. n + 1 : h[at] = g[at]
    BY <1>1, <2>2
  <2>4. h[k] = Onward(b, g, k)
    BY <2>2
  <2> HIDE DEF h
  <2>5. ASSUME NEW at \in k .. n + 1 PROVE h[at] = Onward(b, h, at)
    <3>1. at \in 1 .. n + 1 /\ \A i \in at + 1 .. n + 1 : i \in m .. n + 1
      BY <1>1, <2>2
    <3>2. \A i \in at + 1 .. n + 1 : g[i] = h[i]
      BY <2>3, <3>1
    <3>3. Onward(b, g, at) = Onward(b, h, at)
      BY <3>1, <3>2, OnwardLater
    <3>4. CASE at = k
      BY <2>4, <3>3, <3>4
    <3>5. CASE at # k
      <4>1. at \in m .. n + 1
        BY <1>1, <2>2, <3>5
      <4>2. g[at] = Onward(b, g, at)
        BY <2>1, <4>1 DEF Goes
      <4>3. QED
        BY <2>3, <3>3, <4>1, <4>2
    <3>6. QED
      BY <3>4, <3>5
  <2>6. Goes(b, h, k)
    BY <2>5 DEF Goes
  <2>7. k \in S
    BY <1>1, <2>2, <2>6
  <2>8. QED
    BY <1>3, <2>2, <2>7
<1>5. QED
  BY <1>3, <1>4

LEMMA ExecutedGoes == ASSUME NEW b \in Seq(Dword) PROVE \E f : Goes(b, f, 1) /\ Executed(b) = f[1]
<1> DEFINE n == Len(b)
<1>1. PICK h : Goes(b, h, 1)
  BY SomethingGoes
<1> DEFINE g == [at \in 1 .. n + 1 |-> Onward(b, h, at)]
<1>2. \A at \in 1 .. n + 1 : g[at] = h[at]
  BY <1>1 DEF Goes
<1> DEFINE G == [at \in 1 .. n + 1 |-> Onward(b, g, at)]
<1>3. g = G
  <2> HIDE DEF g
  <2>1. ASSUME NEW at \in 1 .. n + 1 PROVE Onward(b, h, at) = Onward(b, g, at)
    <3>1. \A i \in at + 1 .. n + 1 : h[i] = g[i]
      BY <1>2
    <3>2. QED
      BY <3>1, OnwardLater
  <2>2. QED
    BY <2>1, Zenon DEF g
<1> HIDE DEF g
<1>4. PICK f : f = [at \in 1 .. Len(b) + 1 |-> Onward(b, f, at)] /\ Executed(b) = f[1]
  BY <1>3, ExecutedIs
<1>5. Goes(b, f, 1)
  BY <1>4 DEF Goes
<1>6. QED
  BY <1>4, <1>5

(* A batch of fill does nothing.                                            *)
LEMMA FillIdles ==
  ASSUME NEW b \in Seq(Dword), \A i \in DOMAIN b : b[i] = Fill
  PROVE  Executed(b) = <<>>
<1> DEFINE n == Len(b)
<1>1. PICK f : Goes(b, f, 1) /\ Executed(b) = f[1]
  BY ExecutedGoes
<1> DEFINE S == {m \in 1 .. n + 1 : f[m] = <<>>}
           m == Least(S)
<1>2. n \in Nat /\ S \in SUBSET Nat
  OBVIOUS
<1>3. f[n + 1] = <<>>
  <2>1. n + 1 \in 1 .. n + 1 /\ n + 1 > n
    BY <1>2
  <2>2. f[n + 1] = Onward(b, f, n + 1)
    BY <1>1, <2>1 DEF Goes
  <2>3. QED
    BY <2>1, <2>2 DEF Onward
<1>4. n + 1 \in S
  BY <1>2, <1>3
<1>5. m \in S /\ \A i \in S : m <= i
  BY <1>2, <1>4, LeastIs
<1> HIDE DEF m
<1>6. ASSUME m # 1 PROVE FALSE
  <2> DEFINE k == m - 1
  <2>1. k \in 1 .. n
    BY <1>2, <1>5, <1>6
  <2>2. b[k][1] = "packet2" /\ k + 1 = m
    <3>1. b[k] = Fill
      <4>1. DOMAIN b = 1 .. n
        OBVIOUS
      <4>2. QED
        BY <2>1, <4>1
    <3>4. Fill[1] = "packet2"
      BY DEF Fill
    <3>2. k + 1 = m
      BY <1>5
    <3>3. QED
      BY <3>1, <3>2, <3>4
  <2>3. f[k] = Onward(b, f, k)
    BY <1>1, <1>2, <2>1 DEF Goes
  <2>4. Onward(b, f, k) = f[m]
    BY <1>2, <2>1, <2>2 DEF Onward
  <2>5. k \in S
    BY <1>2, <1>5, <2>1, <2>3, <2>4
  <2>6. QED
    BY <1>5, <2>1, <2>5
<1>7. QED
  BY <1>1, <1>5, <1>6

(* A batch of m registers and their values and one draw that ends it.       *)
Streams(b, m, reg) ==
  /\ m \in Nat /\ 2 * m + 1 <= Len(b)
  /\ \A i \in 1 .. m : b[2 * i - 1] = Header(reg[i])
  /\ \E d \in Nat : b[2 * m + 1] = Draw(d) /\ Len(b) = 2 * m + 2 + d

Does(b, m, reg) ==
  [i \in 1 .. m + 1 |-> IF i <= m THEN [set |-> reg[i], to |-> b[2 * i]]
                        ELSE [draw |-> SubSeq(b, 2 * m + 3, Len(b))]]

LEMMA Prefixed ==
  ASSUME NEW D, NEW k \in Nat, NEW e
  PROVE  <<e>> \o [j \in 1 .. k |-> D[j]] = [j \in 1 .. k + 1 |-> IF j = 1 THEN e ELSE D[j - 1]]
<1> DEFINE q == [j \in 1 .. k |-> D[j]]
<1>1. q \in Seq({D[j] : j \in 1 .. k}) /\ Len(q) = k
  OBVIOUS
<1>2. QED
  BY <1>1

LEMMA StreamExecuted ==
  ASSUME NEW b \in Seq(Dword), NEW m, NEW reg, Streams(b, m, reg)
  PROVE  Executed(b) = Does(b, m, reg)
<1> DEFINE n == Len(b)
           D == Does(b, m, reg)
           Tails(i) == [j \in 1 .. m + 2 - i |-> D[i - 1 + j]]
<1>1. PICK f : Goes(b, f, 1) /\ Executed(b) = f[1]
  BY ExecutedGoes
<1>2. n \in Nat /\ m \in Nat /\ 2 * m + 1 <= n /\ \A i \in 1 .. m : b[2 * i - 1] = Header(reg[i])
  BY DEF Streams
<1>3. PICK d \in Nat : b[2 * m + 1] = Draw(d) /\ n = 2 * m + 2 + d
  BY DEF Streams
<1>4. f[2 * m + 1] = Tails(m + 1)
  <2>1. 2 * m + 1 \in 1 .. n + 1 /\ n + 1 \in 1 .. n + 1 /\ n + 1 > n /\ ~ (2 * m + 1 > n)
    BY <1>2, <1>3
  <2>2. f[n + 1] = <<>>
    <3>1. f[n + 1] = Onward(b, f, n + 1)
      BY <1>1, <2>1 DEF Goes
    <3>2. QED
      BY <2>1, <3>1 DEF Onward
  <2>3. f[2 * m + 1] = Onward(b, f, 2 * m + 1)
    BY <1>1, <2>1 DEF Goes
  <2>4. b[2 * m + 1][1] = "packet3" /\ b[2 * m + 1][3] = d
    BY <1>3 DEF Draw
  <2>5. (2 * m + 1) + 1 + d <= n /\ (2 * m + 1) + 2 + d = n + 1 /\ (2 * m + 1) + 1 + d = n /\ (2 * m + 1) + 2 = 2 * m + 3
    BY <1>2, <1>3
  <2>6. Onward(b, f, 2 * m + 1) = <<[draw |-> SubSeq(b, 2 * m + 3, n)]>> \o f[n + 1]
    BY <2>1, <2>4, <2>5 DEF Onward
  <2>7. D[m + 1] = [draw |-> SubSeq(b, 2 * m + 3, n)]
    BY <1>2 DEF Does
  <2> HIDE DEF D
  <2>8. Tails(m + 1) = <<D[m + 1]>>
    <3>1. m + 2 - (m + 1) = 1 /\ \A j \in 1 .. 1 : (m + 1) - 1 + j = m + 1
      BY <1>2
    <3>2. Tails(m + 1) = [j \in 1 .. 1 |-> D[m + 1]]
      BY <3>1
    <3> HIDE DEF Tails
    <3>3. QED
      BY <3>2
  <2> HIDE DEF Tails
  <2>9. \A e : <<e>> \o <<>> = <<e>>
    <3> SUFFICES ASSUME NEW e PROVE <<e>> \o <<>> = <<e>>
      OBVIOUS
    <3>1. <<e>> \in Seq({e}) /\ <<>> \in Seq({e})
      OBVIOUS
    <3>2. QED
      BY <3>1
  <2>10. QED
    BY <2>2, <2>3, <2>6, <2>7, <2>8, <2>9
<1> DEFINE S == {i \in 1 .. m + 1 : f[2 * i - 1] = Tails(i)}
           i == Least(S)
<1> HIDE DEF Tails
<1>5. m + 1 \in S /\ S \in SUBSET Nat
  <2>1. 2 * (m + 1) - 1 = 2 * m + 1 /\ m + 1 \in 1 .. m + 1
    BY <1>2
  <2>2. QED
    BY <1>4, <2>1
<1>6. i \in S /\ \A j \in S : i <= j
  BY <1>5, LeastIs
<1> HIDE DEF i
<1>7. ASSUME i # 1 PROVE FALSE
  <2> DEFINE k == i - 1
             at == 2 * k - 1
  <2>1. k \in 1 .. m /\ i \in Nat /\ k + 1 = i
    BY <1>2, <1>6, <1>7
  <2>2. at \in 1 .. n + 1 /\ ~ (at > n) /\ at + 1 <= n /\ at + 2 = 2 * i - 1 /\ at + 1 = 2 * k
    BY <1>2, <2>1
  <2>3. b[at][1] = "packet0" /\ b[at][2] = reg[k]
    BY <1>2, <2>1 DEF Header
  <2>4. f[at] = Onward(b, f, at)
    BY <1>1, <2>2 DEF Goes
  <2> HIDE DEF at
  <2>5. Onward(b, f, at) = <<[set |-> reg[k], to |-> b[2 * k]]>> \o f[2 * i - 1]
    BY <2>2, <2>3 DEF Onward
  <2>6. D[k] = [set |-> reg[k], to |-> b[2 * k]]
    BY <1>2, <2>1 DEF Does
  <2> HIDE DEF D
  <2>7. f[2 * i - 1] = Tails(i)
    BY <1>6
  <2>8. <<D[k]>> \o Tails(i) = Tails(k)
    <3> DEFINE E == [j \in 1 .. m + 1 |-> D[i - 1 + j]]
               t == m + 2 - i
    <3>1. t \in Nat /\ t <= m + 1 /\ m + 2 - k = t + 1
      BY <1>2, <1>6, <2>1
    <3>2. Tails(i) = [j \in 1 .. t |-> E[j]]
      BY <1>2, <3>1 DEF Tails
    <3> HIDE DEF E
    <3>3. <<D[k]>> \o Tails(i) = [j \in 1 .. t + 1 |-> IF j = 1 THEN D[k] ELSE E[j - 1]]
      BY <3>1, <3>2, Prefixed
    <3>4. ASSUME NEW j \in 1 .. t + 1 PROVE (IF j = 1 THEN D[k] ELSE E[j - 1]) = D[k - 1 + j]
      <4>1. CASE j = 1
        BY <2>1, <4>1
      <4>2. CASE j # 1
        <5>1. j - 1 \in 1 .. m + 1 /\ i - 1 + (j - 1) = k - 1 + j
          BY <1>2, <2>1, <3>1, <4>2
        <5>2. E[j - 1] = D[i - 1 + (j - 1)]
          BY <5>1 DEF E
        <5>3. QED
          BY <4>2, <5>1, <5>2
      <4>3. QED
        BY <4>1, <4>2
    <3>5. QED
      BY <3>1, <3>3, <3>4, ZenonT(60) DEF Tails
  <2>9. f[2 * k - 1] = Tails(k)
    BY <2>4, <2>5, <2>6, <2>7, <2>8 DEF at
  <2>10. k \in S /\ ~ (i <= k)
    BY <1>2, <2>1, <2>9
  <2>11. QED
    BY <1>6, <2>10
<1>8. f[1] = Tails(1)
  BY <1>6, <1>7
<1>9. Tails(1) = D
  <2>1. D = [j \in 1 .. m + 1 |-> D[j]]
    BY DEF Does
  <2> HIDE DEF D
  <2>2. m + 2 - 1 = m + 1 /\ \A j \in 1 .. m + 1 : 1 - 1 + j = j
    BY <1>2
  <2>3. QED
    BY <2>1, <2>2 DEF Tails
<1>10. QED
  BY <1>1, <1>8, <1>9

(* The registers of the stream, one after the other.                        *)
StreamLength == Len(Before) + Len(After) + 3
Stream ==
  [i \in 1 .. StreamLength |->
     CASE i <= Len(Before) -> Before[i]
       [] i = Len(Before) + 1 -> "RE_WIDTH_HEIGHT"
       [] i > Len(Before) + 1 /\ i <= Len(Before) + 1 + Len(After) -> After[i - Len(Before) - 1]
       [] i = StreamLength - 1 -> "RB3D_COLOROFFSET"
       [] OTHER -> "RB3D_COLORPITCH"]

LEMMA StreamIs ==
  LET p == Len(Before)  q == Len(After)  m == p + q + 3 IN
  /\ p \in Nat /\ q \in Nat /\ m \in Nat
  /\ \A i \in 1 .. p : Stream[i] = Before[i]
  /\ Stream[p + 1] = "RE_WIDTH_HEIGHT"
  /\ \A i \in 1 .. q : Stream[p + 1 + i] = After[i]
  /\ Stream[m - 1] = "RB3D_COLOROFFSET" /\ Stream[m] = "RB3D_COLORPITCH"
  /\ \A i \in 1 .. m : \/ i \in 1 .. p \/ i = p + 1 \/ i - p - 1 \in 1 .. q \/ i = m - 1 \/ i = m
<1> DEFINE p == Len(Before)
           q == Len(After)
           m == p + q + 3
<1>1. p \in Nat /\ q \in Nat /\ m \in Nat
  BY StreamAssumption
<1>2. ASSUME NEW i \in 1 .. p PROVE Stream[i] = Before[i]
  BY <1>1 DEF Stream, StreamLength
<1>3. Stream[p + 1] = "RE_WIDTH_HEIGHT"
  BY <1>1 DEF Stream, StreamLength
<1>4. ASSUME NEW i \in 1 .. q PROVE Stream[p + 1 + i] = After[i]
  <2>1. p + 1 + i \in 1 .. m /\ ~ (p + 1 + i <= p) /\ p + 1 + i # p + 1 /\ p + 1 + i > p + 1 /\ p + 1 + i <= p + 1 + q
        /\ (p + 1 + i) - p - 1 = i
    BY <1>1
  <2>2. QED
    BY <2>1 DEF Stream, StreamLength
<1>5. Stream[m - 1] = "RB3D_COLOROFFSET" /\ Stream[m] = "RB3D_COLORPITCH"
  BY <1>1 DEF Stream, StreamLength
<1>6. \A i \in 1 .. m : \/ i \in 1 .. p \/ i = p + 1 \/ i - p - 1 \in 1 .. q \/ i = m - 1 \/ i = m
  BY <1>1
<1>7. QED
  BY <1>1, <1>2, <1>3, <1>4, <1>5, <1>6

Named == {"RE_WIDTH_HEIGHT", "RB3D_COLOROFFSET", "RB3D_COLORPITCH"}

(* Each register of the stream is in one place.                             *)
LEMMA StreamOnce ==
  /\ \A i, j \in 1 .. StreamLength : Stream[i] = Stream[j] => i = j
  /\ \A r \in Fixed \cup Named : \E i \in 1 .. StreamLength : Stream[i] = r
<1> DEFINE p == Len(Before)
           q == Len(After)
           m == p + q + 3
<1>1. p \in Nat /\ q \in Nat /\ m \in Nat /\ StreamLength = m
  BY StreamIs DEF StreamLength
<1>2. DOMAIN Before = 1 .. p /\ DOMAIN After = 1 .. q
  BY StreamAssumption
<1>3. ToSet(Before) = {Before[i] : i \in 1 .. p} /\ ToSet(After) = {After[i] : i \in 1 .. q}
  BY <1>2 DEF ToSet
<1>4. (\A i \in 1 .. p : Stream[i] = Before[i]) /\ \A i \in 1 .. q : Stream[p + 1 + i] = After[i]
  BY StreamIs
<1>5. Stream[p + 1] = "RE_WIDTH_HEIGHT" /\ Stream[m - 1] = "RB3D_COLOROFFSET" /\ Stream[m] = "RB3D_COLORPITCH"
  BY StreamIs
<1>6. (\A i \in 1 .. p : Before[i] \notin Named) /\ \A i \in 1 .. q : After[i] \notin Named
  BY <1>3, StreamAssumption DEF Named
<1>7. /\ \A i, j \in 1 .. p : Before[i] = Before[j] => i = j
      /\ \A i, j \in 1 .. q : After[i] = After[j] => i = j
      /\ \A i \in 1 .. p, j \in 1 .. q : Before[i] # After[j]
  BY <1>2, StreamAssumption
<1>8. ASSUME NEW i \in 1 .. m
      PROVE  \/ i \in 1 .. p /\ Stream[i] = Before[i]
             \/ i = p + 1 /\ Stream[i] = "RE_WIDTH_HEIGHT"
             \/ i - p - 1 \in 1 .. q /\ Stream[i] = After[i - p - 1]
             \/ i = m - 1 /\ Stream[i] = "RB3D_COLOROFFSET"
             \/ i = m /\ Stream[i] = "RB3D_COLORPITCH"
  <2>1. CASE i \in 1 .. p
    BY <1>4, <2>1
  <2>2. CASE i - p - 1 \in 1 .. q
    <3>1. p + 1 + (i - p - 1) = i
      BY <1>1
    <3>2. QED
      BY <1>4, <2>2, <3>1
  <2>3. CASE i = p + 1 \/ i = m - 1 \/ i = m
    BY <1>5, <2>3
  <2>4. QED
    BY <2>1, <2>2, <2>3, StreamIs
<1>9. ASSUME NEW i \in 1 .. m, NEW j \in 1 .. m, Stream[i] = Stream[j] PROVE i = j
  <2>1. i - p - 1 = j - p - 1 => i = j
    BY <1>1
  <2> HIDE DEF m
  <2>2. CASE i \in 1 .. p /\ Stream[i] = Before[i]
    BY <1>6, <1>7, <1>8, <1>9, <2>2, Zenon DEF Named
  <2>3. CASE i - p - 1 \in 1 .. q /\ Stream[i] = After[i - p - 1]
    BY <1>6, <1>7, <1>8, <1>9, <2>1, <2>3, Zenon DEF Named
  <2>4. CASE Stream[i] \in Named
    BY <1>6, <1>8, <1>9, <2>4 DEF Named
  <2>5. QED
    BY <1>8, <2>2, <2>3, <2>4 DEF Named
<1>10. ASSUME NEW r \in Fixed \cup Named PROVE \E i \in 1 .. m : Stream[i] = r
  <2>1. CASE r \in Named
    <3>1. p + 1 \in 1 .. m /\ m - 1 \in 1 .. m /\ m \in 1 .. m
      BY <1>1
    <3>2. QED
      BY <1>5, <2>1, <3>1 DEF Named
  <2>2. CASE r \in ToSet(Before)
    <3>1. PICK i \in 1 .. p : r = Before[i]
      BY <1>3, <2>2
    <3>2. i \in 1 .. m /\ Stream[i] = r
      BY <1>1, <1>4, <3>1
    <3>3. QED
      BY <3>2
  <2>3. CASE r \in ToSet(After)
    <3>1. PICK i \in 1 .. q : r = After[i]
      BY <1>3, <2>3
    <3>2. p + 1 + i \in 1 .. m /\ Stream[p + 1 + i] = r
      BY <1>1, <1>4, <3>1
    <3>3. QED
      BY <3>2
  <2>4. QED
    BY <2>1, <2>2, <2>3 DEF Fixed
<1>11. QED
  BY <1>1, <1>9, <1>10

(* What a batch that is accepted says of its target.                        *)
ForTarget(b, m, address, target) ==
  /\ \A i \in 1 .. m : \/ Stream[i] \in Fixed /\ b[2 * i] = Val(0)
                       \/ Stream[i] = "RB3D_COLOROFFSET" /\ b[2 * i] = Val(address)
                       \/ Stream[i] = "RB3D_COLORPITCH" /\ b[2 * i] = Val(target.pitch)
                       \/ Stream[i] = "RE_WIDTH_HEIGHT" /\ b[2 * i] = Val(Extents(target.width, target.height))
  /\ \A v \in 1 .. Len(b) - (2 * m + 2) :
       /\ v % 3 = 1 => b[2 * m + 2 + v][3] \in 0 .. target.width
       /\ v % 3 = 2 => b[2 * m + 2 + v][3] \in 0 .. target.height

LEMMA Thirds ==
  ASSUME NEW d \in Nat, d % 3 = 0, NEW v \in 1 .. d
  PROVE  /\ v % 3 = 1 => v \div 3 \in 0 .. (d \div 3) - 1 /\ 3 * (v \div 3) + 1 = v
         /\ v % 3 = 2 => v \div 3 \in 0 .. (d \div 3) - 1 /\ 3 * (v \div 3) + 2 = v
<1>1. v = 3 * (v \div 3) + (v % 3) /\ d = 3 * (d \div 3) + (d % 3)
  BY Z3
<1>2. v \div 3 \in Int /\ d \div 3 \in Int
  OBVIOUS
<1> DEFINE x == v \div 3
           y == d \div 3
           z == v % 3
<1>3. x \in Int /\ y \in Int /\ v = 3 * x + z /\ d = 3 * y /\ v \in Nat /\ v >= 1 /\ v <= d
  BY <1>1, <1>2
<1> HIDE DEF x, y, z
<1>4. /\ z = 1 => x \in 0 .. y - 1 /\ 3 * x + 1 = v
      /\ z = 2 => x \in 0 .. y - 1 /\ 3 * x + 2 = v
  BY <1>3
<1>5. QED
  BY <1>4 DEF x, y, z

LEMMA StreamAccepted ==
  ASSUME NEW b \in Seq(Dword), ValidateTriangleBatch(b)
  PROVE  /\ Streams(b, StreamLength, Stream)
         /\ \E address \in DOMAIN Target : ForTarget(b, StreamLength, address, Target[address])
<1> DEFINE p == Len(Before)
           q == Len(After)
           m == p + q + 3
           a == 1 + 2 * p
           c == a + 2 + 2 * q
           head == c + 5
           d == Len(b) - head
           n == d \div 3
<1>1. p \in Nat /\ q \in Nat /\ m \in Nat /\ StreamLength = m /\ Len(b) \in Nat
  BY StreamIs DEF StreamLength
<1>2. /\ Len(b) >= head /\ d % 3 = 0
      /\ MatchRegisters(b, 1, Before) /\ b[a] = Header("RE_WIDTH_HEIGHT")
      /\ MatchRegisters(b, a + 2, After) /\ b[c] = Header("RB3D_COLOROFFSET")
  BY DEF ValidateTriangleBatch
<1>3. PICK address \in DOMAIN Target :
        LET target == Target[address] IN
        /\ b[c + 1] = Val(address)
        /\ b[a + 1] = Val(Extents(target.width, target.height))
        /\ b[c + 2] = Header("RB3D_COLORPITCH") /\ b[c + 3] = Val(target.pitch)
        /\ b[c + 4] = Draw(d)
        /\ \A v \in 0 .. n - 1 :
             /\ IsValue(b[head + 3 * v + 1]) /\ IsValue(b[head + 3 * v + 2])
             /\ ValidVertex(b[head + 3 * v + 1][3], b[head + 3 * v + 2][3], target)
  BY DEF ValidateTriangleBatch
<1> DEFINE target == Target[address]
<1>4. /\ a = 2 * (p + 1) - 1 /\ a + 1 = 2 * (p + 1) /\ c = 2 * (m - 1) - 1 /\ c + 1 = 2 * (m - 1)
      /\ c + 2 = 2 * m - 1 /\ c + 3 = 2 * m /\ c + 4 = 2 * m + 1 /\ head = 2 * m + 2 /\ d \in Nat
  BY <1>1, <1>2
<1>5. (\A i \in 1 .. p : Stream[i] = Before[i]) /\ \A i \in 1 .. q : Stream[p + 1 + i] = After[i]
  BY StreamIs
<1>6. Stream[p + 1] = "RE_WIDTH_HEIGHT" /\ Stream[m - 1] = "RB3D_COLOROFFSET" /\ Stream[m] = "RB3D_COLORPITCH"
  BY StreamIs
<1>7. ASSUME NEW i \in 1 .. p PROVE b[2 * i - 1] = Header(Stream[i]) /\ b[2 * i] = Val(0) /\ Stream[i] \in Fixed
  <2>1. b[1 + 2 * i - 2] = Header(Before[i]) /\ b[1 + 2 * i - 1] = Val(0)
    BY <1>2 DEF MatchRegisters
  <2>2. 1 + 2 * i - 2 = 2 * i - 1 /\ 1 + 2 * i - 1 = 2 * i
    BY <1>1
  <2>3. Before[i] \in Fixed
    BY StreamAssumption DEF Fixed, ToSet
  <2>4. QED
    BY <1>5, <2>1, <2>2, <2>3
<1>8. ASSUME NEW i \in 1 .. q
      PROVE  LET j == p + 1 + i IN b[2 * j - 1] = Header(Stream[j]) /\ b[2 * j] = Val(0) /\ Stream[j] \in Fixed
  <2>1. b[(a + 2) + 2 * i - 2] = Header(After[i]) /\ b[(a + 2) + 2 * i - 1] = Val(0)
    BY <1>2 DEF MatchRegisters
  <2>2. (a + 2) + 2 * i - 2 = 2 * (p + 1 + i) - 1 /\ (a + 2) + 2 * i - 1 = 2 * (p + 1 + i)
    BY <1>1
  <2>3. After[i] \in Fixed
    BY StreamAssumption DEF Fixed, ToSet
  <2>4. QED
    BY <1>5, <2>1, <2>2, <2>3
<1>9. ASSUME NEW i \in 1 .. m
      PROVE  /\ b[2 * i - 1] = Header(Stream[i])
             /\ \/ Stream[i] \in Fixed /\ b[2 * i] = Val(0)
                \/ Stream[i] = "RB3D_COLOROFFSET" /\ b[2 * i] = Val(address)
                \/ Stream[i] = "RB3D_COLORPITCH" /\ b[2 * i] = Val(target.pitch)
                \/ Stream[i] = "RE_WIDTH_HEIGHT" /\ b[2 * i] = Val(Extents(target.width, target.height))
  <2>1. CASE i \in 1 .. p
    BY <1>7, <2>1
  <2>2. CASE i - p - 1 \in 1 .. q
    <3>1. p + 1 + (i - p - 1) = i
      BY <1>1
    <3>2. QED
      BY <1>8, <2>2, <3>1
  <2>3. CASE i = p + 1
    BY <1>2, <1>3, <1>4, <1>6, <2>3
  <2>4. CASE i = m - 1
    BY <1>2, <1>3, <1>4, <1>6, <2>4
  <2>5. CASE i = m
    BY <1>2, <1>3, <1>4, <1>6, <2>5
  <2>6. QED
    BY <2>1, <2>2, <2>3, <2>4, <2>5, StreamIs
<1>10. Streams(b, m, Stream)
  <2>1. 2 * m + 1 <= Len(b) /\ Len(b) = 2 * m + 2 + d
    BY <1>1, <1>2, <1>4
  <2>2. b[2 * m + 1] = Draw(d)
    BY <1>3, <1>4
  <2>3. QED
    BY <1>1, <1>4, <1>9, <2>1, <2>2 DEF Streams
<1>11. ASSUME NEW v \in 1 .. d
       PROVE  /\ v % 3 = 1 => b[head + v][3] \in 0 .. target.width
              /\ v % 3 = 2 => b[head + v][3] \in 0 .. target.height
  <2> DEFINE u == v \div 3
             x == b[head + 3 * u + 1]
             y == b[head + 3 * u + 2]
  <2>1. u \in 0 .. n - 1 => head + 3 * u + 1 \in 1 .. Len(b) /\ head + 3 * u + 2 \in 1 .. Len(b)
    <3>1. d = 3 * n
      <4>1. d = 3 * (d \div 3) + (d % 3)
        BY <1>4, Z3
      <4>2. QED
        BY <1>2, <4>1
    <3>2. n \in Int /\ Len(b) = head + d /\ head \in Nat
      BY <1>1, <1>4
    <3> HIDE DEF n, head, d, u
    <3>3. QED
      BY <3>1, <3>2
  <2>2. ASSUME u \in 0 .. n - 1 PROVE x[3] \in 0 .. target.width /\ y[3] \in 0 .. target.height
    <3>1. x \in Dword /\ y \in Dword
      BY <2>1, <2>2
    <3>2. IsValue(x) /\ IsValue(y) /\ ValidVertex(x[3], y[3], target)
      BY <1>3, <2>2
    <3> HIDE DEF x, y
    <3>3. x[3] \in Int /\ y[3] \in Int
      BY <3>1, <3>2 DEF Dword, IsValue
    <3>4. target.width \in Nat /\ target.height \in Nat
      BY StreamAssumption
    <3>5. QED
      BY <3>2, <3>3, <3>4 DEF ValidVertex
  <2>3. /\ v % 3 = 1 => u \in 0 .. n - 1 /\ 3 * u + 1 = v
        /\ v % 3 = 2 => u \in 0 .. n - 1 /\ 3 * u + 2 = v
    BY <1>2, <1>4, Thirds
  <2>4. (3 * u + 1 = v => head + 3 * u + 1 = head + v) /\ (3 * u + 2 = v => head + 3 * u + 2 = head + v)
    <3>1. u \in Int /\ head \in Int
      BY <1>1, <1>4
    <3> HIDE DEF u, head
    <3>2. QED
      BY <3>1
  <2> HIDE DEF u, n
  <2>5. QED
    BY <2>2, <2>3, <2>4
<1>12. ForTarget(b, m, address, target)
  <2>1. Len(b) - (2 * m + 2) = d
    BY <1>4
  <2> HIDE DEF m, d, head, target
  <2>2. QED
    BY <1>4, <1>9, <1>11, <2>1 DEF ForTarget
<1>13. QED
  BY <1>1, <1>10, <1>12

LEMMA BatchGood ==
  ASSUME NEW b \in Seq(Dword), ValidateBatch(b)
  PROVE  LET did == Executed(b)
             sets(reg) == {i \in DOMAIN did : "set" \in DOMAIN did[i] /\ did[i].set = reg}
         IN \/ did = <<>>
            \/ \E address \in DOMAIN Target :
                 /\ \A i \in DOMAIN did :
                      \/ /\ "set" \in DOMAIN did[i]
                         /\ \/ did[i].set \in Fixed /\ did[i].to = Val(0)
                            \/ did[i].set = "RB3D_COLOROFFSET" /\ did[i].to = Val(address)
                            \/ did[i].set = "RB3D_COLORPITCH" /\ did[i].to = Val(Target[address].pitch)
                            \/ /\ did[i].set = "RE_WIDTH_HEIGHT"
                               /\ did[i].to = Val(Extents(Target[address].width, Target[address].height))
                      \/ /\ "draw" \in DOMAIN did[i] /\ i = Len(did)
                         /\ \A v \in DOMAIN did[i].draw :
                              /\ v % 3 = 1 => did[i].draw[v][3] \in 0 .. Target[address].width
                              /\ v % 3 = 2 => did[i].draw[v][3] \in 0 .. Target[address].height
                 /\ \A reg \in Fixed \cup {"RB3D_COLOROFFSET", "RB3D_COLORPITCH", "RE_WIDTH_HEIGHT"} :
                      Cardinality(sets(reg)) = 1
<1> DEFINE m == StreamLength
           D == Does(b, m, Stream)
<1>1. CASE \A i \in DOMAIN b : b[i] = Fill
  BY <1>1, FillIdles
<1>2. CASE ValidateTriangleBatch(b)
  <2>1. Streams(b, m, Stream)
    BY <1>2, StreamAccepted
  <2>2. PICK address \in DOMAIN Target : ForTarget(b, m, address, Target[address])
    BY <1>2, StreamAccepted
  <2>3. Executed(b) = D
    BY <2>1, StreamExecuted
  <2>4. m \in Nat /\ 2 * m + 2 <= Len(b) /\ Len(b) \in Nat
    BY <2>1 DEF Streams
  <2>5. DOMAIN D = 1 .. m + 1 /\ Len(D) = m + 1
    BY <2>4 DEF Does
  <2>6. /\ \A i \in 1 .. m : D[i] = [set |-> Stream[i], to |-> b[2 * i]]
        /\ D[m + 1] = [draw |-> SubSeq(b, 2 * m + 3, Len(b))]
    BY <2>4 DEF Does
  <2> HIDE DEF D
  <2>7. /\ \A i \in 1 .. m : "set" \in DOMAIN D[i] /\ D[i].set = Stream[i] /\ D[i].to = b[2 * i]
        /\ DOMAIN D[m + 1] = {"draw"} /\ D[m + 1].draw = SubSeq(b, 2 * m + 3, Len(b))
    <3>1. ASSUME NEW i \in 1 .. m PROVE "set" \in DOMAIN D[i] /\ D[i].set = Stream[i] /\ D[i].to = b[2 * i]
      <4>1. D[i] = [set |-> Stream[i], to |-> b[2 * i]]
        BY <2>6
      <4>2. QED
        BY <4>1
    <3>2. DOMAIN D[m + 1] = {"draw"} /\ D[m + 1].draw = SubSeq(b, 2 * m + 3, Len(b))
      <4> DEFINE e == SubSeq(b, 2 * m + 3, Len(b))
                 c == D[m + 1]
      <4>1. c = [draw |-> e]
        BY <2>6
      <4> HIDE DEF e, c
      <4>2. DOMAIN c = {"draw"} /\ c.draw = e
        BY <4>1
      <4>3. QED
        BY <4>2 DEF e, c
    <3>3. QED
      BY <3>1, <3>2
  <2>8. ASSUME NEW i \in 1 .. m
        PROVE  /\ "set" \in DOMAIN D[i]
               /\ \/ D[i].set \in Fixed /\ D[i].to = Val(0)
                  \/ D[i].set = "RB3D_COLOROFFSET" /\ D[i].to = Val(address)
                  \/ D[i].set = "RB3D_COLORPITCH" /\ D[i].to = Val(Target[address].pitch)
                  \/ /\ D[i].set = "RE_WIDTH_HEIGHT"
                     /\ D[i].to = Val(Extents(Target[address].width, Target[address].height))
    BY <2>2, <2>7 DEF ForTarget
  <2>9. ASSUME NEW v \in DOMAIN D[m + 1].draw
        PROVE  /\ v % 3 = 1 => D[m + 1].draw[v][3] \in 0 .. Target[address].width
               /\ v % 3 = 2 => D[m + 1].draw[v][3] \in 0 .. Target[address].height
    <3> DEFINE s == SubSeq(b, 2 * m + 3, Len(b))
    <3>1. DOMAIN s = 1 .. Len(b) - (2 * m + 2)
      BY <2>4
    <3>2. v \in 1 .. Len(b) - (2 * m + 2) /\ s[v] = b[2 * m + 2 + v]
      <4>1. v \in 1 .. Len(b) - (2 * m + 2)
        BY <2>7, <3>1
      <4>2. s[v] = b[(2 * m + 3) + v - 1]
        BY <2>4, <4>1, SMTT(60)
      <4>3. (2 * m + 3) + v - 1 = 2 * m + 2 + v
        BY <2>4, <4>1
      <4>4. QED
        BY <4>1, <4>2, <4>3
    <3> HIDE DEF s
    <3>3. D[m + 1].draw[v] = b[2 * m + 2 + v]
      BY <2>7, <3>2 DEF s
    <3>4. QED
      BY <2>2, <3>2, <3>3 DEF ForTarget
  <2>10. ASSUME NEW reg \in Fixed \cup Named
         PROVE  Cardinality({i \in DOMAIN D : "set" \in DOMAIN D[i] /\ D[i].set = reg}) = 1
    <3>1. PICK k \in 1 .. m : Stream[k] = reg
      BY StreamOnce
    <3>2. \A i \in 1 .. m : Stream[i] = reg => i = k
      BY <3>1, StreamOnce
    <3>3. "set" \notin DOMAIN D[m + 1]
      BY <2>7
    <3>4. {i \in DOMAIN D : "set" \in DOMAIN D[i] /\ D[i].set = reg} = {k}
      <4>1. 1 .. m + 1 = (1 .. m) \cup {m + 1}
        BY <2>4
      <4>2. QED
        BY <2>5, <2>7, <3>1, <3>2, <3>3, <4>1, SMTT(60)
    <3>5. QED
      BY <3>4, FS_Singleton
  <2>11. \A i \in DOMAIN D : i \in 1 .. m \/ i = m + 1
    BY <2>4, <2>5
  <2> HIDE DEF m
  <2>12. ASSUME NEW i \in DOMAIN D
         PROVE  \/ /\ "set" \in DOMAIN D[i]
                   /\ \/ D[i].set \in Fixed /\ D[i].to = Val(0)
                      \/ D[i].set = "RB3D_COLOROFFSET" /\ D[i].to = Val(address)
                      \/ D[i].set = "RB3D_COLORPITCH" /\ D[i].to = Val(Target[address].pitch)
                      \/ /\ D[i].set = "RE_WIDTH_HEIGHT"
                         /\ D[i].to = Val(Extents(Target[address].width, Target[address].height))
                \/ /\ "draw" \in DOMAIN D[i] /\ i = Len(D)
                   /\ \A v \in DOMAIN D[i].draw :
                        /\ v % 3 = 1 => D[i].draw[v][3] \in 0 .. Target[address].width
                        /\ v % 3 = 2 => D[i].draw[v][3] \in 0 .. Target[address].height
    <3>1. CASE i \in 1 .. m
      BY <2>8, <3>1, Zenon
    <3>2. CASE i = m + 1
      <4>1. "draw" \in DOMAIN D[i] /\ i = Len(D)
        BY <2>5, <2>7, <3>2
      <4>2. QED
        BY <2>9, <3>2, <4>1, Zenon
    <3>3. QED
      BY <2>11, <3>1, <3>2
  <2>13. QED
    BY <2>3, <2>10, <2>12, ZenonT(60) DEF Named
<1>3. QED
  BY <1>1, <1>2 DEF ValidateBatch

(* A distance is a multiple of a or not within a.                           *)
LEMMA RestIs ==
  ASSUME NEW x \in Int, NEW a \in Nat, a > 0, NEW k \in Int, NEW r \in 0 .. a - 1, x = a * k + r
  PROVE  x % a = r
<1> DEFINE p == x \div a
           s == x % a
<1>1. p \in Int /\ s \in 0 .. a - 1
  OBVIOUS
<1>2. x = a * p + s
  BY Divides
<1> HIDE DEF p, s
<1>3. a * (p - k) = r - s
  <2>1. a * (p - k) = a * p - a * k
    BY <1>1
  <2>2. a * p \in Int /\ a * k \in Int
    BY <1>1
  <2>3. QED
    BY <1>1, <1>2, <2>1, <2>2
<1>4. a * (k - p) = s - r
  <2>1. a * (k - p) = a * k - a * p
    BY <1>1
  <2>2. a * p \in Int /\ a * k \in Int
    BY <1>1
  <2>3. QED
    BY <1>1, <1>2, <2>1, <2>2
<1>5. ~ (r - s > 0)
  <2>1. p - k \in Int
    BY <1>1
  <2>2. 0 < a * (p - k) => a <= a * (p - k)
    BY <2>1, NoMultiple
  <2>3. QED
    BY <1>1, <1>3, <2>2
<1>6. ~ (s - r > 0)
  <2>1. k - p \in Int
    BY <1>1
  <2>2. 0 < a * (k - p) => a <= a * (k - p)
    BY <2>1, NoMultiple
  <2>3. QED
    BY <1>1, <1>4, <2>2
<1>7. s = r
  BY <1>1, <1>5, <1>6
<1>8. QED
  BY <1>7 DEF s

LEMMA Wraps ==
  ASSUME NEW a \in Nat, a > 0, NEW x \in Int
  PROVE  /\ 0 <= x /\ x < a => x % a = x
         /\ 0 - a <= x /\ x < 0 => x % a = x + a
         /\ a <= x /\ x < 2 * a => x % a = x - a
<1>1. ASSUME 0 <= x, x < a PROVE x % a = x
  <2>1. x = a * 0 + x /\ x \in 0 .. a - 1
    BY <1>1
  <2>2. QED
    BY <2>1, RestIs
<1>2. ASSUME 0 - a <= x, x < 0 PROVE x % a = x + a
  <2>1. x = a * (-1) + (x + a) /\ x + a \in 0 .. a - 1 /\ -1 \in Int
    BY <1>2
  <2>2. QED
    BY <2>1, RestIs
<1>3. ASSUME a <= x, x < 2 * a PROVE x % a = x - a
  <2>1. x = a * 1 + (x - a) /\ x - a \in 0 .. a - 1
    BY <1>3
  <2>2. QED
    BY <2>1, RestIs
<1>4. QED
  BY <1>1, <1>2, <1>3

LEMMA HalfOf == ASSUME NEW a \in Nat PROVE a \div 2 \in Nat /\ 2 * (a \div 2) <= a
BY Z3

(* A fence at most half the numbers behind the last is told from one ahead. *)
LEMMA NearFence ==
  ASSUME NEW last \in 0 .. WORD - 1, NEW fence \in 0 .. WORD - 1, NEW d \in 0 .. WORD \div 2 - 1
  PROVE  /\ fence = (last - d) % WORD => SignedWord(last - fence) >= 0
         /\ d # 0 /\ fence = (last + d) % WORD => SignedWord(last - fence) < 0
<1> DEFINE h == WORD \div 2
<1>1. WORD \in Nat /\ WORD > 0
  BY RequestsAssumption
<1>2. h \in Nat /\ 2 * h <= WORD
  BY <1>1, HalfOf
<1> HIDE DEF h
<1>3. d \in 0 .. h - 1
  BY DEF h
<1>4. ASSUME fence = (last - d) % WORD PROVE SignedWord(last - fence) >= 0
  <2>1. (last - d >= 0 => fence = last - d) /\ (last - d < 0 => fence = last - d + WORD)
    <3>1. last - d \in Int /\ last - d < WORD /\ 0 - WORD <= last - d
      BY <1>1, <1>2, <1>3
    <3>2. QED
      BY <1>1, <1>4, <3>1, Wraps
  <2>2. last - fence = d \/ last - fence = d - WORD
    BY <1>1, <1>3, <2>1
  <2>3. (last - fence) % WORD = d
    <3>1. d % WORD = d /\ (d - WORD) % WORD = d
      <4>1. d \in Int /\ d < WORD /\ d >= 0 /\ d - WORD \in Int /\ 0 - WORD <= d - WORD /\ d - WORD < 0
            /\ (d - WORD) + WORD = d
        BY <1>1, <1>2, <1>3
      <4>2. d % WORD = d
        BY <1>1, <4>1, Wraps
      <4>3. (d - WORD) % WORD = (d - WORD) + WORD
        BY <1>1, <4>1, Wraps
      <4>4. QED
        BY <4>1, <4>2, <4>3
    <3>2. QED
      BY <2>2, <3>1
  <2>4. QED
    BY <1>2, <1>3, <2>3 DEF SignedWord, h
<1>5. ASSUME d # 0, fence = (last + d) % WORD PROVE SignedWord(last - fence) < 0
  <2>1. (last + d < WORD => fence = last + d) /\ (last + d >= WORD => fence = last + d - WORD)
    <3>1. last + d \in Int /\ last + d >= 0 /\ last + d < 2 * WORD
      BY <1>1, <1>2, <1>3
    <3>2. QED
      BY <1>1, <1>5, <3>1, Wraps
  <2>2. last - fence = 0 - d \/ last - fence = WORD - d
    BY <1>1, <1>3, <2>1
  <2>3. (last - fence) % WORD = WORD - d
    <3>1. (0 - d) % WORD = WORD - d /\ (WORD - d) % WORD = WORD - d
      <4>1. 0 - d \in Int /\ 0 - d < 0 /\ 0 - WORD <= 0 - d /\ WORD - d \in Int /\ 0 <= WORD - d /\ WORD - d < WORD
            /\ (0 - d) + WORD = WORD - d
        BY <1>1, <1>2, <1>3, <1>5
      <4>2. (WORD - d) % WORD = WORD - d
        BY <1>1, <4>1, Wraps
      <4>3. (0 - d) % WORD = (0 - d) + WORD
        BY <1>1, <4>1, Wraps
      <4>4. QED
        BY <4>1, <4>2, <4>3
    <3>2. QED
      BY <2>2, <3>1
  <2>4. ~ (WORD - d < h) /\ (WORD - d) - WORD < 0
    BY <1>1, <1>2, <1>3, <1>5
  <2>5. QED
    BY <2>3, <2>4 DEF SignedWord, h
<1>6. QED
  BY <1>4, <1>5
LEMMA DivideUp ==
  ASSUME NEW n \in Nat, NEW a \in Nat, a > 0, NEW k \in Nat, k <= n \div a
  PROVE  k * a <= n
<1> DEFINE p == n \div a
           s == n % a
<1>1. p \in Int /\ s \in 0 .. a - 1 /\ n = a * p + s
  BY Divides
<1> HIDE DEF p, s
<1>2. k <= p
  BY DEF p
<1>3. k * a <= p * a
  BY <1>1, <1>2, Z3
<1>4. p * a = a * p /\ p * a \in Int
  BY <1>1
<1>5. QED
  BY <1>1, <1>3, <1>4

LEMMA LimitIs ==
  /\ MemoryLimit \in Nat /\ MemoryLimit <= Memory.size
  /\ MemoryLimit <= Memory.installed /\ MemoryLimit <= Memory.space
<1> DEFINE S == {Memory.size, Memory.installed, Memory.space}
<1>1. S \subseteq Nat /\ Memory.size \in S /\ Memory.installed \in S /\ Memory.space \in S
  BY RequestsAssumption
<1>2. \E x \in S : \A y \in S : x <= y
  BY RequestsAssumption
<1>3. Min(S) \in S /\ \A y \in S : Min(S) <= y
  <2> HIDE DEF S
  <2>1. QED
    BY <1>2, Zenon DEF Min
<1>4. QED
  BY <1>1, <1>3 DEF MemoryLimit

LEMMA ImportGood ==
  ASSUME NEW m, {m.address, m.pitch, m.width, m.height} \subseteq 0 .. WORD - 1, ImportAccepted(m)
  PROVE  LET end == (m.height - 1) * m.pitch + m.width * m.perPixel
         IN /\ m.width * m.perPixel <= m.pitch
            /\ m.address - Memory.base + end <= MemoryLimit
            /\ Memory.gpu + (m.address - Memory.base) + end <= WORD
<1> DEFINE at == m.address - Memory.base
           w == m.width * m.perPixel
           row == w % WORD
           room == MemoryLimit - at - row
           rows == (m.height - 1) * m.pitch
<1>1. /\ m.address >= Memory.base /\ at < MemoryLimit /\ m.pitch # 0 /\ m.width # 0 /\ m.height # 0
      /\ PublicSurfaceFormat(m) /\ m.width <= (WORD - 1) \div m.perPixel
      /\ row <= m.pitch /\ row <= MemoryLimit - at /\ m.height - 1 <= room \div m.pitch
  BY DEF ImportAccepted, RowFitsWord
<1>2. m.perPixel \in {1, 2, 4}
  BY <1>1 DEF PublicSurfaceFormat, Formats
<1>3. /\ WORD \in Nat /\ WORD > 0 /\ MemoryLimit \in Nat /\ MemoryLimit <= Memory.installed
      /\ Memory.base \in Nat /\ Memory.gpu \in Nat /\ Memory.installed \in Nat /\ Memory.gpu + Memory.installed <= WORD
  BY RequestsAssumption, LimitIs
<1>4. m.address \in Nat /\ m.pitch \in Nat /\ m.width \in Nat /\ m.height \in Nat /\ m.pitch > 0 /\ m.height - 1 \in Nat
  <2>1. m.address \in 0 .. WORD - 1 /\ m.pitch \in 0 .. WORD - 1 /\ m.width \in 0 .. WORD - 1 /\ m.height \in 0 .. WORD - 1
    OBVIOUS
  <2>2. m.pitch # 0 /\ m.height # 0
    BY <1>1
  <2> HIDE DEF at, w, row, room, rows
  <2>3. QED
    BY <1>3, <2>1, <2>2
<1>5. w \in Nat /\ w <= WORD - 1
  <2>1. m.perPixel \in Nat /\ m.perPixel > 0 /\ WORD - 1 \in Nat
    BY <1>2, <1>3
  <2>2. m.width * m.perPixel <= WORD - 1
    BY <1>1, <1>4, <2>1, DivideUp
  <2>3. QED
    BY <1>4, <2>1, <2>2
<1>6. row = w
  BY <1>3, <1>5, Wraps
<1>7. room \in Nat /\ at \in Nat
  <2>1. at \in Nat
    BY <1>1, <1>3, <1>4
  <2> HIDE DEF at
  <2>2. QED
    BY <1>1, <1>3, <1>5, <1>6, <2>1
<1>8. rows <= room
  <2> HIDE DEF room
  <2>1. QED
    BY <1>1, <1>4, <1>7, DivideUp
<1>9. rows \in Int
  BY <1>4
<1> HIDE DEF rows, w, at
<1>10. w <= m.pitch /\ at + (rows + w) <= MemoryLimit
  BY <1>1, <1>3, <1>4, <1>5, <1>6, <1>7, <1>8, <1>9
<1>11. Memory.gpu + at + (rows + w) <= WORD
  BY <1>3, <1>5, <1>7, <1>9, <1>10
<1>12. QED
  BY <1>10, <1>11 DEF rows, w, at

LEMMA FetchGood ==
  ASSUME NEW r, {r.offset, r.count} \subseteq 0 .. WORD - 1, DispatchAccepted(r)
  PROVE  /\ r.segment \in DOMAIN SegmentDwords
         /\ r.count > 0 /\ r.offset + r.count <= SegmentDwords[r.segment]
         /\ SegmentGpu[r.segment] + r.offset + r.count <= WORD
<1> DEFINE s == SegmentDwords[r.segment]
           g == SegmentGpu[r.segment]
<1>1. r.segment \in DOMAIN SegmentDwords /\ r.count # 0 /\ ~ (r.offset >= s) /\ ~ (r.count > s - r.offset)
  BY DEF DispatchAccepted, Overruns
<1>2. s \in Nat /\ g \in Nat /\ g + s <= WORD /\ WORD \in Nat
  BY <1>1, RequestsAssumption
<1> HIDE DEF s, g
<1>3. r.count \in Nat /\ r.offset \in Nat
  BY <1>2
<1>4. r.count > 0 /\ r.offset + r.count <= s /\ g + r.offset + r.count <= WORD
  BY <1>1, <1>2, <1>3
<1>5. QED
  BY <1>1, <1>4 DEF s, g

LEMMA InfoGood ==
  ASSUME NEW size \in Nat, InfoAccepted(size)
  PROVE  /\ InfoFilled(size) <= size
         /\ \A v \in 1 .. 4 : InfoSize[v] <= size => InfoSize[v] <= InfoFilled(size)
<1> DEFINE S == {InfoSize[v] : v \in {w \in 1 .. 4 : size >= InfoSize[w]}}
<1>1. \A v \in 1 .. 4 : InfoSize[v] \in Nat
  BY RequestsAssumption
<1>2. \A y \in S : y \in Nat /\ y <= size
  BY <1>1
<1>3. InfoSize[1] \in S
  BY DEF InfoAccepted
<1>4. InfoSize[1] < InfoSize[2] /\ InfoSize[2] < InfoSize[3] /\ InfoSize[3] < InfoSize[4]
  <2>1. InfoSize[1] < InfoSize[1 + 1] /\ InfoSize[2] < InfoSize[2 + 1] /\ InfoSize[3] < InfoSize[3 + 1]
    BY RequestsAssumption
  <2>2. QED
    BY <2>1
<1>5. \E x \in S : \A y \in S : x >= y
  <2>1. InfoSize[1] \in Nat /\ InfoSize[2] \in Nat /\ InfoSize[3] \in Nat /\ InfoSize[4] \in Nat /\ size >= InfoSize[1]
    BY <1>1 DEF InfoAccepted
  <2>2. \A v \in 1 .. 4 : v = 1 \/ v = 2 \/ v = 3 \/ v = 4
    OBVIOUS
  <2>3. CASE size >= InfoSize[4]
    <3>1. InfoSize[4] \in S /\ \A y \in S : InfoSize[4] >= y
      BY <1>4, <2>1, <2>2, <2>3
    <3>2. QED
      BY <3>1
  <2>4. CASE size < InfoSize[4] /\ size >= InfoSize[3]
    <3>1. InfoSize[3] \in S /\ \A y \in S : InfoSize[3] >= y
      BY <1>4, <2>1, <2>2, <2>4
    <3>2. QED
      BY <3>1
  <2>5. CASE size < InfoSize[3] /\ size >= InfoSize[2]
    <3>1. InfoSize[2] \in S /\ \A y \in S : InfoSize[2] >= y
      BY <1>4, <2>1, <2>2, <2>5
    <3>2. QED
      BY <3>1
  <2>6. CASE size < InfoSize[2]
    <3>1. InfoSize[1] \in S /\ \A y \in S : InfoSize[1] >= y
      BY <1>4, <2>1, <2>2, <2>6
    <3>2. QED
      BY <3>1
  <2>7. QED
    BY <2>1, <2>3, <2>4, <2>5, <2>6
<1>6. Max(S) \in S /\ \A y \in S : Max(S) >= y
  <2> HIDE DEF S
  <2>1. QED
    BY <1>5, Zenon DEF Max
<1>7. InfoFilled(size) = Max(S)
  BY DEF InfoFilled
<1>8. \A v \in 1 .. 4 : InfoSize[v] <= size => InfoSize[v] \in S
  BY <1>1
<1> HIDE DEF S
<1>9. QED
  BY <1>1, <1>2, <1>6, <1>7, <1>8

(* What was accepted is what the service keeps of it.                       *)
RequestsInv ==
  /\ kind \in DOMAIN Asked /\ stage \in {"called", "copied", "accepted", "refused", "emitted"}
  /\ shared \in Asks(kind) /\ own \in Asks(kind) /\ emitted \in Asks(kind)
  /\ stage = "accepted" => Accepted(kind, own)
  /\ stage = "refused" => ~ Accepted(kind, own)
  /\ stage = "emitted" => emitted = own /\ Accepted(kind, own)

LEMMA RequestsInitial == RequestsInit => RequestsInv
BY DEF RequestsInit, RequestsInv, Asks

LEMMA RequestsKept == RequestsInv /\ [RequestsNext]_requestvars => RequestsInv'
<1> SUFFICES ASSUME RequestsInv, [RequestsNext]_requestvars PROVE RequestsInv'
  OBVIOUS
<1>1. CASE UNCHANGED requestvars
  BY <1>1 DEF requestvars, RequestsInv
<1>2. CASE Rewrite
  <2>1. kind \in DOMAIN Rewrites /\ shared' \in Rewrites[kind] /\ UNCHANGED <<kind, own, stage, emitted>>
    BY <1>2 DEF Rewrite
  <2>2. shared' \in Asks(kind)
    BY <2>1 DEF Asks
  <2>3. QED
    BY <2>1, <2>2 DEF RequestsInv
<1>3. CASE TakeCopy
  BY <1>3 DEF TakeCopy, RequestsInv
<1>4. CASE Check
  BY <1>4 DEF Check, RequestsInv
<1>5. CASE Emit
  BY <1>5 DEF Emit, Used, RequestsInv
<1>6. QED
  BY <1>1, <1>2, <1>3, <1>4, <1>5 DEF RequestsNext

LEMMA EmittedInside == ASSUME RequestsInv PROVE FetchInsideSegment /\ BatchDrawsInside /\ ImportInsideMemory /\ InfoFillsBuffer
<1>1. ASSUME Done("dispatch") PROVE {emitted.offset, emitted.count} \subseteq 0 .. WORD - 1 /\ DispatchAccepted(emitted)
  BY <1>1, AskedAssumption DEF RequestsInv, Done, Accepted
<1>2. ASSUME Done("batch") PROVE emitted \in Seq(Dword) /\ ValidateBatch(emitted)
  BY <1>2, AskedAssumption DEF RequestsInv, Done, Accepted
<1>3. ASSUME Done("import")
      PROVE  /\ {emitted.address, emitted.pitch, emitted.width, emitted.height} \subseteq 0 .. WORD - 1
             /\ ImportAccepted(emitted)
  BY <1>3, AskedAssumption DEF RequestsInv, Done, Accepted
<1>4. ASSUME Done("info") PROVE emitted.size \in Nat /\ InfoAccepted(emitted.size)
  <2>1. emitted.size \in 0 .. WORD - 1 /\ InfoAccepted(emitted.size)
    BY <1>4, AskedAssumption DEF RequestsInv, Done, Accepted
  <2>2. WORD \in Nat
    BY RequestsAssumption
  <2>3. QED
    BY <2>1, <2>2
<1>5. FetchInsideSegment
  BY <1>1, FetchGood DEF FetchInsideSegment
<1>6. BatchDrawsInside
  BY <1>2, BatchGood, Zenon DEF BatchDrawsInside
<1>7. ImportInsideMemory
  BY <1>3, ImportGood DEF ImportInsideMemory
<1>8. InfoFillsBuffer
  BY <1>4, InfoGood DEF InfoFillsBuffer
<1>9. QED
  BY <1>5, <1>6, <1>7, <1>8

LEMMA FencesTested == ASSUME RequestsInv PROVE NearFencesTestable
<1> SUFFICES ASSUME kind = "fence", stage \in {"refused", "emitted"}, NEW d \in 0 .. WORD \div 2 - 1,
                    own.last # 0, own.fence # 0
             PROVE  /\ own.fence = (own.last - d) % WORD => stage = "emitted"
                    /\ d # 0 /\ own.fence = (own.last + d) % WORD => stage = "refused"
  BY DEF NearFencesTestable
<1>1. own.last \in 0 .. WORD - 1 /\ own.fence \in 0 .. WORD - 1
  BY AskedAssumption DEF RequestsInv
<1>2. stage = "emitted" <=> IsSessionFence(own)
  BY DEF RequestsInv, Accepted
<1>3. IsSessionFence(own) <=> SignedWord(own.last - own.fence) >= 0
  BY DEF IsSessionFence
<1>4. SignedWord(own.last - own.fence) \in Int
  <2>1. WORD \in Nat /\ WORD > 0 /\ own.last - own.fence \in Int
    BY <1>1, RequestsAssumption
  <2>2. (own.last - own.fence) % WORD \in Int
    BY <2>1
  <2>3. QED
    BY <2>1, <2>2 DEF SignedWord
<1>5. own.fence = (own.last - d) % WORD => SignedWord(own.last - own.fence) >= 0
  BY <1>1, NearFence
<1>6. d # 0 /\ own.fence = (own.last + d) % WORD => SignedWord(own.last - own.fence) < 0
  BY <1>1, NearFence
<1>7. QED
  BY <1>2, <1>3, <1>4, <1>5, <1>6

LEMMA RequestsTyped == ASSUME RequestsInv PROVE RequestsTypeOK
BY DEF RequestsInv, RequestsTypeOK

------------------------------------------------------------------------------
(* Each invariant under the steps of all the parts.                         *)
LEMMA FencePart == ClientsSpec => []IInv
<1>1. ClientsInit => IInv
  BY FenceStarts DEF ClientsInit
<1>2. IInv /\ [ClientsNext]_clientsvars => IInv'
  <2> SUFFICES ASSUME IInv, [ClientsNext]_clientsvars PROVE IInv'
    OBVIOUS
  <2>1. [FenceNext]_fencevars
    BY DEF ClientsNext, clientsvars
  <2>2. QED
    BY <2>1, FenceKeeps
<1>3. QED
  BY <1>1, <1>2, PTL DEF ClientsSpec

LEMMA PoolsPart == ClientsSpec => []PoolsInv
<1>1. ClientsInit => PoolsInv
  BY PoolsInvInitial DEF ClientsInit
<1>2. PoolsInv /\ [ClientsNext]_clientsvars => PoolsInv'
  <2> SUFFICES ASSUME PoolsInv, [ClientsNext]_clientsvars PROVE PoolsInv'
    OBVIOUS
  <2>1. [PoolsNext]_poolvars
    BY DEF ClientsNext, clientsvars
  <2>2. QED
    BY <2>1, PoolsInvKept
<1>3. QED
  BY <1>1, <1>2, PTL DEF ClientsSpec

LEMMA SamplesPart == ClientsSpec => []SamplesInv
<1>1. ClientsInit => SamplesInv
  BY SamplesInitial DEF ClientsInit
<1>2. SamplesInv /\ [ClientsNext]_clientsvars => SamplesInv'
  <2> SUFFICES ASSUME SamplesInv, [ClientsNext]_clientsvars PROVE SamplesInv'
    OBVIOUS
  <2>1. [SamplesNext]_samplevars
    BY DEF ClientsNext, clientsvars
  <2>2. QED
    BY <2>1, SamplesKept
<1>3. QED
  BY <1>1, <1>2, PTL DEF ClientsSpec

LEMMA RequestsPart == ClientsSpec => []RequestsInv
<1>1. ClientsInit => RequestsInv
  BY RequestsInitial DEF ClientsInit
<1>2. RequestsInv /\ [ClientsNext]_clientsvars => RequestsInv'
  <2> SUFFICES ASSUME RequestsInv, [ClientsNext]_clientsvars PROVE RequestsInv'
    OBVIOUS
  <2>1. [RequestsNext]_requestvars
    BY DEF ClientsNext, clientsvars
  <2>2. QED
    BY <2>1, RequestsKept
<1>3. QED
  BY <1>1, <1>2, PTL DEF ClientsSpec

(* The two forms of the exchange have the same variables: the invariant of  *)
(* the one that runs, and phase3host's while neither does.                  *)
RingPartInv == IF part = "oneshot" THEN OneInv ELSE DirectInv

LEMMA RingPart == ClientsSpec => []RingPartInv
<1>1. ClientsInit => RingPartInv
  <2> SUFFICES ASSUME ClientsInit PROVE RingPartInv
    OBVIOUS
  <2>1. DirectInit
    BY DEF ClientsInit
  <2>2. QED
    BY <2>1, InitDirect, InitOne DEF RingPartInv
<1>2. RingPartInv /\ [ClientsNext]_clientsvars => RingPartInv'
  <2> SUFFICES ASSUME RingPartInv, [ClientsNext]_clientsvars PROVE RingPartInv'
    OBVIOUS
  <2>1. part' = part
    BY DEF ClientsNext, clientsvars
  <2>2. CASE part = "oneshot"
    <3>1. OneInv /\ (OneShotNext \/ UNCHANGED directvars)
      BY <2>2 DEF RingPartInv, ClientsNext, clientsvars
    <3>2. OneInv'
      BY <3>1, StepOne, SameOne
    <3>3. QED
      BY <2>1, <2>2, <3>2 DEF RingPartInv
  <2>3. CASE part # "oneshot"
    <3>1. DirectInv /\ (DirectNext \/ UNCHANGED directvars)
      BY <2>3 DEF RingPartInv, ClientsNext, clientsvars
    <3>2. DirectInv'
      BY <3>1, StepDirect, SameDirect
    <3>3. QED
      BY <2>1, <2>3, <3>2 DEF RingPartInv
  <2>4. QED
    BY <2>2, <2>3
<1>3. QED
  BY <1>1, <1>2, PTL DEF ClientsSpec

(* A child counts its batches as it submits them.                           *)
CountsBatches == child.submits = child.batch

LEMMA CountsKept ==
  ASSUME DirectTyped, CountsBatches, DirectNext \/ OneShotNext \/ UNCHANGED directvars
  PROVE  CountsBatches'
<1>1. child \in ChildRecord
  BY DEF DirectTyped
<1>2. ASSUME child' = child PROVE CountsBatches'
  BY <1>2 DEF CountsBatches
<1>3. ASSUME NEW from, NEW to, ChildGoes(from, to) PROVE CountsBatches'
  BY <1>1, <1>3 DEF ChildGoes, ChildRecord, CountsBatches
<1>4. ASSUME NEW from, NEW why, ChildFails(from, why) PROVE CountsBatches'
  BY <1>1, <1>4 DEF ChildFails, ChildRecord, CountsBatches
<1>5. CASE ChildStart
  BY <1>5 DEF ChildStart, NoChild, CountsBatches
<1>6. CASE ChildValidate
  BY <1>3, <1>6 DEF ChildValidate
<1>7. CASE ChildClear
  BY <1>3, <1>7 DEF ChildClear
<1>8. CASE ChildEcho
  <2>1. CASE child.pc = "echo"
    <3>1. PICK gen : child' = [child EXCEPT !.pc = "present", !.gen = gen]
      BY <1>8, <2>1 DEF ChildEcho, ChildGoes
    <3>2. QED
      BY <1>1, <3>1 DEF ChildRecord, CountsBatches
  <2>2. CASE child.pc # "echo"
    BY <1>3, <1>8, <2>2 DEF ChildEcho
  <2>3. QED
    BY <2>1, <2>2
<1>9. CASE ChildPoll \/ OnePoll
  <2>1. \/ child' = child
        \/ ChildGoes("poll", "range")
        \/ child' = [child EXCEPT !.pc = "result", !.stage = "host_wait"]
        \/ child' = [child EXCEPT !.pc = "result", !.stage = "reserve"]
    BY <1>9 DEF ChildPoll, OnePoll
  <2>2. QED
    BY <1>1, <1>2, <1>3, <2>1 DEF ChildRecord, CountsBatches
<1>10. CASE ChildDescriptors \/ OneDescriptors
  <2>1. CASE ChildDescriptors
    <3>1. child'.submits = child.submits /\ child'.batch = child.batch
      BY <1>1, <2>1 DEF ChildDescriptors, ChildRecord
    <3>2. QED
      BY <3>1 DEF CountsBatches
  <2>2. CASE OneDescriptors
    <3>1. child'.submits = child.submits /\ child'.batch = child.batch
      BY <1>1, <2>2 DEF OneDescriptors, ChildRecord
    <3>2. QED
      BY <3>1 DEF CountsBatches
  <2>3. QED
    BY <1>10, <2>1, <2>2
<1>11. CASE ChildReserve
  BY <1>3, <1>4, <1>11 DEF ChildReserve
<1>12. CASE ChildWrite
  <2>1. \/ \E pc : child' = [child EXCEPT !.pc = pc]
        \/ ChildFails("back", "readback")
    BY <1>12 DEF ChildWrite, ChildGoes
  <2>2. QED
    BY <1>1, <1>4, <2>1 DEF ChildRecord, CountsBatches
<1>13. CASE ChildCommit
  <2>1. \/ child'.submits = child.submits + 1 /\ child'.batch = child.batch + 1
        \/ child'.submits = child.submits /\ child'.batch = child.batch
    BY <1>1, <1>13 DEF ChildCommit, ChildRecord
  <2>2. QED
    BY <2>1 DEF CountsBatches
<1>14. CASE ChildRetire
  <2>1. \/ child' = [child EXCEPT !.pc = "result", !.retired = TRUE]
        \/ ChildFails("fence", "fence")
    BY <1>14 DEF ChildRetire
  <2>2. QED
    BY <1>1, <1>4, <2>1 DEF ChildRecord, CountsBatches
<1>15. CASE ChildPublish \/ OnePublish
  BY <1>3, <1>15 DEF ChildPublish, OnePublish
<1>16. CASE OneStart
  BY <1>16 DEF OneStart, NoChild, CountsBatches
<1>17. CASE OneValidate \/ OneMark
  BY <1>3, <1>17 DEF OneValidate, OneMark
<1>18. CASE OwnSubmit \/ FetchUnit \/ LeaseReclaim \/ HalfSecond
  BY <1>2, <1>18 DEF OwnSubmit, FetchUnit, LeaseReclaim, HalfSecond
<1>19. CASE HostStart \/ HostPublish \/ HostArrival \/ HostArrivalFails \/ HostAcquire \/ HostGrant
              \/ HostWait \/ HostWaitFails \/ HostResults \/ HostRelease \/ HostClose
  BY <1>2, <1>19 DEF HostStart, HostPublish, HostArrival, HostArrivalFails, HostAcquire, HostGrant,
       HostWait, HostWaitFails, HostResults, HostRelease, HostClose, HostQuits,
       PublishHead, PublishTail
<1>20. CASE OneHostStart \/ OneHostArrival \/ OnePublishFirst \/ OnePublishSecond \/ PublishHostDone \/ OneHostWait
  BY <1>2, <1>20 DEF OneHostStart, OneHostArrival, OnePublishFirst, OnePublishSecond, PublishHostDone, OneHostWait,
       HostQuits
<1>21. CASE UNCHANGED directvars
  BY <1>2, <1>21 DEF directvars
<1>22. CASE DirectNext
  BY <1>5, <1>6, <1>7, <1>8, <1>9, <1>10, <1>11, <1>12, <1>13, <1>14, <1>15, <1>18, <1>19, <1>22 DEF DirectNext
<1>23. CASE OneShotNext
  BY <1>9, <1>10, <1>11, <1>12, <1>13, <1>14, <1>15, <1>16, <1>17, <1>18, <1>19, <1>20, <1>23
     DEF OneShotNext, OneReserve, OneWrite, OneCommit, OneRetire, OneAcquire, OneWaitFails, OneResults,
         OneRelease, OneClose
<1>24. QED
  BY <1>21, <1>22, <1>23

LEMMA CountsPart == ClientsSpec => []CountsBatches
<1>1. ClientsInit => CountsBatches
  <2> SUFFICES ASSUME ClientsInit PROVE CountsBatches
    OBVIOUS
  <2>1. DirectInit
    BY DEF ClientsInit
  <2>2. QED
    BY <2>1 DEF DirectInit, NoChild, CountsBatches
<1>2. RingPartInv /\ CountsBatches /\ [ClientsNext]_clientsvars => CountsBatches'
  <2> SUFFICES ASSUME RingPartInv, CountsBatches, [ClientsNext]_clientsvars PROVE CountsBatches'
    OBVIOUS
  <2>1. DirectNext \/ OneShotNext \/ UNCHANGED directvars
    BY DEF ClientsNext, clientsvars
  <2>2. DirectTyped
    BY DEF RingPartInv, OneInv, DirectInv, CommonInv
  <2>3. QED
    BY <2>1, <2>2, CountsKept
<1>3. QED
  BY <1>1, <1>2, RingPart, PTL DEF ClientsSpec

LEMMA DirectTypes == ASSUME DirectTyped, CountsBatches PROVE DirectTypeOK
<1>1. cpring.rptr \in Places /\ cpring.wptr \in Places /\ cpring.scratch \in Seqs
  BY DEF DirectTyped, RingRecord
<1>2. granted.write \in Places /\ granted.next \in NextSeqs /\ granted.age \in Ages
  BY DEF DirectTyped, DriverRecord
<1>3. child.wptr \in Places /\ child.next \in Seqs /\ child.last \in Seqs /\ child.submits \in Nat /\ child.batch \in Nat
  BY DEF DirectTyped, ChildRecord
<1>4. hosting.last \in Seqs /\ block.last \in Seqs
  BY DEF DirectTyped, HostRecord, BlockRecord
<1>5. granted.next \in 1 .. SeqRange - 1
  <2>1. SeqRange \in Nat
    BY DirectRingAssumption
  <2>2. QED
    BY <1>2, <2>1 DEF NextSeqs, Seqs
<1>6. orphan \in BOOLEAN
  BY DEF DirectTyped
<1>7. QED
  BY <1>1, <1>2, <1>3, <1>4, <1>5, <1>6 DEF DirectTypeOK, CountsBatches, Places, Seqs, Ages

LEMMA FenceBoundsPart == ClientsSpec => []FenceBounds
<1>1. ClientsInit => FenceBounds
  BY FenceBoundsStart DEF ClientsInit
<1>2. FenceBounds /\ [ClientsNext]_clientsvars => FenceBounds'
  <2> SUFFICES ASSUME FenceBounds, [ClientsNext]_clientsvars PROVE FenceBounds'
    OBVIOUS
  <2>1. [FenceNext]_fencevars
    BY DEF ClientsNext, clientsvars
  <2>2. QED
    BY <2>1, FenceBoundsKept
<1>3. QED
  BY <1>1, <1>2, PTL DEF ClientsSpec

LEMMA ProbesPart == ClientsSpec => []ProbesInv
<1>1. ClientsInit => ProbesInv
  BY ProbesBegin DEF ClientsInit
<1>2. ProbesInv /\ [ClientsNext]_clientsvars => ProbesInv'
  <2> SUFFICES ASSUME ProbesInv, [ClientsNext]_clientsvars PROVE ProbesInv'
    OBVIOUS
  <2>1. [ProbesNext]_probevars
    BY DEF ClientsNext, clientsvars
  <2>2. QED
    BY <2>1, ProbesStep
<1>3. QED
  BY <1>1, <1>2, PTL DEF ClientsSpec

LEMMA AccountsPart == ClientsSpec => []AccountsInv
<1>1. ClientsInit => AccountsInv
  BY AccountsInitInv DEF ClientsInit
<1>2. AccountsInv /\ [ClientsNext]_clientsvars => AccountsInv'
  <2> SUFFICES ASSUME AccountsInv, [ClientsNext]_clientsvars PROVE AccountsInv'
    OBVIOUS
  <2>1. [AccountsNext]_accountvars
    BY DEF ClientsNext, clientsvars
  <2>2. QED
    BY <2>1, AccountsStep
<1>3. QED
  BY <1>1, <1>2, PTL DEF ClientsSpec

(* Which part runs never changes.                                           *)
Parts == {"fence", "pools", "samples", "requests", "direct", "oneshot", "probes", "accounts"}
PartKnown == part \in Parts

LEMMA PartStays == ClientsSpec => []PartKnown
<1>1. ClientsInit => PartKnown
  BY DEF ClientsInit, PartKnown, Parts
<1>2. PartKnown /\ [ClientsNext]_clientsvars => PartKnown'
  BY DEF ClientsNext, clientsvars, PartKnown
<1>3. QED
  BY <1>1, <1>2, PTL DEF ClientsSpec

(* PendingFence names the last fenced submission for as long as one is in   *)
(* flight, so that a wait for it waits for all, and the test for equality   *)
(* of RadeonCpWait never misses it (RadeonCpSubmit, RadeonCpSubmitStream).  *)
THEOREM FencesStayAnswered == ClientsSpec => []FencesAnswered
<1>1. IInv => FencesAnswered
  BY LastPending, ExactWait DEF FencesAnswered
<1>2. QED
  BY <1>1, FencePart, PTL

(* Surfaces never overlap, what is taken of a pool is a session's or on its *)
(* way back, and a refusal means that the pool had no room: for every size  *)
(* of the pool and its table, and any number of sessions (AuxPoolAlloc,     *)
(* AuxPoolFree).                                                            *)
THEOREM PoolStaysSound == ClientsSpec => []PoolSound
<1>1. PoolsInv => PoolSound
  BY PoolsApart, PoolsKept, PoolsFit DEF PoolSound
<1>2. QED
  BY <1>1, PoolsPart, PTL

(* What the engine still draws to is freed for nobody else: the fence of    *)
(* the session that asked for it is waited for first                        *)
(* (Radeon3DReleaseSurface, and the wait of Radeon3DClose before            *)
(* FreeDeviceSurfaces).                                                     *)
THEOREM TargetsStay == ClientsSpec => []FencedWorkKeepsTarget
<1>1. PoolsInv => FencedWorkKeepsTarget
  BY PoolsFly
<1>2. QED
  BY <1>1, PoolsPart, PTL

(* A reader takes no sample that mixes two, at whatever word the writer is  *)
(* while it copies, and one that no submission overtakes gets all that the  *)
(* ring holds (RecordExecSample; DumpSamples of radeon3dinfo.c).            *)
THEOREM SamplesStayWhole == ClientsSpec => []SamplesWhole
<1>1. SamplesInv => SamplesWhole
  BY NoneTorn, AllGathered DEF SamplesWhole
<1>2. QED
  BY <1>1, SamplesPart, PTL

(* For every word size, memory layout, stream and set of requests, and      *)
(* whatever another task makes of a request meanwhile: the engine fetches   *)
(* inside the client's segment, a batch sets the published registers once   *)
(* and draws inside one target, a bitmap lies inside the board, an answer   *)
(* fits its buffer, and fences near the last are told apart                 *)
(* (Radeon3DDispatchIndirect, ValidateBatch, Radeon3DImportBitMap,          *)
(* FillInfo, IsSessionFence).                                               *)
THEOREM RequestsStayInside == ClientsSpec => []RequestsInside
<1>1. RequestsInv => RequestsInside
  BY EmittedInside, FencesTested DEF RequestsInside
<1>2. QED
  BY <1>1, RequestsPart, PTL

(* On the ring that the PowerPC writes, for every size of it: what the      *)
(* command processor is still to fetch is overwritten by neither side, and  *)
(* it finds whole batches between its pointers, through every grant,        *)
(* release and expiry (ppcphase3.c, ppcphase2.c, RadeonCpAdoptFence,        *)
(* LeaseReclaim).                                                           *)
THEOREM RingStaysShared == ClientsSpec => []RingShared
<1>1. RingPartInv => RingShared
  BY SharedFrom DEF RingPartInv, OneInv, DirectInv
<1>2. QED
  BY <1>1, RingPart, PTL

(* A host accepts a result only of a child that used its lease and whose    *)
(* batches are all executed, phase3host keeps its lease while it waits, and *)
(* ppcphase2 reads whole what HOST_DONE announces, for any number of runs   *)
(* (phase3host.c, phase2host.c and their children).                         *)
THEOREM HandshakesStaySound == ClientsSpec => []HandshakesSound
<1>1. RingPartInv => HandshakesSound
  BY HandshakeFrom, OneShotFrom DEF RingPartInv, HandshakesSound
<1>2. QED
  BY <1>1, RingPart, PTL

(* A child gives up only on a HOST_READY, or HOST_DONE, that is not there:  *)
(* every poll of it is a look at memory, never at a copy (P0FlushRange of   *)
(* ppcphase3.c, the loop of ppcphase2.c).                                   *)
THEOREM GivesUpOnlyUnready == ClientsSpec => GivesUpUnready
<1>1. RingPartInv /\ [ClientsNext]_clientsvars
        => [child.pc = "poll" /\ child'.pc = "result" => ~block.ready]_directvars
  <2> SUFFICES ASSUME RingPartInv, [ClientsNext]_clientsvars, child.pc = "poll", child'.pc = "result",
                      ~UNCHANGED directvars
               PROVE  ~block.ready
    OBVIOUS
  <2>1. DirectNext \/ OneShotNext
    BY DEF ClientsNext, clientsvars
  <2>2. DirectTyped
    BY DEF RingPartInv, OneInv, DirectInv, CommonInv
  <2>3. QED
    BY <2>1, <2>2, GivesUp
<1>2. QED
  BY <1>1, RingPart, PTL DEF ClientsSpec, GivesUpUnready

(* What the probes of a debug build report of the card is so, and nothing   *)
(* is left behind of them, for every card, ring and failure; and its        *)
(* counters add up to the calls that returned, by whatever path, and to no  *)
(* more time than passed, for every number of calls (CpDebugProbe and what  *)
(* it calls, radeon_cp.c; radeon_debug.c).                                  *)
THEOREM DebugStaysHonest == ClientsSpec => []DebugHonest
<1>1. ProbesInv /\ AccountsInv => DebugHonest
  BY ProbesInvSound, AccountsInvBalances DEF DebugHonest
<1>2. QED
  BY <1>1, ProbesPart, AccountsPart, PTL

(* Every part keeps to its types and bounds: the flight to the submissions  *)
(* that fit, the entries of a pool to its memory, ring positions and        *)
(* numbers to their ranges, the age of a lease to its expiry.               *)
THEOREM ClientsTypeCorrect == ClientsSpec => []ClientsTypeOK
<1>1. IInv /\ FenceBounds => FenceTypeOK
  BY DEF IInv, FenceBounds, FenceTypeOK
<1>2. RingPartInv /\ CountsBatches => DirectTypeOK
  BY DirectTypes DEF RingPartInv, OneInv, DirectInv, CommonInv
<1>3. IInv /\ FenceBounds /\ PoolsInv /\ SamplesInv /\ RequestsInv /\ RingPartInv /\ CountsBatches
        /\ ProbesInv /\ AccountsInv /\ PartKnown => ClientsTypeOK
  BY <1>1, <1>2, PoolsTyped, SamplesTyped, RequestsTyped, ProbesInvTyped, AccountsInvTyped
     DEF ClientsTypeOK, PartKnown, Parts
<1>4. QED
  BY <1>3, FencePart, FenceBoundsPart, PoolsPart, SamplesPart, RequestsPart, RingPart, CountsPart,
     ProbesPart, AccountsPart, PartStays, PTL
==============================================================================
