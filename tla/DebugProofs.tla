------------------------------ MODULE DebugProofs ------------------------------
(***************************************************************************)
(* What a debug build says of the card is so.  Of its probes: nothing is   *)
(* left behind and the verdicts are what the card can do, for every size   *)
(* of the ring, of a fill, and every fault (Probes).  Of its counters:     *)
(* they add up to the calls that returned, whatever path each took, and to *)
(* no more time than passed, for every bound on calls and time (Accounts). *)
(***************************************************************************)
EXTENDS Probes, Accounts, TLAPS, SequenceTheorems, FiniteSetTheorems
------------------------------------------------------------------------------
(* The probes.  Where CpDebugProbe is, where a command's dwords lie, what   *)
(* is in the ring and what a dispatch reports.                              *)
Place == {"mono", "open", "first", "second", "fences", "future", "reserve", "fill", "filled", "crossed",
          "fail", "indirect", "dispatch", "answer", "report", "free", "fallback", "enable", "done"}
Where == {"none", "low", "pool"}
Commits == [what : {"fence", "noops", "ib"}, value : Nat, units : Nat, at : Nat, place : Where, dwords : Nat]
Reports == [place : Where, dwords : Nat, accepted : BOOLEAN, fence : BOOLEAN, scratch : Int, ready : BOOLEAN]

(* Types: what a probe may have made of each part.                          *)
CpKept ==
  cp \in [Ready : BOOLEAN, WritePointer : 0 .. ProbeUnits - 1, NextFence : Nat \ {0},
             PendingFence : Nat, DebugSequence : Nat]
UnreadKept ==
  unread \in Seq(Commits)
CardKept ==
  card \in [scratch0 : Int, scratch1 : Int, hung : BOOLEAN, crossed : BOOLEAN,
               partition : {Production, "none"}, faults : SUBSET Faults,
               mono : {"expands", "wrong", "hangs", "small"}, regs : {"probe", "baseline"},
               shadow : {"unknown", "baseline"}]
StateKept ==
  state \in [accel : {"READY", "UNSAFE", "FALLBACK"}, service : {"ATTACHED", "READY"}, tried : BOOLEAN]
ProbeKept ==
  probe \in [at : Place, case : 1 .. 5, accepted : BOOLEAN, fence : BOOLEAN, poolFence : BOOLEAN, pool : BOOLEAN]
ResultsKept ==
  results \in [CpActive : BOOLEAN, fences : Seq(Nat), FenceOrder : BOOLEAN, Future : BOOLEAN, NearFull : BOOLEAN,
                  WrapBefore : Nat, Wrap : BOOLEAN, held : BOOLEAN, Mono : {"none", "OK", "SKIPPED", "FAILED", "WRONG"},
                  Fallback : {"none", "passed", "failed"}, slots : [1 .. 3 -> Reports]]
FieldsKept == CpKept /\ UnreadKept /\ CardKept /\ StateKept /\ ProbeKept /\ ResultsKept

Tested == results.FenceOrder /\ results.Future /\ results.NearFull /\ results.Wrap

(* The probes submit only to a processor that runs, under the partition it  *)
(* was started with; one that hangs does so at the head of what is unread,  *)
(* and one that is off has nothing to read and no service.                  *)
CpRuns ==
  /\ probe.at \in {"first", "second", "fences", "future", "reserve", "fill", "filled", "crossed", "dispatch", "answer"} => cp.Ready
  /\ cp.Ready => card.partition = Production /\ ~state.tried /\ card.scratch0 < cp.NextFence
  /\ cp.Ready /\ card.hung => unread # <<>> /\ Stops(Head(unread))
  /\ ~cp.Ready => unread = <<>> /\ cp.PendingFence = 0 /\ state.service = "ATTACHED"
  /\ cp.PendingFence \in {0, cp.NextFence - 1}

(* Between the tests the ring is drained, and no fence is pending.          *)
RingEmpty ==
  probe.at \in {"mono", "open", "first", "future", "reserve", "fail", "indirect", "dispatch", "report", "free", "fallback", "enable", "done"}
    => unread = <<>>

NothingPends ==
  probe.at \in {"mono", "open", "first", "future", "reserve", "fill", "filled", "crossed", "indirect", "dispatch", "report"} => cp.PendingFence = 0

(* Where the write pointer is, from what each test has submitted: the wrap  *)
(* test counts on it.                                                       *)
UnitsDone ==
  CASE probe.at \in {"mono", "open"} -> IF cp.Ready THEN StartupUnits ELSE 0
    [] probe.at = "first" -> StartupUnits
    [] probe.at = "second" -> StartupUnits + 1
    [] probe.at \in {"fences", "future", "reserve"} -> StartupUnits + 2
    [] probe.at \in {"fill", "filled"} -> StartupUnits + 2 + cp.DebugSequence * DebugMax
    [] OTHER -> cp.WritePointer

Placed ==
  /\ cp.WritePointer = UnitsDone
  /\ probe.at \in {"mono", "open", "first", "second", "fences", "future", "reserve"} => cp.DebugSequence = 0

(* The two fences of the first test are queued in their order.              *)
FencesQueued ==
  probe.at \in {"second", "fences"} =>
    /\ cp.PendingFence = cp.NextFence - 1
    /\ \A k \in 1 .. Len(unread) : unread[k].what = "fence" /\ unread[k].value = cp.NextFence - 1 - Len(unread) + k
    /\ unread # <<>> => card.scratch0 < cp.NextFence - 1
    /\ Len(unread) < cp.NextFence

Crosses(c) == c.at + c.units > ProbeUnits
(* The fills of the wrap test are queued in their order, the last of them   *)
(* alone crosses the ring's end, and one that was answered is read whole.   *)
NoopsQueued ==
  probe.at \in {"fill", "filled", "crossed"} =>
    /\ Len(unread) <= cp.DebugSequence
    /\ \A k \in 1 .. Len(unread) :
         /\ unread[k].what = "noops" /\ unread[k].value = cp.DebugSequence - Len(unread) + k
         /\ Crosses(unread[k]) <=> probe.at = "crossed" /\ k = Len(unread)
    /\ card.scratch1 = cp.DebugSequence => unread = <<>> \/ cp.DebugSequence = 1
    /\ probe.at = "fill" => cp.DebugSequence = 0 \/ card.scratch1 = cp.DebugSequence
    /\ probe.at # "fill" => cp.DebugSequence > 0
    /\ probe.at = "crossed" => cp.DebugSequence > 1 /\ (unread = <<>> => card.crossed)

(* What came before the place the probe is at, and passed.                  *)
TestsPassed ==
  /\ probe.at = "future" => results.FenceOrder
  /\ probe.at \in {"reserve", "fill", "filled", "crossed"} => results.FenceOrder /\ results.Future
  /\ probe.at \in {"fill", "filled", "crossed"} => results.NearFull
  /\ probe.at = "indirect" /\ cp.Ready => Tested
  /\ probe.at \in {"dispatch", "answer", "report"} => Tested
  /\ results.Wrap => card.crossed

(* The one indirect buffer whose answer is awaited.                         *)
BufferQueued ==
  probe.at = "answer" =>
    /\ probe.accepted /\ cp.PendingFence = cp.NextFence - 1 /\ cp.PendingFence > 0
    /\ IF unread = <<>>
       THEN card.scratch1 = TestValue /\ Works(IbPlace, IbDwords)
       ELSE /\ Len(unread) = 1 /\ unread[1].what = "ib" /\ unread[1].value = cp.PendingFence
            /\ unread[1].place = IbPlace /\ unread[1].dwords = IbDwords
            /\ card.scratch0 < cp.PendingFence

(* What a dispatch found out is what its buffer does.                       *)
ReportRight ==
  probe.at = "report" /\ probe.accepted =>
    /\ probe.fence <=> Works(IbPlace, IbDwords)
    /\ probe.fence => card.scratch1 = TestValue

(* The segment is held from its allocation to its release, and the end      *)
(* publishes what the processor is.                                         *)
Ends ==
  /\ results.held => probe.at \in {"dispatch", "answer", "report", "free"}
  /\ IF probe.at \in {"enable", "done"}
     THEN results.Fallback # "none" => results.Fallback = Verdict(state.accel # "UNSAFE")
     ELSE results.Fallback = "none"
  /\ probe.at = "done" => (state.service = "READY" <=> cp.Ready) /\ results.CpActive = cp.Ready

(* The inductive invariant: with the verdicts, all that the next test takes *)
(* for granted.                                                             *)
ProbesInv ==
  /\ FieldsKept /\ CpRuns /\ RingEmpty /\ NothingPends /\ Placed /\ FencesQueued /\ NoopsQueued
  /\ TestsPassed /\ BufferQueued /\ ReportRight /\ Ends /\ VerdictsRight /\ MonoRight

LEMMA SizesGood ==
  ProbeUnits \in Nat /\ DebugMax \in Nat /\ 4 < DebugMax /\ 2 * DebugMax < ProbeUnits
BY RingAssumption

LEMMA WrapsInside ==
  ASSUME NEW n \in Nat
  PROVE  /\ n % ProbeUnits \in 0 .. ProbeUnits - 1
         /\ n < ProbeUnits => n % ProbeUnits = n
BY SizesGood

LEMMA Appended ==
  ASSUME NEW S, NEW s \in Seq(S), NEW e \in S
  PROVE  /\ Append(s, e) \in Seq(S) /\ Append(s, e) # <<>>
         /\ Len(Append(s, e)) = Len(s) + 1 /\ Len(s) \in Nat
         /\ \A k \in 1 .. Len(s) : Append(s, e)[k] = s[k]
         /\ Append(s, e)[Len(s) + 1] = e
OBVIOUS

LEMMA FirstIsHead ==
  ASSUME NEW S, NEW s \in Seq(S), s # <<>>
  PROVE  /\ Head(s) = s[1] /\ Head(s) \in S /\ Len(s) \in Nat \ {0} /\ Tail(s) \in Seq(S)
         /\ Len(Tail(s)) = Len(s) - 1 /\ \A k \in 1 .. Len(s) - 1 : Tail(s)[k] = s[k + 1]
OBVIOUS

LEMMA EmptyOrNot ==
  ASSUME NEW S, NEW s \in Seq(S)
  PROVE  s = <<>> <=> Len(s) = 0
OBVIOUS

LEMMA CpSubmits ==
  ASSUME CpKept, NEW w \in 0 .. ProbeUnits - 1, NEW n \in Nat \ {0}, NEW p \in Nat,
         cp' = [cp EXCEPT !.WritePointer = w, !.NextFence = n, !.PendingFence = p]
  PROVE  /\ CpKept'
         /\ cp'.Ready = cp.Ready /\ cp'.WritePointer = w /\ cp'.NextFence = n /\ cp'.PendingFence = p
         /\ cp'.DebugSequence = cp.DebugSequence
BY DEF CpKept

LEMMA CpFills ==
  ASSUME CpKept, NEW w \in 0 .. ProbeUnits - 1, NEW d \in Nat, cp' = [cp EXCEPT !.WritePointer = w, !.DebugSequence = d]
  PROVE  /\ CpKept'
         /\ cp'.Ready = cp.Ready /\ cp'.WritePointer = w /\ cp'.NextFence = cp.NextFence
         /\ cp'.PendingFence = cp.PendingFence /\ cp'.DebugSequence = d
BY DEF CpKept

LEMMA RadeonDebugOpenKeeps ==
  ASSUME ProbesInv, RadeonDebugOpen
  PROVE  ProbesInv'
<1>0. /\ CpKept /\ UnreadKept /\ CardKept /\ StateKept /\ ProbeKept /\ ResultsKept
      /\ CpRuns /\ RingEmpty /\ NothingPends /\ Placed /\ FencesQueued /\ NoopsQueued /\ TestsPassed
      /\ BufferQueued /\ ReportRight /\ Ends /\ VerdictsRight /\ MonoRight
  BY DEF ProbesInv, FieldsKept
<1> USE <1>0
<1>1. CASE cp.Ready
  <2> USE <1>1
  <2>g. probe.at = "open"
    BY SMT DEF RadeonDebugOpen, ProbeGoes
  <2>cpf. cp' = cp
    BY SMT DEF RadeonDebugOpen, ProbeGoes
  <2>cpt. CpKept'
    BY <2>cpf DEF CpKept
  <2>cardf. card' = card
    BY SMT DEF RadeonDebugOpen, ProbeGoes
  <2>cardt. CardKept'
    BY <2>cardf DEF CardKept
  <2>statef. state' = state
    BY SMT DEF RadeonDebugOpen, ProbeGoes
  <2>statet. StateKept'
    BY <2>statef DEF StateKept
  <2>probe. probe' = [probe EXCEPT !.at = "first"]
    BY SMT DEF RadeonDebugOpen, ProbeGoes
  <2>probet. ProbeKept'
    BY <2>probe DEF ProbeKept, Place
  <2>probef. /\ probe'.at = "first"
             /\ probe'.case = probe.case
             /\ probe'.accepted = probe.accepted
             /\ probe'.fence = probe.fence
             /\ probe'.poolFence = probe.poolFence
             /\ probe'.pool = probe.pool
    BY <2>probe, ProbeKept DEF ProbeKept
  <2>results. results' = [results EXCEPT !.CpActive = cp.Ready]
    BY SMT DEF RadeonDebugOpen, ProbeGoes
  <2>resultst. ResultsKept'
    BY <2>results, CpKept DEF ResultsKept, CpKept
  <2>resultsf. /\ results'.CpActive = cp.Ready
               /\ results'.fences = results.fences
               /\ results'.FenceOrder = results.FenceOrder
               /\ results'.Future = results.Future
               /\ results'.NearFull = results.NearFull
               /\ results'.WrapBefore = results.WrapBefore
               /\ results'.Wrap = results.Wrap
               /\ results'.held = results.held
               /\ results'.Mono = results.Mono
               /\ results'.Fallback = results.Fallback
               /\ results'.slots = results.slots
    BY <2>results, ResultsKept DEF ResultsKept
  <2>unreadf. unread' = unread
    BY SMT DEF RadeonDebugOpen, ProbeGoes
  <2>unreadt. UnreadKept'
    BY <2>unreadf DEF UnreadKept
  <2> USE <2>cpf, <2>cardf, <2>statef, <2>probef, <2>resultsf, <2>unreadf, <2>g
  <2>c1. CpRuns'
    BY CpRuns DEF CpRuns, Stops, Works
  <2>c2. RingEmpty'
    BY RingEmpty DEF RingEmpty
  <2>c3. NothingPends'
    BY NothingPends DEF NothingPends
  <2>c4. Placed'
    BY Placed DEF Placed, UnitsDone, StartupUnits
  <2>c5. FencesQueued'
    BY FencesQueued DEF FencesQueued
  <2>c6. NoopsQueued'
    BY NoopsQueued DEF NoopsQueued, Crosses
  <2>c7. TestsPassed'
    BY TestsPassed DEF TestsPassed, Tested
  <2>c8. BufferQueued'
    BY BufferQueued DEF BufferQueued, Works, IbPlace, IbDwords
  <2>c9. ReportRight'
    BY ReportRight DEF ReportRight, Works, IbPlace, IbDwords
  <2>c10. Ends'
    BY Ends DEF Ends
  <2>c11. VerdictsRight'
    BY VerdictsRight DEF VerdictsRight, Works
  <2>c12. MonoRight'
    BY MonoRight DEF MonoRight
  <2> QED
    BY <2>cpt, <2>cardt, <2>statet, <2>probet, <2>resultst, <2>unreadt, <2>c1, <2>c2, <2>c3, <2>c4, <2>c5, <2>c6, <2>c7, <2>c8, <2>c9, <2>c10, <2>c11, <2>c12 DEF ProbesInv, FieldsKept
<1>2. CASE ~cp.Ready
  <2> USE <1>2
  <2>g. probe.at = "open"
    BY SMT DEF RadeonDebugOpen, ProbeGoes
  <2>cpf. cp' = cp
    BY SMT DEF RadeonDebugOpen, ProbeGoes
  <2>cpt. CpKept'
    BY <2>cpf DEF CpKept
  <2>cardf. card' = card
    BY SMT DEF RadeonDebugOpen, ProbeGoes
  <2>cardt. CardKept'
    BY <2>cardf DEF CardKept
  <2>statef. state' = state
    BY SMT DEF RadeonDebugOpen, ProbeGoes
  <2>statet. StateKept'
    BY <2>statef DEF StateKept
  <2>probe. probe' = [probe EXCEPT !.at = "indirect"]
    BY SMT DEF RadeonDebugOpen, ProbeGoes
  <2>probet. ProbeKept'
    BY <2>probe DEF ProbeKept, Place
  <2>probef. /\ probe'.at = "indirect"
             /\ probe'.case = probe.case
             /\ probe'.accepted = probe.accepted
             /\ probe'.fence = probe.fence
             /\ probe'.poolFence = probe.poolFence
             /\ probe'.pool = probe.pool
    BY <2>probe, ProbeKept DEF ProbeKept
  <2>results. results' = [results EXCEPT !.CpActive = cp.Ready]
    BY SMT DEF RadeonDebugOpen, ProbeGoes
  <2>resultst. ResultsKept'
    BY <2>results, CpKept DEF ResultsKept, CpKept
  <2>resultsf. /\ results'.CpActive = cp.Ready
               /\ results'.fences = results.fences
               /\ results'.FenceOrder = results.FenceOrder
               /\ results'.Future = results.Future
               /\ results'.NearFull = results.NearFull
               /\ results'.WrapBefore = results.WrapBefore
               /\ results'.Wrap = results.Wrap
               /\ results'.held = results.held
               /\ results'.Mono = results.Mono
               /\ results'.Fallback = results.Fallback
               /\ results'.slots = results.slots
    BY <2>results, ResultsKept DEF ResultsKept
  <2>unreadf. unread' = unread
    BY SMT DEF RadeonDebugOpen, ProbeGoes
  <2>unreadt. UnreadKept'
    BY <2>unreadf DEF UnreadKept
  <2> USE <2>cpf, <2>cardf, <2>statef, <2>probef, <2>resultsf, <2>unreadf, <2>g
  <2>c1. CpRuns'
    BY CpRuns DEF CpRuns, Stops, Works
  <2>c2. RingEmpty'
    BY RingEmpty DEF RingEmpty
  <2>c3. NothingPends'
    BY NothingPends DEF NothingPends
  <2>c4. Placed'
    BY Placed DEF Placed, UnitsDone, StartupUnits
  <2>c5. FencesQueued'
    BY FencesQueued DEF FencesQueued
  <2>c6. NoopsQueued'
    BY NoopsQueued DEF NoopsQueued, Crosses
  <2>c7. TestsPassed'
    BY TestsPassed DEF TestsPassed, Tested
  <2>c8. BufferQueued'
    BY BufferQueued DEF BufferQueued, Works, IbPlace, IbDwords
  <2>c9. ReportRight'
    BY ReportRight DEF ReportRight, Works, IbPlace, IbDwords
  <2>c10. Ends'
    BY Ends DEF Ends
  <2>c11. VerdictsRight'
    BY VerdictsRight DEF VerdictsRight, Works
  <2>c12. MonoRight'
    BY MonoRight DEF MonoRight
  <2> QED
    BY <2>cpt, <2>cardt, <2>statet, <2>probet, <2>resultst, <2>unreadt, <2>c1, <2>c2, <2>c3, <2>c4, <2>c5, <2>c6, <2>c7, <2>c8, <2>c9, <2>c10, <2>c11, <2>c12 DEF ProbesInv, FieldsKept
<1> QED BY <1>1, <1>2, SMT DEF RadeonDebugOpen

LEMMA TestFirstFenceKeeps ==
  ASSUME ProbesInv, TestFirstFence
  PROVE  ProbesInv'
<1>0. /\ CpKept /\ UnreadKept /\ CardKept /\ StateKept /\ ProbeKept /\ ResultsKept
      /\ CpRuns /\ RingEmpty /\ NothingPends /\ Placed /\ FencesQueued /\ NoopsQueued /\ TestsPassed
      /\ BufferQueued /\ ReportRight /\ Ends /\ VerdictsRight /\ MonoRight
  BY DEF ProbesInv, FieldsKept
<1> USE <1>0
<1>at. probe.at = "first"
  BY SMT DEF TestFirstFence, TestFence
<1> DEFINE wp == (cp.WritePointer + 1) % ProbeUnits
<1>w. /\ wp \in 0 .. ProbeUnits - 1
      /\ cp.WritePointer + 1 < ProbeUnits => wp = cp.WritePointer + 1
  BY WrapsInside, CpKept DEF CpKept
<1>noop. Command("fence", cp.NextFence).what # "noops" /\ Command("fence", cp.NextFence).value = cp.NextFence
  BY DEF Command
<1>cp. cp' = [cp EXCEPT !.WritePointer = wp, !.NextFence = cp.NextFence + 1, !.PendingFence = cp.NextFence]
  <2>1. Commit(Command("fence", cp.NextFence), 1)
    BY DEF TestFirstFence, TestFence
  <2> QED BY <1>noop, <2>1 DEF Commit
<1> HIDE DEF wp
<1>a. Append(results.fences, cp.NextFence) \in Seq(Nat)
  <2>1. results.fences \in Seq(Nat) /\ cp.NextFence \in Nat
    BY ResultsKept, CpKept DEF ResultsKept, CpKept
  <2> QED BY <2>1, Appended
<1>h. ~card.hung
  <2>1. unread # <<>> => Head(unread) = unread[1] /\ Len(unread) \in Nat \ {0}
    BY UnreadKept, FirstIsHead DEF UnreadKept
  <2>2. cp.Ready => ~Stops(unread[1]) \/ unread = <<>>
    BY <2>1, <1>at, UnreadKept, RingEmpty, FencesQueued, NoopsQueued DEF RingEmpty, FencesQueued, NoopsQueued, Stops, Crosses
  <2> QED BY <2>1, <2>2, <1>at, CpRuns DEF CpRuns
<1>g. probe.at = "first"
  BY SMT DEF TestFirstFence, TestFence, Commit, ProbeGoes
<1>cpk. /\ CpKept' /\ cp'.Ready = cp.Ready /\ cp'.WritePointer = wp /\ cp'.NextFence = cp.NextFence + 1 /\ cp'.PendingFence = cp.NextFence /\ cp'.DebugSequence = cp.DebugSequence
  <2> DEFINE n == cp.NextFence + 1 p == cp.NextFence
  <2>1. n \in Nat \ {0} /\ p \in Nat
    BY CpKept DEF CpKept
  <2>2. cp' = [cp EXCEPT !.WritePointer = wp, !.NextFence = n, !.PendingFence = p]
    BY <1>cp
  <2> HIDE DEF n, p
  <2>3. /\ CpKept' /\ cp'.Ready = cp.Ready /\ cp'.WritePointer = wp /\ cp'.NextFence = n /\ cp'.PendingFence = p /\ cp'.DebugSequence = cp.DebugSequence
    BY <1>w, <2>1, <2>2, CpSubmits
  <2> QED BY <2>3 DEF n, p
<1>cpt. CpKept'
  BY <1>cpk
<1>cpf. /\ cp'.Ready = cp.Ready
        /\ cp'.WritePointer = wp
        /\ cp'.NextFence = cp.NextFence + 1
        /\ cp'.PendingFence = cp.NextFence
        /\ cp'.DebugSequence = cp.DebugSequence
  BY <1>cpk
<1>cardf. card' = card
  BY SMT DEF TestFirstFence, TestFence, Commit, ProbeGoes
<1>cardt. CardKept'
  BY <1>cardf DEF CardKept
<1>statef. state' = state
  BY SMT DEF TestFirstFence, TestFence, Commit, ProbeGoes
<1>statet. StateKept'
  BY <1>statef DEF StateKept
<1>probe. probe' = [probe EXCEPT !.at = "second"]
  BY SMT DEF TestFirstFence, TestFence, Commit, ProbeGoes
<1>probet. ProbeKept'
  BY <1>probe DEF ProbeKept, Place
<1>probef. /\ probe'.at = "second"
           /\ probe'.case = probe.case
           /\ probe'.accepted = probe.accepted
           /\ probe'.fence = probe.fence
           /\ probe'.poolFence = probe.poolFence
           /\ probe'.pool = probe.pool
  BY <1>probe, ProbeKept DEF ProbeKept
<1>results. results' = [results EXCEPT !.fences = Append(results.fences, cp.NextFence)]
  BY SMT DEF TestFirstFence, TestFence, Commit, ProbeGoes
<1>resultst. ResultsKept'
  BY <1>results, <1>a DEF ResultsKept
<1>resultsf. /\ results'.CpActive = results.CpActive
             /\ results'.fences = Append(results.fences, cp.NextFence)
             /\ results'.FenceOrder = results.FenceOrder
             /\ results'.Future = results.Future
             /\ results'.NearFull = results.NearFull
             /\ results'.WrapBefore = results.WrapBefore
             /\ results'.Wrap = results.Wrap
             /\ results'.held = results.held
             /\ results'.Mono = results.Mono
             /\ results'.Fallback = results.Fallback
             /\ results'.slots = results.slots
  BY <1>results, ResultsKept DEF ResultsKept
<1>unread. unread' = Append(unread, [Command("fence", cp.NextFence) EXCEPT !.units = 1, !.at = cp.WritePointer])
  BY SMT DEF TestFirstFence, TestFence, Commit, ProbeGoes
<1> DEFINE plain == Command("fence", cp.NextFence)
<1>plain. /\ plain \in Commits /\ plain.what = "fence" /\ plain.value = cp.NextFence /\ plain.place = "none" /\ plain.dwords = 0
  BY CpKept DEF CpKept, Commits, Where, Command
<1> HIDE DEF plain
<1> DEFINE sent == [plain EXCEPT !.units = 1, !.at = cp.WritePointer]
<1>sent. unread' = Append(unread, sent)
  BY <1>unread DEF plain
<1>sentt. /\ sent \in Commits /\ sent.what = "fence" /\ sent.value = cp.NextFence /\ sent.place = "none" /\ sent.dwords = 0
          /\ sent.units = 1 /\ sent.at = cp.WritePointer
  <2> DEFINE u == 1 a == cp.WritePointer
  <2>1. u \in Nat /\ a \in Nat
    BY CpKept, SizesGood DEF CpKept
  <2>2. sent = [plain EXCEPT !.units = u, !.at = a]
    OBVIOUS
  <2> HIDE DEF sent, u, a
  <2>3. /\ sent \in Commits /\ sent.what = plain.what /\ sent.value = plain.value /\ sent.place = plain.place
        /\ sent.dwords = plain.dwords /\ sent.units = u /\ sent.at = a
    BY <1>plain, <2>1, <2>2 DEF Commits
  <2> QED BY <1>plain, <2>3 DEF u, a
<1> HIDE DEF sent
<1>unreadt. UnreadKept'
  BY <1>sent, <1>sentt, UnreadKept, Appended DEF UnreadKept
<1>unreadf. /\ Len(unread') = Len(unread) + 1 /\ Len(unread) \in Nat /\ unread' # <<>>
            /\ \A k \in 1 .. Len(unread) : unread'[k] = unread[k]
            /\ unread'[Len(unread) + 1].what = "fence" /\ unread'[Len(unread) + 1].value = cp.NextFence
            /\ unread'[Len(unread) + 1].at = cp.WritePointer /\ unread'[Len(unread) + 1].units = 1
            /\ unread'[Len(unread) + 1].place = "none" /\ unread'[Len(unread) + 1].dwords = 0
  BY <1>sent, <1>sentt, UnreadKept, Appended DEF UnreadKept
<1>c1. CpRuns'
  <2>1. cp.Ready /\ card.partition = Production /\ ~state.tried /\ card.scratch0 < cp.NextFence
    BY <1>at, CpRuns DEF CpRuns
  <2>2. cp.NextFence \in Nat /\ card.scratch0 \in Int
    BY CpKept, CardKept DEF CpKept, CardKept
  <2>3. card'.scratch0 < cp'.NextFence /\ cp'.PendingFence = cp'.NextFence - 1
    BY <2>1, <2>2, <1>cpf, <1>cardf, <1>statef, <1>probef, <1>resultsf, <1>unreadf
  <2> QED BY <2>1, <2>3, <1>h, <1>cpf, <1>cardf, <1>statef, <1>probef, <1>resultsf, <1>unreadf DEF CpRuns
<1>c2. RingEmpty'
  BY <1>cpf, <1>cardf, <1>statef, <1>probef, <1>resultsf, <1>unreadf, <1>g, RingEmpty DEF RingEmpty
<1>c3. NothingPends'
  BY <1>cpf, <1>cardf, <1>statef, <1>probef, <1>resultsf, <1>unreadf, <1>g, NothingPends DEF NothingPends
<1>c4. Placed'
  BY <1>cpf, <1>cardf, <1>statef, <1>probef, <1>resultsf, <1>unreadf, <1>g, Placed, <1>w, CpKept, SizesGood DEF Placed, UnitsDone, StartupUnits, CpKept
<1>c5. FencesQueued'
  <2>1. Len(unread) < cp.NextFence /\ card.scratch0 < cp.NextFence
    BY <1>at, CpKept, CardKept, CpRuns, RingEmpty, FencesQueued, EmptyOrNot, UnreadKept DEF CpKept, CardKept, CpRuns, RingEmpty, FencesQueued, UnreadKept
  <2>2. ASSUME NEW k \in 1 .. Len(unread')
       PROVE  unread'[k].what = "fence" /\ unread'[k].value = cp'.NextFence - 1 - Len(unread') + k
    <3>1. CASE k = Len(unread')
      <4>1. k = Len(unread) + 1
        BY <3>1, <1>cpf, <1>cardf, <1>statef, <1>probef, <1>resultsf, <1>unreadf
      <4>2. unread'[k].what = "fence" /\ unread'[k].value = cp.NextFence
        BY <4>1, <1>cpf, <1>cardf, <1>statef, <1>probef, <1>resultsf, <1>unreadf
      <4> QED BY <3>1, <4>1, <4>2, <1>cpf, <1>cardf, <1>statef, <1>probef, <1>resultsf, <1>unreadf, CpKept DEF CpKept
    <3>2. CASE k \in 1 .. Len(unread)
      <4>1. unread'[k] = unread[k] /\ unread[k].what = "fence" /\ unread[k].value = cp.NextFence - 1 - Len(unread) + k
        BY <3>2, <1>cpf, <1>cardf, <1>statef, <1>probef, <1>resultsf, <1>unreadf, <1>at, RingEmpty, FencesQueued DEF RingEmpty, FencesQueued
      <4> QED BY <3>2, <4>1, <1>cpf, <1>cardf, <1>statef, <1>probef, <1>resultsf, <1>unreadf, CpKept DEF CpKept
    <3> QED BY <3>1, <3>2, <1>cpf, <1>cardf, <1>statef, <1>probef, <1>resultsf, <1>unreadf
  <2> QED BY <2>1, <2>2, <1>cpf, <1>cardf, <1>statef, <1>probef, <1>resultsf, <1>unreadf, CpKept, CardKept DEF FencesQueued, CpKept, CardKept
<1>c6. NoopsQueued'
  BY <1>cpf, <1>cardf, <1>statef, <1>probef, <1>resultsf, <1>unreadf, <1>g, NoopsQueued DEF NoopsQueued, Crosses
<1>c7. TestsPassed'
  BY <1>cpf, <1>cardf, <1>statef, <1>probef, <1>resultsf, <1>unreadf, <1>g, TestsPassed DEF TestsPassed, Tested
<1>c8. BufferQueued'
  BY <1>cpf, <1>cardf, <1>statef, <1>probef, <1>resultsf, <1>unreadf, <1>g, BufferQueued DEF BufferQueued, Works, IbPlace, IbDwords
<1>c9. ReportRight'
  BY <1>cpf, <1>cardf, <1>statef, <1>probef, <1>resultsf, <1>unreadf, <1>g, ReportRight DEF ReportRight, Works, IbPlace, IbDwords
<1>c10. Ends'
  BY <1>cpf, <1>cardf, <1>statef, <1>probef, <1>resultsf, <1>unreadf, <1>g, Ends DEF Ends
<1>c11. VerdictsRight'
  BY <1>cpf, <1>cardf, <1>statef, <1>probef, <1>resultsf, <1>unreadf, <1>g, VerdictsRight DEF VerdictsRight, Works
<1>c12. MonoRight'
  BY <1>cpf, <1>cardf, <1>statef, <1>probef, <1>resultsf, <1>unreadf, <1>g, MonoRight DEF MonoRight
<1> QED
  BY <1>cpt, <1>cardt, <1>statet, <1>probet, <1>resultst, <1>unreadt, <1>c1, <1>c2, <1>c3, <1>c4, <1>c5, <1>c6, <1>c7, <1>c8, <1>c9, <1>c10, <1>c11, <1>c12 DEF ProbesInv, FieldsKept

LEMMA TestSecondFenceKeeps ==
  ASSUME ProbesInv, TestSecondFence
  PROVE  ProbesInv'
<1>0. /\ CpKept /\ UnreadKept /\ CardKept /\ StateKept /\ ProbeKept /\ ResultsKept
      /\ CpRuns /\ RingEmpty /\ NothingPends /\ Placed /\ FencesQueued /\ NoopsQueued /\ TestsPassed
      /\ BufferQueued /\ ReportRight /\ Ends /\ VerdictsRight /\ MonoRight
  BY DEF ProbesInv, FieldsKept
<1> USE <1>0
<1>at. probe.at = "second"
  BY SMT DEF TestSecondFence, TestFence
<1> DEFINE wp == (cp.WritePointer + 1) % ProbeUnits
<1>w. /\ wp \in 0 .. ProbeUnits - 1
      /\ cp.WritePointer + 1 < ProbeUnits => wp = cp.WritePointer + 1
  BY WrapsInside, CpKept DEF CpKept
<1>noop. Command("fence", cp.NextFence).what # "noops" /\ Command("fence", cp.NextFence).value = cp.NextFence
  BY DEF Command
<1>cp. cp' = [cp EXCEPT !.WritePointer = wp, !.NextFence = cp.NextFence + 1, !.PendingFence = cp.NextFence]
  <2>1. Commit(Command("fence", cp.NextFence), 1)
    BY DEF TestSecondFence, TestFence
  <2> QED BY <1>noop, <2>1 DEF Commit
<1> HIDE DEF wp
<1>a. Append(results.fences, cp.NextFence) \in Seq(Nat)
  <2>1. results.fences \in Seq(Nat) /\ cp.NextFence \in Nat
    BY ResultsKept, CpKept DEF ResultsKept, CpKept
  <2> QED BY <2>1, Appended
<1>h. ~card.hung
  <2>1. unread # <<>> => Head(unread) = unread[1] /\ Len(unread) \in Nat \ {0}
    BY UnreadKept, FirstIsHead DEF UnreadKept
  <2>2. cp.Ready => ~Stops(unread[1]) \/ unread = <<>>
    BY <2>1, <1>at, UnreadKept, RingEmpty, FencesQueued, NoopsQueued DEF RingEmpty, FencesQueued, NoopsQueued, Stops, Crosses
  <2> QED BY <2>1, <2>2, <1>at, CpRuns DEF CpRuns
<1>g. probe.at = "second"
  BY SMT DEF TestSecondFence, TestFence, Commit, ProbeGoes
<1>cpk. /\ CpKept' /\ cp'.Ready = cp.Ready /\ cp'.WritePointer = wp /\ cp'.NextFence = cp.NextFence + 1 /\ cp'.PendingFence = cp.NextFence /\ cp'.DebugSequence = cp.DebugSequence
  <2> DEFINE n == cp.NextFence + 1 p == cp.NextFence
  <2>1. n \in Nat \ {0} /\ p \in Nat
    BY CpKept DEF CpKept
  <2>2. cp' = [cp EXCEPT !.WritePointer = wp, !.NextFence = n, !.PendingFence = p]
    BY <1>cp
  <2> HIDE DEF n, p
  <2>3. /\ CpKept' /\ cp'.Ready = cp.Ready /\ cp'.WritePointer = wp /\ cp'.NextFence = n /\ cp'.PendingFence = p /\ cp'.DebugSequence = cp.DebugSequence
    BY <1>w, <2>1, <2>2, CpSubmits
  <2> QED BY <2>3 DEF n, p
<1>cpt. CpKept'
  BY <1>cpk
<1>cpf. /\ cp'.Ready = cp.Ready
        /\ cp'.WritePointer = wp
        /\ cp'.NextFence = cp.NextFence + 1
        /\ cp'.PendingFence = cp.NextFence
        /\ cp'.DebugSequence = cp.DebugSequence
  BY <1>cpk
<1>cardf. card' = card
  BY SMT DEF TestSecondFence, TestFence, Commit, ProbeGoes
<1>cardt. CardKept'
  BY <1>cardf DEF CardKept
<1>statef. state' = state
  BY SMT DEF TestSecondFence, TestFence, Commit, ProbeGoes
<1>statet. StateKept'
  BY <1>statef DEF StateKept
<1>probe. probe' = [probe EXCEPT !.at = "fences"]
  BY SMT DEF TestSecondFence, TestFence, Commit, ProbeGoes
<1>probet. ProbeKept'
  BY <1>probe DEF ProbeKept, Place
<1>probef. /\ probe'.at = "fences"
           /\ probe'.case = probe.case
           /\ probe'.accepted = probe.accepted
           /\ probe'.fence = probe.fence
           /\ probe'.poolFence = probe.poolFence
           /\ probe'.pool = probe.pool
  BY <1>probe, ProbeKept DEF ProbeKept
<1>results. results' = [results EXCEPT !.fences = Append(results.fences, cp.NextFence)]
  BY SMT DEF TestSecondFence, TestFence, Commit, ProbeGoes
<1>resultst. ResultsKept'
  BY <1>results, <1>a DEF ResultsKept
<1>resultsf. /\ results'.CpActive = results.CpActive
             /\ results'.fences = Append(results.fences, cp.NextFence)
             /\ results'.FenceOrder = results.FenceOrder
             /\ results'.Future = results.Future
             /\ results'.NearFull = results.NearFull
             /\ results'.WrapBefore = results.WrapBefore
             /\ results'.Wrap = results.Wrap
             /\ results'.held = results.held
             /\ results'.Mono = results.Mono
             /\ results'.Fallback = results.Fallback
             /\ results'.slots = results.slots
  BY <1>results, ResultsKept DEF ResultsKept
<1>unread. unread' = Append(unread, [Command("fence", cp.NextFence) EXCEPT !.units = 1, !.at = cp.WritePointer])
  BY SMT DEF TestSecondFence, TestFence, Commit, ProbeGoes
<1> DEFINE plain == Command("fence", cp.NextFence)
<1>plain. /\ plain \in Commits /\ plain.what = "fence" /\ plain.value = cp.NextFence /\ plain.place = "none" /\ plain.dwords = 0
  BY CpKept DEF CpKept, Commits, Where, Command
<1> HIDE DEF plain
<1> DEFINE sent == [plain EXCEPT !.units = 1, !.at = cp.WritePointer]
<1>sent. unread' = Append(unread, sent)
  BY <1>unread DEF plain
<1>sentt. /\ sent \in Commits /\ sent.what = "fence" /\ sent.value = cp.NextFence /\ sent.place = "none" /\ sent.dwords = 0
          /\ sent.units = 1 /\ sent.at = cp.WritePointer
  <2> DEFINE u == 1 a == cp.WritePointer
  <2>1. u \in Nat /\ a \in Nat
    BY CpKept, SizesGood DEF CpKept
  <2>2. sent = [plain EXCEPT !.units = u, !.at = a]
    OBVIOUS
  <2> HIDE DEF sent, u, a
  <2>3. /\ sent \in Commits /\ sent.what = plain.what /\ sent.value = plain.value /\ sent.place = plain.place
        /\ sent.dwords = plain.dwords /\ sent.units = u /\ sent.at = a
    BY <1>plain, <2>1, <2>2 DEF Commits
  <2> QED BY <1>plain, <2>3 DEF u, a
<1> HIDE DEF sent
<1>unreadt. UnreadKept'
  BY <1>sent, <1>sentt, UnreadKept, Appended DEF UnreadKept
<1>unreadf. /\ Len(unread') = Len(unread) + 1 /\ Len(unread) \in Nat /\ unread' # <<>>
            /\ \A k \in 1 .. Len(unread) : unread'[k] = unread[k]
            /\ unread'[Len(unread) + 1].what = "fence" /\ unread'[Len(unread) + 1].value = cp.NextFence
            /\ unread'[Len(unread) + 1].at = cp.WritePointer /\ unread'[Len(unread) + 1].units = 1
            /\ unread'[Len(unread) + 1].place = "none" /\ unread'[Len(unread) + 1].dwords = 0
  BY <1>sent, <1>sentt, UnreadKept, Appended DEF UnreadKept
<1>c1. CpRuns'
  <2>1. cp.Ready /\ card.partition = Production /\ ~state.tried /\ card.scratch0 < cp.NextFence
    BY <1>at, CpRuns DEF CpRuns
  <2>2. cp.NextFence \in Nat /\ card.scratch0 \in Int
    BY CpKept, CardKept DEF CpKept, CardKept
  <2>3. card'.scratch0 < cp'.NextFence /\ cp'.PendingFence = cp'.NextFence - 1
    BY <2>1, <2>2, <1>cpf, <1>cardf, <1>statef, <1>probef, <1>resultsf, <1>unreadf
  <2> QED BY <2>1, <2>3, <1>h, <1>cpf, <1>cardf, <1>statef, <1>probef, <1>resultsf, <1>unreadf DEF CpRuns
<1>c2. RingEmpty'
  BY <1>cpf, <1>cardf, <1>statef, <1>probef, <1>resultsf, <1>unreadf, <1>g, RingEmpty DEF RingEmpty
<1>c3. NothingPends'
  BY <1>cpf, <1>cardf, <1>statef, <1>probef, <1>resultsf, <1>unreadf, <1>g, NothingPends DEF NothingPends
<1>c4. Placed'
  BY <1>cpf, <1>cardf, <1>statef, <1>probef, <1>resultsf, <1>unreadf, <1>g, Placed, <1>w, CpKept, SizesGood DEF Placed, UnitsDone, StartupUnits, CpKept
<1>c5. FencesQueued'
  <2>1. Len(unread) < cp.NextFence /\ card.scratch0 < cp.NextFence
    BY <1>at, CpKept, CardKept, CpRuns, RingEmpty, FencesQueued, EmptyOrNot, UnreadKept DEF CpKept, CardKept, CpRuns, RingEmpty, FencesQueued, UnreadKept
  <2>2. ASSUME NEW k \in 1 .. Len(unread')
       PROVE  unread'[k].what = "fence" /\ unread'[k].value = cp'.NextFence - 1 - Len(unread') + k
    <3>1. CASE k = Len(unread')
      <4>1. k = Len(unread) + 1
        BY <3>1, <1>cpf, <1>cardf, <1>statef, <1>probef, <1>resultsf, <1>unreadf
      <4>2. unread'[k].what = "fence" /\ unread'[k].value = cp.NextFence
        BY <4>1, <1>cpf, <1>cardf, <1>statef, <1>probef, <1>resultsf, <1>unreadf
      <4> QED BY <3>1, <4>1, <4>2, <1>cpf, <1>cardf, <1>statef, <1>probef, <1>resultsf, <1>unreadf, CpKept DEF CpKept
    <3>2. CASE k \in 1 .. Len(unread)
      <4>1. unread'[k] = unread[k] /\ unread[k].what = "fence" /\ unread[k].value = cp.NextFence - 1 - Len(unread) + k
        BY <3>2, <1>cpf, <1>cardf, <1>statef, <1>probef, <1>resultsf, <1>unreadf, <1>at, RingEmpty, FencesQueued DEF RingEmpty, FencesQueued
      <4> QED BY <3>2, <4>1, <1>cpf, <1>cardf, <1>statef, <1>probef, <1>resultsf, <1>unreadf, CpKept DEF CpKept
    <3> QED BY <3>1, <3>2, <1>cpf, <1>cardf, <1>statef, <1>probef, <1>resultsf, <1>unreadf
  <2> QED BY <2>1, <2>2, <1>cpf, <1>cardf, <1>statef, <1>probef, <1>resultsf, <1>unreadf, CpKept, CardKept DEF FencesQueued, CpKept, CardKept
<1>c6. NoopsQueued'
  BY <1>cpf, <1>cardf, <1>statef, <1>probef, <1>resultsf, <1>unreadf, <1>g, NoopsQueued DEF NoopsQueued, Crosses
<1>c7. TestsPassed'
  BY <1>cpf, <1>cardf, <1>statef, <1>probef, <1>resultsf, <1>unreadf, <1>g, TestsPassed DEF TestsPassed, Tested
<1>c8. BufferQueued'
  BY <1>cpf, <1>cardf, <1>statef, <1>probef, <1>resultsf, <1>unreadf, <1>g, BufferQueued DEF BufferQueued, Works, IbPlace, IbDwords
<1>c9. ReportRight'
  BY <1>cpf, <1>cardf, <1>statef, <1>probef, <1>resultsf, <1>unreadf, <1>g, ReportRight DEF ReportRight, Works, IbPlace, IbDwords
<1>c10. Ends'
  BY <1>cpf, <1>cardf, <1>statef, <1>probef, <1>resultsf, <1>unreadf, <1>g, Ends DEF Ends
<1>c11. VerdictsRight'
  BY <1>cpf, <1>cardf, <1>statef, <1>probef, <1>resultsf, <1>unreadf, <1>g, VerdictsRight DEF VerdictsRight, Works
<1>c12. MonoRight'
  BY <1>cpf, <1>cardf, <1>statef, <1>probef, <1>resultsf, <1>unreadf, <1>g, MonoRight DEF MonoRight
<1> QED
  BY <1>cpt, <1>cardt, <1>statet, <1>probet, <1>resultst, <1>unreadt, <1>c1, <1>c2, <1>c3, <1>c4, <1>c5, <1>c6, <1>c7, <1>c8, <1>c9, <1>c10, <1>c11, <1>c12 DEF ProbesInv, FieldsKept

LEMMA WaitTestFencesKeeps ==
  ASSUME ProbesInv, WaitTestFences
  PROVE  ProbesInv'
<1>0. /\ CpKept /\ UnreadKept /\ CardKept /\ StateKept /\ ProbeKept /\ ResultsKept
      /\ CpRuns /\ RingEmpty /\ NothingPends /\ Placed /\ FencesQueued /\ NoopsQueued /\ TestsPassed
      /\ BufferQueued /\ ReportRight /\ Ends /\ VerdictsRight /\ MonoRight
  BY DEF ProbesInv, FieldsKept
<1> USE <1>0
<1>1. CASE results.fences[1] # results.fences[2] /\ card.scratch0 = results.fences[2]
  <2> USE <1>1
  <2>s. card.scratch0 = cp.PendingFence
    BY SMT DEF WaitTestFences
  <2>g. probe.at = "fences"
    BY SMT DEF WaitTestFences, ProbeGoes
  <2>cp. cp' = [cp EXCEPT !.PendingFence = 0]
    BY SMT DEF WaitTestFences, ProbeGoes
  <2>cpt. CpKept'
    BY <2>cp DEF CpKept
  <2>cpf. /\ cp'.Ready = cp.Ready
          /\ cp'.WritePointer = cp.WritePointer
          /\ cp'.NextFence = cp.NextFence
          /\ cp'.PendingFence = 0
          /\ cp'.DebugSequence = cp.DebugSequence
    BY <2>cp, CpKept DEF CpKept
  <2>cardf. card' = card
    BY SMT DEF WaitTestFences, ProbeGoes
  <2>cardt. CardKept'
    BY <2>cardf DEF CardKept
  <2>statef. state' = state
    BY SMT DEF WaitTestFences, ProbeGoes
  <2>statet. StateKept'
    BY <2>statef DEF StateKept
  <2>probe. probe' = [probe EXCEPT !.at = "future"]
    BY SMT DEF WaitTestFences, ProbeGoes
  <2>probet. ProbeKept'
    BY <2>probe DEF ProbeKept, Place
  <2>probef. /\ probe'.at = "future"
             /\ probe'.case = probe.case
             /\ probe'.accepted = probe.accepted
             /\ probe'.fence = probe.fence
             /\ probe'.poolFence = probe.poolFence
             /\ probe'.pool = probe.pool
    BY <2>probe, ProbeKept DEF ProbeKept
  <2>results. results' = [results EXCEPT !.FenceOrder = TRUE]
    BY SMT DEF WaitTestFences, ProbeGoes
  <2>resultst. ResultsKept'
    BY <2>results DEF ResultsKept
  <2>resultsf. /\ results'.CpActive = results.CpActive
               /\ results'.fences = results.fences
               /\ results'.FenceOrder = TRUE
               /\ results'.Future = results.Future
               /\ results'.NearFull = results.NearFull
               /\ results'.WrapBefore = results.WrapBefore
               /\ results'.Wrap = results.Wrap
               /\ results'.held = results.held
               /\ results'.Mono = results.Mono
               /\ results'.Fallback = results.Fallback
               /\ results'.slots = results.slots
    BY <2>results, ResultsKept DEF ResultsKept
  <2>unreadf. unread' = unread
    BY SMT DEF WaitTestFences, ProbeGoes
  <2>unreadt. UnreadKept'
    BY <2>unreadf DEF UnreadKept
  <2> USE <2>cpf, <2>cardf, <2>statef, <2>probef, <2>resultsf, <2>unreadf, <2>g
  <2>c1. CpRuns'
    BY CpRuns, FencesQueued, CpKept, UnreadKept DEF CpRuns, Stops, Works, FencesQueued, CpKept, UnreadKept
  <2>c2. RingEmpty'
    BY RingEmpty, FencesQueued, UnreadKept, CardKept, CpKept, <2>s DEF RingEmpty, FencesQueued, UnreadKept, CardKept, CpKept
  <2>c3. NothingPends'
    BY NothingPends DEF NothingPends
  <2>c4. Placed'
    BY Placed DEF Placed, UnitsDone, StartupUnits
  <2>c5. FencesQueued'
    BY FencesQueued DEF FencesQueued
  <2>c6. NoopsQueued'
    BY NoopsQueued DEF NoopsQueued, Crosses
  <2>c7. TestsPassed'
    BY TestsPassed DEF TestsPassed, Tested
  <2>c8. BufferQueued'
    BY BufferQueued DEF BufferQueued, Works, IbPlace, IbDwords
  <2>c9. ReportRight'
    BY ReportRight DEF ReportRight, Works, IbPlace, IbDwords
  <2>c10. Ends'
    BY Ends DEF Ends
  <2>c11. VerdictsRight'
    BY VerdictsRight DEF VerdictsRight, Works
  <2>c12. MonoRight'
    BY MonoRight DEF MonoRight
  <2> QED
    BY <2>cpt, <2>cardt, <2>statet, <2>probet, <2>resultst, <2>unreadt, <2>c1, <2>c2, <2>c3, <2>c4, <2>c5, <2>c6, <2>c7, <2>c8, <2>c9, <2>c10, <2>c11, <2>c12 DEF ProbesInv, FieldsKept
<1>2. CASE ~(results.fences[1] # results.fences[2] /\ card.scratch0 = results.fences[2])
  <2> USE <1>2
  <2>s. card.scratch0 = cp.PendingFence
    BY SMT DEF WaitTestFences
  <2>g. probe.at = "fences"
    BY SMT DEF WaitTestFences, ProbeGoes
  <2>cp. cp' = [cp EXCEPT !.PendingFence = 0]
    BY SMT DEF WaitTestFences, ProbeGoes
  <2>cpt. CpKept'
    BY <2>cp DEF CpKept
  <2>cpf. /\ cp'.Ready = cp.Ready
          /\ cp'.WritePointer = cp.WritePointer
          /\ cp'.NextFence = cp.NextFence
          /\ cp'.PendingFence = 0
          /\ cp'.DebugSequence = cp.DebugSequence
    BY <2>cp, CpKept DEF CpKept
  <2>cardf. card' = card
    BY SMT DEF WaitTestFences, ProbeGoes
  <2>cardt. CardKept'
    BY <2>cardf DEF CardKept
  <2>statef. state' = state
    BY SMT DEF WaitTestFences, ProbeGoes
  <2>statet. StateKept'
    BY <2>statef DEF StateKept
  <2>probe. probe' = [probe EXCEPT !.at = "fail"]
    BY SMT DEF WaitTestFences, ProbeGoes
  <2>probet. ProbeKept'
    BY <2>probe DEF ProbeKept, Place
  <2>probef. /\ probe'.at = "fail"
             /\ probe'.case = probe.case
             /\ probe'.accepted = probe.accepted
             /\ probe'.fence = probe.fence
             /\ probe'.poolFence = probe.poolFence
             /\ probe'.pool = probe.pool
    BY <2>probe, ProbeKept DEF ProbeKept
  <2>resultsf. results' = results
    BY SMT DEF WaitTestFences, ProbeGoes
  <2>resultst. ResultsKept'
    BY <2>resultsf DEF ResultsKept
  <2>unreadf. unread' = unread
    BY SMT DEF WaitTestFences, ProbeGoes
  <2>unreadt. UnreadKept'
    BY <2>unreadf DEF UnreadKept
  <2> USE <2>cpf, <2>cardf, <2>statef, <2>probef, <2>resultsf, <2>unreadf, <2>g
  <2>c1. CpRuns'
    BY CpRuns, FencesQueued, CpKept, UnreadKept DEF CpRuns, Stops, Works, FencesQueued, CpKept, UnreadKept
  <2>c2. RingEmpty'
    BY RingEmpty, FencesQueued, UnreadKept, CardKept, CpKept, <2>s DEF RingEmpty, FencesQueued, UnreadKept, CardKept, CpKept
  <2>c3. NothingPends'
    BY NothingPends DEF NothingPends
  <2>c4. Placed'
    BY Placed DEF Placed, UnitsDone, StartupUnits
  <2>c5. FencesQueued'
    BY FencesQueued DEF FencesQueued
  <2>c6. NoopsQueued'
    BY NoopsQueued DEF NoopsQueued, Crosses
  <2>c7. TestsPassed'
    BY TestsPassed DEF TestsPassed, Tested
  <2>c8. BufferQueued'
    BY BufferQueued DEF BufferQueued, Works, IbPlace, IbDwords
  <2>c9. ReportRight'
    BY ReportRight DEF ReportRight, Works, IbPlace, IbDwords
  <2>c10. Ends'
    BY Ends DEF Ends
  <2>c11. VerdictsRight'
    BY VerdictsRight DEF VerdictsRight, Works
  <2>c12. MonoRight'
    BY MonoRight DEF MonoRight
  <2> QED
    BY <2>cpt, <2>cardt, <2>statet, <2>probet, <2>resultst, <2>unreadt, <2>c1, <2>c2, <2>c3, <2>c4, <2>c5, <2>c6, <2>c7, <2>c8, <2>c9, <2>c10, <2>c11, <2>c12 DEF ProbesInv, FieldsKept
<1> QED BY <1>1, <1>2, SMT DEF WaitTestFences

LEMMA TestFutureFenceKeeps ==
  ASSUME ProbesInv, TestFutureFence
  PROVE  ProbesInv'
<1>0. /\ CpKept /\ UnreadKept /\ CardKept /\ StateKept /\ ProbeKept /\ ResultsKept
      /\ CpRuns /\ RingEmpty /\ NothingPends /\ Placed /\ FencesQueued /\ NoopsQueued /\ TestsPassed
      /\ BufferQueued /\ ReportRight /\ Ends /\ VerdictsRight /\ MonoRight
  BY DEF ProbesInv, FieldsKept
<1> USE <1>0
<1> DEFINE b == ~FenceReached(card.scratch0 + Quarter)
<1>b. b /\ b \in BOOLEAN
  BY CardKept DEF CardKept, FenceReached, Quarter
<1>results. results' = [results EXCEPT !.Future = b]
  BY DEF TestFutureFence
<1>probe. probe' = [probe EXCEPT !.at = "reserve"]
  BY <1>b DEF TestFutureFence, ProbeGoes
<1> HIDE DEF b
<1>g. probe.at = "future"
  BY SMT DEF TestFutureFence
<1>cpf. cp' = cp
  BY SMT DEF TestFutureFence
<1>cpt. CpKept'
  BY <1>cpf DEF CpKept
<1>cardf. card' = card
  BY SMT DEF TestFutureFence
<1>cardt. CardKept'
  BY <1>cardf DEF CardKept
<1>statef. state' = state
  BY SMT DEF TestFutureFence
<1>statet. StateKept'
  BY <1>statef DEF StateKept
<1>probet. ProbeKept'
  BY <1>probe DEF ProbeKept, Place
<1>probef. /\ probe'.at = "reserve"
           /\ probe'.case = probe.case
           /\ probe'.accepted = probe.accepted
           /\ probe'.fence = probe.fence
           /\ probe'.poolFence = probe.poolFence
           /\ probe'.pool = probe.pool
  BY <1>probe, ProbeKept DEF ProbeKept
<1>resultst. ResultsKept'
  BY <1>results, <1>b DEF ResultsKept
<1>resultsf. /\ results'.CpActive = results.CpActive
             /\ results'.fences = results.fences
             /\ results'.FenceOrder = results.FenceOrder
             /\ results'.Future = b
             /\ results'.NearFull = results.NearFull
             /\ results'.WrapBefore = results.WrapBefore
             /\ results'.Wrap = results.Wrap
             /\ results'.held = results.held
             /\ results'.Mono = results.Mono
             /\ results'.Fallback = results.Fallback
             /\ results'.slots = results.slots
  BY <1>results, ResultsKept DEF ResultsKept
<1>unreadf. unread' = unread
  BY SMT DEF TestFutureFence
<1>unreadt. UnreadKept'
  BY <1>unreadf DEF UnreadKept
<1> USE <1>cpf, <1>cardf, <1>statef, <1>probef, <1>resultsf, <1>unreadf, <1>g
<1>c1. CpRuns'
  BY CpRuns DEF CpRuns, Stops, Works
<1>c2. RingEmpty'
  BY RingEmpty DEF RingEmpty
<1>c3. NothingPends'
  BY NothingPends DEF NothingPends
<1>c4. Placed'
  BY Placed DEF Placed, UnitsDone, StartupUnits
<1>c5. FencesQueued'
  BY FencesQueued DEF FencesQueued
<1>c6. NoopsQueued'
  BY NoopsQueued DEF NoopsQueued, Crosses
<1>c7. TestsPassed'
  BY TestsPassed, <1>b DEF TestsPassed, Tested
<1>c8. BufferQueued'
  BY BufferQueued DEF BufferQueued, Works, IbPlace, IbDwords
<1>c9. ReportRight'
  BY ReportRight DEF ReportRight, Works, IbPlace, IbDwords
<1>c10. Ends'
  BY Ends DEF Ends
<1>c11. VerdictsRight'
  BY VerdictsRight DEF VerdictsRight, Works
<1>c12. MonoRight'
  BY MonoRight DEF MonoRight
<1> QED
  BY <1>cpt, <1>cardt, <1>statet, <1>probet, <1>resultst, <1>unreadt, <1>c1, <1>c2, <1>c3, <1>c4, <1>c5, <1>c6, <1>c7, <1>c8, <1>c9, <1>c10, <1>c11, <1>c12 DEF ProbesInv, FieldsKept

LEMMA TestReserveKeeps ==
  ASSUME ProbesInv, TestReserve
  PROVE  ProbesInv'
<1>0. /\ CpKept /\ UnreadKept /\ CardKept /\ StateKept /\ ProbeKept /\ ResultsKept
      /\ CpRuns /\ RingEmpty /\ NothingPends /\ Placed /\ FencesQueued /\ NoopsQueued /\ TestsPassed
      /\ BufferQueued /\ ReportRight /\ Ends /\ VerdictsRight /\ MonoRight
  BY DEF ProbesInv, FieldsKept
<1> USE <1>0
<1>e. unread = <<>>
  BY SMT DEF TestReserve, Fetched
<1>g. probe.at = "reserve"
  BY SMT DEF TestReserve, ProbeGoes
<1>cpf. cp' = cp
  BY SMT DEF TestReserve, ProbeGoes
<1>cpt. CpKept'
  BY <1>cpf DEF CpKept
<1>cardf. card' = card
  BY SMT DEF TestReserve, ProbeGoes
<1>cardt. CardKept'
  BY <1>cardf DEF CardKept
<1>statef. state' = state
  BY SMT DEF TestReserve, ProbeGoes
<1>statet. StateKept'
  BY <1>statef DEF StateKept
<1>probe. probe' = [probe EXCEPT !.at = "fill"]
  BY SMT DEF TestReserve, ProbeGoes
<1>probet. ProbeKept'
  BY <1>probe DEF ProbeKept, Place
<1>probef. /\ probe'.at = "fill"
           /\ probe'.case = probe.case
           /\ probe'.accepted = probe.accepted
           /\ probe'.fence = probe.fence
           /\ probe'.poolFence = probe.poolFence
           /\ probe'.pool = probe.pool
  BY <1>probe, ProbeKept DEF ProbeKept
<1>results. results' = [results EXCEPT !.NearFull = TRUE]
  BY SMT DEF TestReserve, ProbeGoes
<1>resultst. ResultsKept'
  BY <1>results DEF ResultsKept
<1>resultsf. /\ results'.CpActive = results.CpActive
             /\ results'.fences = results.fences
             /\ results'.FenceOrder = results.FenceOrder
             /\ results'.Future = results.Future
             /\ results'.NearFull = TRUE
             /\ results'.WrapBefore = results.WrapBefore
             /\ results'.Wrap = results.Wrap
             /\ results'.held = results.held
             /\ results'.Mono = results.Mono
             /\ results'.Fallback = results.Fallback
             /\ results'.slots = results.slots
  BY <1>results, ResultsKept DEF ResultsKept
<1>unreadf. unread' = unread
  BY SMT DEF TestReserve, ProbeGoes
<1>unreadt. UnreadKept'
  BY <1>unreadf DEF UnreadKept
<1> USE <1>cpf, <1>cardf, <1>statef, <1>probef, <1>resultsf, <1>unreadf, <1>g
<1>c1. CpRuns'
  BY CpRuns DEF CpRuns, Stops, Works
<1>c2. RingEmpty'
  BY RingEmpty DEF RingEmpty
<1>c3. NothingPends'
  BY NothingPends, CpKept DEF NothingPends
<1>c4. Placed'
  BY Placed, CpKept, RingAssumption DEF Placed, UnitsDone, StartupUnits, CpKept
<1>c5. FencesQueued'
  BY FencesQueued DEF FencesQueued
<1>c6. NoopsQueued'
  BY NoopsQueued, UnreadKept, <1>e, CardKept, CpKept, Placed DEF NoopsQueued, Crosses, UnreadKept, CardKept, CpKept, Placed, UnitsDone, StartupUnits
<1>c7. TestsPassed'
  BY TestsPassed DEF TestsPassed, Tested
<1>c8. BufferQueued'
  BY BufferQueued DEF BufferQueued, Works, IbPlace, IbDwords
<1>c9. ReportRight'
  BY ReportRight DEF ReportRight, Works, IbPlace, IbDwords
<1>c10. Ends'
  BY Ends DEF Ends
<1>c11. VerdictsRight'
  BY VerdictsRight DEF VerdictsRight, Works
<1>c12. MonoRight'
  BY MonoRight DEF MonoRight
<1> QED
  BY <1>cpt, <1>cardt, <1>statet, <1>probet, <1>resultst, <1>unreadt, <1>c1, <1>c2, <1>c3, <1>c4, <1>c5, <1>c6, <1>c7, <1>c8, <1>c9, <1>c10, <1>c11, <1>c12 DEF ProbesInv, FieldsKept

LEMMA TestFilledKeeps ==
  ASSUME ProbesInv, TestFilled
  PROVE  ProbesInv'
<1>0. /\ CpKept /\ UnreadKept /\ CardKept /\ StateKept /\ ProbeKept /\ ResultsKept
      /\ CpRuns /\ RingEmpty /\ NothingPends /\ Placed /\ FencesQueued /\ NoopsQueued /\ TestsPassed
      /\ BufferQueued /\ ReportRight /\ Ends /\ VerdictsRight /\ MonoRight
  BY DEF ProbesInv, FieldsKept
<1> USE <1>0
<1>e. card.scratch1 = cp.DebugSequence
  BY SMT DEF TestFilled
<1>g. probe.at = "filled"
  BY SMT DEF TestFilled, ProbeGoes
<1>cpf. cp' = cp
  BY SMT DEF TestFilled, ProbeGoes
<1>cpt. CpKept'
  BY <1>cpf DEF CpKept
<1>cardf. card' = card
  BY SMT DEF TestFilled, ProbeGoes
<1>cardt. CardKept'
  BY <1>cardf DEF CardKept
<1>statef. state' = state
  BY SMT DEF TestFilled, ProbeGoes
<1>statet. StateKept'
  BY <1>statef DEF StateKept
<1>probe. probe' = [probe EXCEPT !.at = "fill"]
  BY SMT DEF TestFilled, ProbeGoes
<1>probet. ProbeKept'
  BY <1>probe DEF ProbeKept, Place
<1>probef. /\ probe'.at = "fill"
           /\ probe'.case = probe.case
           /\ probe'.accepted = probe.accepted
           /\ probe'.fence = probe.fence
           /\ probe'.poolFence = probe.poolFence
           /\ probe'.pool = probe.pool
  BY <1>probe, ProbeKept DEF ProbeKept
<1>resultsf. results' = results
  BY SMT DEF TestFilled, ProbeGoes
<1>resultst. ResultsKept'
  BY <1>resultsf DEF ResultsKept
<1>unreadf. unread' = unread
  BY SMT DEF TestFilled, ProbeGoes
<1>unreadt. UnreadKept'
  BY <1>unreadf DEF UnreadKept
<1> USE <1>cpf, <1>cardf, <1>statef, <1>probef, <1>resultsf, <1>unreadf, <1>g
<1>c1. CpRuns'
  BY CpRuns DEF CpRuns, Stops, Works
<1>c2. RingEmpty'
  BY RingEmpty DEF RingEmpty
<1>c3. NothingPends'
  BY NothingPends DEF NothingPends
<1>c4. Placed'
  BY Placed DEF Placed, UnitsDone, StartupUnits
<1>c5. FencesQueued'
  BY FencesQueued DEF FencesQueued
<1>c6. NoopsQueued'
  BY NoopsQueued, <1>e, UnreadKept, CpKept DEF NoopsQueued, Crosses, UnreadKept, CpKept
<1>c7. TestsPassed'
  BY TestsPassed DEF TestsPassed, Tested
<1>c8. BufferQueued'
  BY BufferQueued DEF BufferQueued, Works, IbPlace, IbDwords
<1>c9. ReportRight'
  BY ReportRight DEF ReportRight, Works, IbPlace, IbDwords
<1>c10. Ends'
  BY Ends DEF Ends
<1>c11. VerdictsRight'
  BY VerdictsRight DEF VerdictsRight, Works
<1>c12. MonoRight'
  BY MonoRight DEF MonoRight
<1> QED
  BY <1>cpt, <1>cardt, <1>statet, <1>probet, <1>resultst, <1>unreadt, <1>c1, <1>c2, <1>c3, <1>c4, <1>c5, <1>c6, <1>c7, <1>c8, <1>c9, <1>c10, <1>c11, <1>c12 DEF ProbesInv, FieldsKept

LEMMA TestFillKeeps ==
  ASSUME ProbesInv, TestFill
  PROVE  ProbesInv'
<1>0. /\ CpKept /\ UnreadKept /\ CardKept /\ StateKept /\ ProbeKept /\ ResultsKept
      /\ CpRuns /\ RingEmpty /\ NothingPends /\ Placed /\ FencesQueued /\ NoopsQueued /\ TestsPassed
      /\ BufferQueued /\ ReportRight /\ Ends /\ VerdictsRight /\ MonoRight
  BY DEF ProbesInv, FieldsKept
<1> USE <1>0
<1>e. cp.WritePointer + DebugMax < ProbeUnits
  BY CpKept, SizesGood, SMT DEF TestFill, Remaining, CpKept
<1> DEFINE wp == (cp.WritePointer + DebugMax) % ProbeUnits
<1>w. wp = cp.WritePointer + DebugMax /\ wp \in 0 .. ProbeUnits - 1
  <2>1. cp.WritePointer + DebugMax \in Nat
    BY CpKept, SizesGood DEF CpKept
  <2> QED BY <1>e, <2>1, WrapsInside, SizesGood
<1>m. (cp.DebugSequence + 1) * DebugMax = cp.DebugSequence * DebugMax + DebugMax
  BY CpKept, SizesGood DEF CpKept
<1>cp. cp' = [cp EXCEPT !.WritePointer = wp, !.DebugSequence = cp.DebugSequence + 1]
  BY SMT DEF TestFill, SubmitNoops, NextSequence
<1> HIDE DEF wp
<1>at. probe.at = "fill"
  BY SMT DEF TestFill
<1>h. ~card.hung
  <2>1. unread # <<>> => Head(unread) = unread[1] /\ Len(unread) \in Nat \ {0}
    BY UnreadKept, FirstIsHead DEF UnreadKept
  <2>2. cp.Ready => ~Stops(unread[1]) \/ unread = <<>>
    BY <2>1, <1>at, UnreadKept, RingEmpty, FencesQueued, NoopsQueued DEF RingEmpty, FencesQueued, NoopsQueued, Stops, Crosses
  <2> QED BY <2>1, <2>2, <1>at, CpRuns DEF CpRuns
<1>g. probe.at = "fill"
  BY SMT DEF TestFill, Remaining, SubmitNoops, NextSequence, ProbeGoes
<1>cpk. /\ CpKept' /\ cp'.Ready = cp.Ready /\ cp'.WritePointer = wp /\ cp'.NextFence = cp.NextFence /\ cp'.PendingFence = cp.PendingFence /\ cp'.DebugSequence = cp.DebugSequence + 1
  <2> DEFINE d == cp.DebugSequence + 1
  <2>1. d \in Nat
    BY CpKept DEF CpKept
  <2>2. cp' = [cp EXCEPT !.WritePointer = wp, !.DebugSequence = d]
    BY <1>cp
  <2> HIDE DEF d
  <2>3. /\ CpKept' /\ cp'.Ready = cp.Ready /\ cp'.WritePointer = wp /\ cp'.NextFence = cp.NextFence /\ cp'.PendingFence = cp.PendingFence /\ cp'.DebugSequence = d
    BY <1>w, <2>1, <2>2, CpFills
  <2> QED BY <2>3 DEF d
<1>cpt. CpKept'
  BY <1>cpk
<1>cpf. /\ cp'.Ready = cp.Ready
        /\ cp'.WritePointer = wp
        /\ cp'.NextFence = cp.NextFence
        /\ cp'.PendingFence = cp.PendingFence
        /\ cp'.DebugSequence = cp.DebugSequence + 1
  BY <1>cpk
<1>cardf. card' = card
  BY SMT DEF TestFill, Remaining, SubmitNoops, NextSequence, ProbeGoes
<1>cardt. CardKept'
  BY <1>cardf DEF CardKept
<1>statef. state' = state
  BY SMT DEF TestFill, Remaining, SubmitNoops, NextSequence, ProbeGoes
<1>statet. StateKept'
  BY <1>statef DEF StateKept
<1>probe. probe' = [probe EXCEPT !.at = "filled"]
  BY SMT DEF TestFill, Remaining, SubmitNoops, NextSequence, ProbeGoes
<1>probet. ProbeKept'
  BY <1>probe DEF ProbeKept, Place
<1>probef. /\ probe'.at = "filled"
           /\ probe'.case = probe.case
           /\ probe'.accepted = probe.accepted
           /\ probe'.fence = probe.fence
           /\ probe'.poolFence = probe.poolFence
           /\ probe'.pool = probe.pool
  BY <1>probe, ProbeKept DEF ProbeKept
<1>resultsf. results' = results
  BY SMT DEF TestFill, Remaining, SubmitNoops, NextSequence, ProbeGoes
<1>resultst. ResultsKept'
  BY <1>resultsf DEF ResultsKept
<1>unread. unread' = Append(unread, [Command("noops", cp.DebugSequence + 1) EXCEPT !.units = DebugMax, !.at = cp.WritePointer])
  BY SMT DEF TestFill, Remaining, SubmitNoops, NextSequence, ProbeGoes
<1> DEFINE plain == Command("noops", cp.DebugSequence + 1)
<1>plain. /\ plain \in Commits /\ plain.what = "noops" /\ plain.value = cp.DebugSequence + 1 /\ plain.place = "none" /\ plain.dwords = 0
  BY CpKept, SizesGood DEF CpKept, Commits, Where, Command
<1> HIDE DEF plain
<1> DEFINE sent == [plain EXCEPT !.units = DebugMax, !.at = cp.WritePointer]
<1>sent. unread' = Append(unread, sent)
  BY <1>unread DEF plain
<1>sentt. /\ sent \in Commits /\ sent.what = "noops" /\ sent.value = cp.DebugSequence + 1 /\ sent.place = "none" /\ sent.dwords = 0
          /\ sent.units = DebugMax /\ sent.at = cp.WritePointer
  <2> DEFINE u == DebugMax a == cp.WritePointer
  <2>1. u \in Nat /\ a \in Nat
    BY CpKept, SizesGood, SizesGood DEF CpKept
  <2>2. sent = [plain EXCEPT !.units = u, !.at = a]
    OBVIOUS
  <2> HIDE DEF sent, u, a
  <2>3. /\ sent \in Commits /\ sent.what = plain.what /\ sent.value = plain.value /\ sent.place = plain.place
        /\ sent.dwords = plain.dwords /\ sent.units = u /\ sent.at = a
    BY <1>plain, <2>1, <2>2 DEF Commits
  <2> QED BY <1>plain, <2>3 DEF u, a
<1> HIDE DEF sent
<1>unreadt. UnreadKept'
  BY <1>sent, <1>sentt, UnreadKept, Appended DEF UnreadKept
<1>unreadf. /\ Len(unread') = Len(unread) + 1 /\ Len(unread) \in Nat /\ unread' # <<>>
            /\ \A k \in 1 .. Len(unread) : unread'[k] = unread[k]
            /\ unread'[Len(unread) + 1].what = "noops" /\ unread'[Len(unread) + 1].value = cp.DebugSequence + 1
            /\ unread'[Len(unread) + 1].at = cp.WritePointer /\ unread'[Len(unread) + 1].units = DebugMax
            /\ unread'[Len(unread) + 1].place = "none" /\ unread'[Len(unread) + 1].dwords = 0
  BY <1>sent, <1>sentt, UnreadKept, Appended DEF UnreadKept
<1>c1. CpRuns'
  BY <1>cpf, <1>cardf, <1>statef, <1>probef, <1>resultsf, <1>unreadf, <1>g, CpRuns, CpKept, <1>h, NoopsQueued, UnreadKept DEF CpRuns, Stops, Works, CpKept, NoopsQueued, Crosses
<1>c2. RingEmpty'
  BY <1>cpf, <1>cardf, <1>statef, <1>probef, <1>resultsf, <1>unreadf, <1>g, RingEmpty DEF RingEmpty
<1>c3. NothingPends'
  BY <1>cpf, <1>cardf, <1>statef, <1>probef, <1>resultsf, <1>unreadf, <1>g, NothingPends DEF NothingPends
<1>c4. Placed'
  BY <1>cpf, <1>cardf, <1>statef, <1>probef, <1>resultsf, <1>unreadf, <1>g, Placed, CpKept, SizesGood, <1>e, <1>w, <1>m DEF Placed, UnitsDone, StartupUnits, CpKept
<1>c5. FencesQueued'
  BY <1>cpf, <1>cardf, <1>statef, <1>probef, <1>resultsf, <1>unreadf, <1>g, FencesQueued DEF FencesQueued
<1>c6. NoopsQueued'
  <2>1. /\ Len(unread) <= cp.DebugSequence
        /\ \A k \in 1 .. Len(unread) :
             /\ unread[k].what = "noops" /\ unread[k].value = cp.DebugSequence - Len(unread) + k
             /\ ~Crosses(unread[k])
        /\ cp.DebugSequence = 0 \/ card.scratch1 = cp.DebugSequence
    BY <1>at, NoopsQueued DEF NoopsQueued
  <2>2. ASSUME NEW k \in 1 .. Len(unread')
        PROVE  /\ unread'[k].what = "noops" /\ unread'[k].value = cp'.DebugSequence - Len(unread') + k
               /\ Crosses(unread'[k]) <=> probe'.at = "crossed" /\ k = Len(unread')
    <3>1. CASE k = Len(unread')
      <4>1. k = Len(unread) + 1
        BY <3>1, <1>cpf, <1>cardf, <1>statef, <1>probef, <1>resultsf, <1>unreadf
      <4>2. unread'[k].what = "noops" /\ unread'[k].value = cp.DebugSequence + 1 /\ (Crosses(unread'[k]) <=> probe'.at = "crossed")
        BY <4>1, <1>cpf, <1>cardf, <1>statef, <1>probef, <1>resultsf, <1>unreadf, <1>e, CpKept, SizesGood DEF CpKept, Crosses
      <4> QED BY <3>1, <4>1, <4>2, <1>cpf, <1>cardf, <1>statef, <1>probef, <1>resultsf, <1>unreadf, CpKept DEF CpKept
    <3>2. CASE k \in 1 .. Len(unread)
      <4>1. unread'[k] = unread[k] /\ unread[k].what = "noops" /\ ~Crosses(unread[k])
             /\ unread[k].value = cp.DebugSequence - Len(unread) + k
        BY <3>2, <2>1, <1>cpf, <1>cardf, <1>statef, <1>probef, <1>resultsf, <1>unreadf
      <4> QED BY <3>2, <4>1, <1>cpf, <1>cardf, <1>statef, <1>probef, <1>resultsf, <1>unreadf, CpKept DEF CpKept
    <3> QED BY <3>1, <3>2, <1>cpf, <1>cardf, <1>statef, <1>probef, <1>resultsf, <1>unreadf
  <2> QED BY <2>1, <2>2, <1>cpf, <1>cardf, <1>statef, <1>probef, <1>resultsf, <1>unreadf, CpKept, CardKept DEF NoopsQueued, CpKept, CardKept
<1>c7. TestsPassed'
  BY <1>cpf, <1>cardf, <1>statef, <1>probef, <1>resultsf, <1>unreadf, <1>g, TestsPassed DEF TestsPassed, Tested
<1>c8. BufferQueued'
  BY <1>cpf, <1>cardf, <1>statef, <1>probef, <1>resultsf, <1>unreadf, <1>g, BufferQueued DEF BufferQueued, Works, IbPlace, IbDwords
<1>c9. ReportRight'
  BY <1>cpf, <1>cardf, <1>statef, <1>probef, <1>resultsf, <1>unreadf, <1>g, ReportRight DEF ReportRight, Works, IbPlace, IbDwords
<1>c10. Ends'
  BY <1>cpf, <1>cardf, <1>statef, <1>probef, <1>resultsf, <1>unreadf, <1>g, Ends DEF Ends
<1>c11. VerdictsRight'
  BY <1>cpf, <1>cardf, <1>statef, <1>probef, <1>resultsf, <1>unreadf, <1>g, VerdictsRight DEF VerdictsRight, Works
<1>c12. MonoRight'
  BY <1>cpf, <1>cardf, <1>statef, <1>probef, <1>resultsf, <1>unreadf, <1>g, MonoRight DEF MonoRight
<1> QED
  BY <1>cpt, <1>cardt, <1>statet, <1>probet, <1>resultst, <1>unreadt, <1>c1, <1>c2, <1>c3, <1>c4, <1>c5, <1>c6, <1>c7, <1>c8, <1>c9, <1>c10, <1>c11, <1>c12 DEF ProbesInv, FieldsKept

LEMMA TestCrossKeeps ==
  ASSUME ProbesInv, TestCross
  PROVE  ProbesInv'
<1>0. /\ CpKept /\ UnreadKept /\ CardKept /\ StateKept /\ ProbeKept /\ ResultsKept
      /\ CpRuns /\ RingEmpty /\ NothingPends /\ Placed /\ FencesQueued /\ NoopsQueued /\ TestsPassed
      /\ BufferQueued /\ ReportRight /\ Ends /\ VerdictsRight /\ MonoRight
  BY DEF ProbesInv, FieldsKept
<1> USE <1>0
<1>d. cp.DebugSequence > 0 /\ ProbeUnits - cp.WritePointer < DebugMax
  <2>1. ProbeUnits - cp.WritePointer <= DebugMax /\ probe.at = "fill"
    BY SMT DEF TestCross, Remaining
  <2>2. cp.WritePointer = 4 + cp.DebugSequence * DebugMax /\ cp.DebugSequence \in Nat
    BY <2>1, Placed, CpKept DEF Placed, UnitsDone, StartupUnits, CpKept
  <2>3. cp.DebugSequence # 0
    <3>1. SUFFICES ASSUME cp.DebugSequence = 0 PROVE FALSE
      OBVIOUS
    <3>2. cp.DebugSequence * DebugMax = 0
      BY <3>1, RingAssumption
    <3> QED BY <2>1, <2>2, <3>2, RingAssumption
  <2>4. ProbeUnits - cp.WritePointer # DebugMax
    <3>1. SUFFICES ASSUME ProbeUnits = cp.WritePointer + DebugMax PROVE FALSE
      BY CpKept, RingAssumption DEF CpKept
    <3>2. (cp.DebugSequence + 1) * DebugMax = cp.DebugSequence * DebugMax + DebugMax
      BY <2>2, RingAssumption
    <3>3. ProbeUnits = 4 + (cp.DebugSequence + 1) * DebugMax
      BY <3>1, <3>2, <2>2, RingAssumption
    <3>4. cp.DebugSequence + 1 <= (cp.DebugSequence + 1) * DebugMax
      BY <2>2, RingAssumption
    <3>5. cp.DebugSequence + 1 \in 1 .. ProbeUnits
      BY <3>3, <3>4, <2>2, RingAssumption
    <3> QED BY <3>3, <3>5, RingAssumption
  <2> QED BY <2>1, <2>2, <2>3, <2>4, CpKept, RingAssumption DEF CpKept
<1>n. Crossing(Remaining) = ProbeUnits - cp.WritePointer + 1
  BY <1>d, CpKept, RingAssumption DEF Crossing, Remaining, CpKept
<1>e. Crossing(Remaining) \in Nat /\ cp.WritePointer + Crossing(Remaining) > ProbeUnits
  BY <1>n, <1>d, CpKept, SizesGood DEF CpKept
<1> DEFINE wp == (cp.WritePointer + Crossing(Remaining)) % ProbeUnits
<1>w. wp \in 0 .. ProbeUnits - 1
  <2>1. cp.WritePointer + Crossing(Remaining) \in Nat
    BY CpKept, <1>e DEF CpKept
  <2> QED BY <2>1, WrapsInside
<1>cp. cp' = [cp EXCEPT !.WritePointer = wp, !.DebugSequence = cp.DebugSequence + 1]
  BY SMT DEF TestCross, SubmitNoops, NextSequence
<1> HIDE DEF wp
<1>wn. cp.WritePointer \in Nat
  BY CpKept DEF CpKept
<1>at. probe.at = "fill"
  BY SMT DEF TestCross
<1>h. ~card.hung
  <2>1. unread # <<>> => Head(unread) = unread[1] /\ Len(unread) \in Nat \ {0}
    BY UnreadKept, FirstIsHead DEF UnreadKept
  <2>2. cp.Ready => ~Stops(unread[1]) \/ unread = <<>>
    BY <2>1, <1>at, UnreadKept, RingEmpty, FencesQueued, NoopsQueued DEF RingEmpty, FencesQueued, NoopsQueued, Stops, Crosses
  <2> QED BY <2>1, <2>2, <1>at, CpRuns DEF CpRuns
<1>g. probe.at = "fill"
  BY SMT DEF TestCross, SubmitNoops, NextSequence, ProbeGoes
<1>cpk. /\ CpKept' /\ cp'.Ready = cp.Ready /\ cp'.WritePointer = wp /\ cp'.NextFence = cp.NextFence /\ cp'.PendingFence = cp.PendingFence /\ cp'.DebugSequence = cp.DebugSequence + 1
  <2> DEFINE d == cp.DebugSequence + 1
  <2>1. d \in Nat
    BY CpKept DEF CpKept
  <2>2. cp' = [cp EXCEPT !.WritePointer = wp, !.DebugSequence = d]
    BY <1>cp
  <2> HIDE DEF d
  <2>3. /\ CpKept' /\ cp'.Ready = cp.Ready /\ cp'.WritePointer = wp /\ cp'.NextFence = cp.NextFence /\ cp'.PendingFence = cp.PendingFence /\ cp'.DebugSequence = d
    BY <1>w, <2>1, <2>2, CpFills
  <2> QED BY <2>3 DEF d
<1>cpt. CpKept'
  BY <1>cpk
<1>cpf. /\ cp'.Ready = cp.Ready
        /\ cp'.WritePointer = wp
        /\ cp'.NextFence = cp.NextFence
        /\ cp'.PendingFence = cp.PendingFence
        /\ cp'.DebugSequence = cp.DebugSequence + 1
  BY <1>cpk
<1>cardf. card' = card
  BY SMT DEF TestCross, SubmitNoops, NextSequence, ProbeGoes
<1>cardt. CardKept'
  BY <1>cardf DEF CardKept
<1>statef. state' = state
  BY SMT DEF TestCross, SubmitNoops, NextSequence, ProbeGoes
<1>statet. StateKept'
  BY <1>statef DEF StateKept
<1>probe. probe' = [probe EXCEPT !.at = "crossed"]
  BY SMT DEF TestCross, SubmitNoops, NextSequence, ProbeGoes
<1>probet. ProbeKept'
  BY <1>probe DEF ProbeKept, Place
<1>probef. /\ probe'.at = "crossed"
           /\ probe'.case = probe.case
           /\ probe'.accepted = probe.accepted
           /\ probe'.fence = probe.fence
           /\ probe'.poolFence = probe.poolFence
           /\ probe'.pool = probe.pool
  BY <1>probe, ProbeKept DEF ProbeKept
<1>results. results' = [results EXCEPT !.WrapBefore = cp.WritePointer]
  BY SMT DEF TestCross, SubmitNoops, NextSequence, ProbeGoes
<1>resultst. ResultsKept'
  BY <1>results, <1>wn DEF ResultsKept
<1>resultsf. /\ results'.CpActive = results.CpActive
             /\ results'.fences = results.fences
             /\ results'.FenceOrder = results.FenceOrder
             /\ results'.Future = results.Future
             /\ results'.NearFull = results.NearFull
             /\ results'.WrapBefore = cp.WritePointer
             /\ results'.Wrap = results.Wrap
             /\ results'.held = results.held
             /\ results'.Mono = results.Mono
             /\ results'.Fallback = results.Fallback
             /\ results'.slots = results.slots
  BY <1>results, ResultsKept DEF ResultsKept
<1>unread. unread' = Append(unread, [Command("noops", cp.DebugSequence + 1) EXCEPT !.units = Crossing(Remaining), !.at = cp.WritePointer])
  BY SMT DEF TestCross, SubmitNoops, NextSequence, ProbeGoes
<1> DEFINE plain == Command("noops", cp.DebugSequence + 1)
<1>plain. /\ plain \in Commits /\ plain.what = "noops" /\ plain.value = cp.DebugSequence + 1 /\ plain.place = "none" /\ plain.dwords = 0
  BY CpKept, <1>e DEF CpKept, Commits, Where, Command
<1> HIDE DEF plain
<1> DEFINE sent == [plain EXCEPT !.units = Crossing(Remaining), !.at = cp.WritePointer]
<1>sent. unread' = Append(unread, sent)
  BY <1>unread DEF plain
<1>sentt. /\ sent \in Commits /\ sent.what = "noops" /\ sent.value = cp.DebugSequence + 1 /\ sent.place = "none" /\ sent.dwords = 0
          /\ sent.units = Crossing(Remaining) /\ sent.at = cp.WritePointer
  <2> DEFINE u == Crossing(Remaining) a == cp.WritePointer
  <2>1. u \in Nat /\ a \in Nat
    BY CpKept, SizesGood, <1>e DEF CpKept
  <2>2. sent = [plain EXCEPT !.units = u, !.at = a]
    OBVIOUS
  <2> HIDE DEF sent, u, a
  <2>3. /\ sent \in Commits /\ sent.what = plain.what /\ sent.value = plain.value /\ sent.place = plain.place
        /\ sent.dwords = plain.dwords /\ sent.units = u /\ sent.at = a
    BY <1>plain, <2>1, <2>2 DEF Commits
  <2> QED BY <1>plain, <2>3 DEF u, a
<1> HIDE DEF sent
<1>unreadt. UnreadKept'
  BY <1>sent, <1>sentt, UnreadKept, Appended DEF UnreadKept
<1>unreadf. /\ Len(unread') = Len(unread) + 1 /\ Len(unread) \in Nat /\ unread' # <<>>
            /\ \A k \in 1 .. Len(unread) : unread'[k] = unread[k]
            /\ unread'[Len(unread) + 1].what = "noops" /\ unread'[Len(unread) + 1].value = cp.DebugSequence + 1
            /\ unread'[Len(unread) + 1].at = cp.WritePointer /\ unread'[Len(unread) + 1].units = Crossing(Remaining)
            /\ unread'[Len(unread) + 1].place = "none" /\ unread'[Len(unread) + 1].dwords = 0
  BY <1>sent, <1>sentt, UnreadKept, Appended DEF UnreadKept
<1>c1. CpRuns'
  BY <1>cpf, <1>cardf, <1>statef, <1>probef, <1>resultsf, <1>unreadf, <1>g, CpRuns, CpKept, <1>h, NoopsQueued, UnreadKept DEF CpRuns, Stops, Works, CpKept, NoopsQueued, Crosses
<1>c2. RingEmpty'
  BY <1>cpf, <1>cardf, <1>statef, <1>probef, <1>resultsf, <1>unreadf, <1>g, RingEmpty DEF RingEmpty
<1>c3. NothingPends'
  BY <1>cpf, <1>cardf, <1>statef, <1>probef, <1>resultsf, <1>unreadf, <1>g, NothingPends DEF NothingPends
<1>c4. Placed'
  BY <1>cpf, <1>cardf, <1>statef, <1>probef, <1>resultsf, <1>unreadf, <1>g, Placed, CpKept, SizesGood, <1>e, <1>w DEF Placed, UnitsDone, StartupUnits, CpKept
<1>c5. FencesQueued'
  BY <1>cpf, <1>cardf, <1>statef, <1>probef, <1>resultsf, <1>unreadf, <1>g, FencesQueued DEF FencesQueued
<1>c6. NoopsQueued'
  <2>1. /\ Len(unread) <= cp.DebugSequence
        /\ \A k \in 1 .. Len(unread) :
             /\ unread[k].what = "noops" /\ unread[k].value = cp.DebugSequence - Len(unread) + k
             /\ ~Crosses(unread[k])
        /\ cp.DebugSequence = 0 \/ card.scratch1 = cp.DebugSequence
    BY <1>at, NoopsQueued DEF NoopsQueued
  <2>2. ASSUME NEW k \in 1 .. Len(unread')
        PROVE  /\ unread'[k].what = "noops" /\ unread'[k].value = cp'.DebugSequence - Len(unread') + k
               /\ Crosses(unread'[k]) <=> probe'.at = "crossed" /\ k = Len(unread')
    <3>1. CASE k = Len(unread')
      <4>1. k = Len(unread) + 1
        BY <3>1, <1>cpf, <1>cardf, <1>statef, <1>probef, <1>resultsf, <1>unreadf
      <4>2. unread'[k].what = "noops" /\ unread'[k].value = cp.DebugSequence + 1 /\ (Crosses(unread'[k]) <=> probe'.at = "crossed")
        BY <4>1, <1>cpf, <1>cardf, <1>statef, <1>probef, <1>resultsf, <1>unreadf, <1>e, CpKept, SizesGood DEF CpKept, Crosses
      <4> QED BY <3>1, <4>1, <4>2, <1>cpf, <1>cardf, <1>statef, <1>probef, <1>resultsf, <1>unreadf, CpKept DEF CpKept
    <3>2. CASE k \in 1 .. Len(unread)
      <4>1. unread'[k] = unread[k] /\ unread[k].what = "noops" /\ ~Crosses(unread[k])
             /\ unread[k].value = cp.DebugSequence - Len(unread) + k
        BY <3>2, <2>1, <1>cpf, <1>cardf, <1>statef, <1>probef, <1>resultsf, <1>unreadf
      <4> QED BY <3>2, <4>1, <1>cpf, <1>cardf, <1>statef, <1>probef, <1>resultsf, <1>unreadf, CpKept DEF CpKept
    <3> QED BY <3>1, <3>2, <1>cpf, <1>cardf, <1>statef, <1>probef, <1>resultsf, <1>unreadf
  <2> QED BY <2>1, <2>2, <1>cpf, <1>cardf, <1>statef, <1>probef, <1>resultsf, <1>unreadf, CpKept, CardKept, <1>d DEF NoopsQueued, CpKept, CardKept
<1>c7. TestsPassed'
  BY <1>cpf, <1>cardf, <1>statef, <1>probef, <1>resultsf, <1>unreadf, <1>g, TestsPassed DEF TestsPassed, Tested
<1>c8. BufferQueued'
  BY <1>cpf, <1>cardf, <1>statef, <1>probef, <1>resultsf, <1>unreadf, <1>g, BufferQueued DEF BufferQueued, Works, IbPlace, IbDwords
<1>c9. ReportRight'
  BY <1>cpf, <1>cardf, <1>statef, <1>probef, <1>resultsf, <1>unreadf, <1>g, ReportRight DEF ReportRight, Works, IbPlace, IbDwords
<1>c10. Ends'
  BY <1>cpf, <1>cardf, <1>statef, <1>probef, <1>resultsf, <1>unreadf, <1>g, Ends DEF Ends
<1>c11. VerdictsRight'
  BY <1>cpf, <1>cardf, <1>statef, <1>probef, <1>resultsf, <1>unreadf, <1>g, VerdictsRight DEF VerdictsRight, Works
<1>c12. MonoRight'
  BY <1>cpf, <1>cardf, <1>statef, <1>probef, <1>resultsf, <1>unreadf, <1>g, MonoRight DEF MonoRight
<1> QED
  BY <1>cpt, <1>cardt, <1>statet, <1>probet, <1>resultst, <1>unreadt, <1>c1, <1>c2, <1>c3, <1>c4, <1>c5, <1>c6, <1>c7, <1>c8, <1>c9, <1>c10, <1>c11, <1>c12 DEF ProbesInv, FieldsKept

LEMMA TestCrossedKeeps ==
  ASSUME ProbesInv, TestCrossed
  PROVE  ProbesInv'
<1>0. /\ CpKept /\ UnreadKept /\ CardKept /\ StateKept /\ ProbeKept /\ ResultsKept
      /\ CpRuns /\ RingEmpty /\ NothingPends /\ Placed /\ FencesQueued /\ NoopsQueued /\ TestsPassed
      /\ BufferQueued /\ ReportRight /\ Ends /\ VerdictsRight /\ MonoRight
  BY DEF ProbesInv, FieldsKept
<1> USE <1>0
<1>e. card.scratch1 = cp.DebugSequence /\ probe.at = "crossed"
  BY SMT DEF TestCrossed
<1>f. unread = <<>> /\ card.crossed
  BY <1>e, NoopsQueued, CpKept DEF NoopsQueued, CpKept
<1> DEFINE b == cp.WritePointer < results.WrapBefore
<1>b. b \in BOOLEAN
  BY CpKept, ResultsKept DEF CpKept, ResultsKept
<1>r. /\ results' = [results EXCEPT !.Wrap = b]
      /\ probe' = [probe EXCEPT !.at = IF b THEN "indirect" ELSE "fail"]
  BY DEF TestCrossed, ProbeGoes
<1> HIDE DEF b
<1>1. CASE b
  <2> USE <1>1
  <2>g. probe.at = "crossed"
    BY SMT DEF TestCrossed, ProbeGoes
  <2>cpf. cp' = cp
    BY SMT DEF TestCrossed, ProbeGoes
  <2>cpt. CpKept'
    BY <2>cpf DEF CpKept
  <2>cardf. card' = card
    BY SMT DEF TestCrossed, ProbeGoes
  <2>cardt. CardKept'
    BY <2>cardf DEF CardKept
  <2>statef. state' = state
    BY SMT DEF TestCrossed, ProbeGoes
  <2>statet. StateKept'
    BY <2>statef DEF StateKept
  <2>probe. probe' = [probe EXCEPT !.at = "indirect"]
    BY <1>r DEF TestCrossed, ProbeGoes
  <2>probet. ProbeKept'
    BY <2>probe DEF ProbeKept, Place
  <2>probef. /\ probe'.at = "indirect"
             /\ probe'.case = probe.case
             /\ probe'.accepted = probe.accepted
             /\ probe'.fence = probe.fence
             /\ probe'.poolFence = probe.poolFence
             /\ probe'.pool = probe.pool
    BY <2>probe, ProbeKept DEF ProbeKept
  <2>results. results' = [results EXCEPT !.Wrap = b]
    BY <1>r DEF TestCrossed, ProbeGoes
  <2>resultst. ResultsKept'
    BY <2>results, <1>b DEF ResultsKept
  <2>resultsf. /\ results'.CpActive = results.CpActive
               /\ results'.fences = results.fences
               /\ results'.FenceOrder = results.FenceOrder
               /\ results'.Future = results.Future
               /\ results'.NearFull = results.NearFull
               /\ results'.WrapBefore = results.WrapBefore
               /\ results'.Wrap = b
               /\ results'.held = results.held
               /\ results'.Mono = results.Mono
               /\ results'.Fallback = results.Fallback
               /\ results'.slots = results.slots
    BY <2>results, ResultsKept DEF ResultsKept
  <2>unreadf. unread' = unread
    BY SMT DEF TestCrossed, ProbeGoes
  <2>unreadt. UnreadKept'
    BY <2>unreadf DEF UnreadKept
  <2> USE <2>cpf, <2>cardf, <2>statef, <2>probef, <2>resultsf, <2>unreadf, <2>g
  <2>c1. CpRuns'
    BY CpRuns DEF CpRuns, Stops, Works
  <2>c2. RingEmpty'
    BY RingEmpty, <1>f DEF RingEmpty
  <2>c3. NothingPends'
    BY NothingPends, CpKept DEF NothingPends
  <2>c4. Placed'
    BY Placed DEF Placed, UnitsDone, StartupUnits
  <2>c5. FencesQueued'
    BY FencesQueued DEF FencesQueued
  <2>c6. NoopsQueued'
    BY NoopsQueued DEF NoopsQueued, Crosses
  <2>c7. TestsPassed'
    BY TestsPassed, <1>f DEF TestsPassed, Tested
  <2>c8. BufferQueued'
    BY BufferQueued DEF BufferQueued, Works, IbPlace, IbDwords
  <2>c9. ReportRight'
    BY ReportRight DEF ReportRight, Works, IbPlace, IbDwords
  <2>c10. Ends'
    BY Ends DEF Ends
  <2>c11. VerdictsRight'
    BY VerdictsRight DEF VerdictsRight, Works
  <2>c12. MonoRight'
    BY MonoRight DEF MonoRight
  <2> QED
    BY <2>cpt, <2>cardt, <2>statet, <2>probet, <2>resultst, <2>unreadt, <2>c1, <2>c2, <2>c3, <2>c4, <2>c5, <2>c6, <2>c7, <2>c8, <2>c9, <2>c10, <2>c11, <2>c12 DEF ProbesInv, FieldsKept
<1>2. CASE ~b
  <2> USE <1>2
  <2>g. probe.at = "crossed"
    BY SMT DEF TestCrossed, ProbeGoes
  <2>cpf. cp' = cp
    BY SMT DEF TestCrossed, ProbeGoes
  <2>cpt. CpKept'
    BY <2>cpf DEF CpKept
  <2>cardf. card' = card
    BY SMT DEF TestCrossed, ProbeGoes
  <2>cardt. CardKept'
    BY <2>cardf DEF CardKept
  <2>statef. state' = state
    BY SMT DEF TestCrossed, ProbeGoes
  <2>statet. StateKept'
    BY <2>statef DEF StateKept
  <2>probe. probe' = [probe EXCEPT !.at = "fail"]
    BY <1>r DEF TestCrossed, ProbeGoes
  <2>probet. ProbeKept'
    BY <2>probe DEF ProbeKept, Place
  <2>probef. /\ probe'.at = "fail"
             /\ probe'.case = probe.case
             /\ probe'.accepted = probe.accepted
             /\ probe'.fence = probe.fence
             /\ probe'.poolFence = probe.poolFence
             /\ probe'.pool = probe.pool
    BY <2>probe, ProbeKept DEF ProbeKept
  <2>results. results' = [results EXCEPT !.Wrap = b]
    BY <1>r DEF TestCrossed, ProbeGoes
  <2>resultst. ResultsKept'
    BY <2>results, <1>b DEF ResultsKept
  <2>resultsf. /\ results'.CpActive = results.CpActive
               /\ results'.fences = results.fences
               /\ results'.FenceOrder = results.FenceOrder
               /\ results'.Future = results.Future
               /\ results'.NearFull = results.NearFull
               /\ results'.WrapBefore = results.WrapBefore
               /\ results'.Wrap = b
               /\ results'.held = results.held
               /\ results'.Mono = results.Mono
               /\ results'.Fallback = results.Fallback
               /\ results'.slots = results.slots
    BY <2>results, ResultsKept DEF ResultsKept
  <2>unreadf. unread' = unread
    BY SMT DEF TestCrossed, ProbeGoes
  <2>unreadt. UnreadKept'
    BY <2>unreadf DEF UnreadKept
  <2> USE <2>cpf, <2>cardf, <2>statef, <2>probef, <2>resultsf, <2>unreadf, <2>g
  <2>c1. CpRuns'
    BY CpRuns DEF CpRuns, Stops, Works
  <2>c2. RingEmpty'
    BY RingEmpty, <1>f DEF RingEmpty
  <2>c3. NothingPends'
    BY NothingPends DEF NothingPends
  <2>c4. Placed'
    BY Placed DEF Placed, UnitsDone, StartupUnits
  <2>c5. FencesQueued'
    BY FencesQueued DEF FencesQueued
  <2>c6. NoopsQueued'
    BY NoopsQueued DEF NoopsQueued, Crosses
  <2>c7. TestsPassed'
    BY TestsPassed, <1>f DEF TestsPassed, Tested
  <2>c8. BufferQueued'
    BY BufferQueued DEF BufferQueued, Works, IbPlace, IbDwords
  <2>c9. ReportRight'
    BY ReportRight DEF ReportRight, Works, IbPlace, IbDwords
  <2>c10. Ends'
    BY Ends DEF Ends
  <2>c11. VerdictsRight'
    BY VerdictsRight DEF VerdictsRight, Works
  <2>c12. MonoRight'
    BY MonoRight DEF MonoRight
  <2> QED
    BY <2>cpt, <2>cardt, <2>statet, <2>probet, <2>resultst, <2>unreadt, <2>c1, <2>c2, <2>c3, <2>c4, <2>c5, <2>c6, <2>c7, <2>c8, <2>c9, <2>c10, <2>c11, <2>c12 DEF ProbesInv, FieldsKept
<1> QED BY <1>1, <1>2, SMT DEF TestCrossed

LEMMA TestsGiveUpKeeps ==
  ASSUME ProbesInv, TestsGiveUp
  PROVE  ProbesInv'
<1>0. /\ CpKept /\ UnreadKept /\ CardKept /\ StateKept /\ ProbeKept /\ ResultsKept
      /\ CpRuns /\ RingEmpty /\ NothingPends /\ Placed /\ FencesQueued /\ NoopsQueued /\ TestsPassed
      /\ BufferQueued /\ ReportRight /\ Ends /\ VerdictsRight /\ MonoRight
  BY DEF ProbesInv, FieldsKept
<1> USE <1>0
<1>s. (IF state.service = "READY" THEN "ATTACHED" ELSE state.service) = "ATTACHED"
  BY StateKept DEF StateKept
<1>g. probe.at \in {"first", "second", "fences", "reserve", "fill", "filled", "crossed", "fail"}
  BY SMT DEF TestsGiveUp, TestsFail, AbortCp, Aborted, ProbeGoes
<1>cp. cp' = [cp EXCEPT !.Ready = FALSE, !.PendingFence = 0]
  BY SMT DEF TestsGiveUp, TestsFail, AbortCp, Aborted, ProbeGoes
<1>cpt. CpKept'
  BY <1>cp DEF CpKept
<1>cpf. /\ cp'.Ready = FALSE
        /\ cp'.WritePointer = cp.WritePointer
        /\ cp'.NextFence = cp.NextFence
        /\ cp'.PendingFence = 0
        /\ cp'.DebugSequence = cp.DebugSequence
  BY <1>cp, CpKept DEF CpKept
<1>card. card' = [card EXCEPT !.partition = "none"]
  BY SMT DEF TestsGiveUp, TestsFail, AbortCp, Aborted, ProbeGoes
<1>cardt. CardKept'
  BY <1>card DEF CardKept
<1>cardf. /\ card'.scratch0 = card.scratch0
          /\ card'.scratch1 = card.scratch1
          /\ card'.hung = card.hung
          /\ card'.crossed = card.crossed
          /\ card'.partition = "none"
          /\ card'.faults = card.faults
          /\ card'.mono = card.mono
          /\ card'.regs = card.regs
          /\ card'.shadow = card.shadow
  BY <1>card, CardKept DEF CardKept
<1>state. state' = [state EXCEPT !.service = "ATTACHED"]
  BY <1>s, SMT DEF TestsGiveUp, TestsFail, AbortCp, Aborted, ProbeGoes
<1>statet. StateKept'
  BY <1>state DEF StateKept
<1>statef. /\ state'.accel = state.accel
           /\ state'.service = "ATTACHED"
           /\ state'.tried = state.tried
  BY <1>state, StateKept DEF StateKept
<1>probe. probe' = [probe EXCEPT !.at = "indirect"]
  BY SMT DEF TestsGiveUp, TestsFail, AbortCp, Aborted, ProbeGoes
<1>probet. ProbeKept'
  BY <1>probe DEF ProbeKept, Place
<1>probef. /\ probe'.at = "indirect"
           /\ probe'.case = probe.case
           /\ probe'.accepted = probe.accepted
           /\ probe'.fence = probe.fence
           /\ probe'.poolFence = probe.poolFence
           /\ probe'.pool = probe.pool
  BY <1>probe, ProbeKept DEF ProbeKept
<1>resultsf. results' = results
  BY SMT DEF TestsGiveUp, TestsFail, AbortCp, Aborted, ProbeGoes
<1>resultst. ResultsKept'
  BY <1>resultsf DEF ResultsKept
<1>unreadf. unread' = <<>>
  BY SMT DEF TestsGiveUp, TestsFail, AbortCp, Aborted, ProbeGoes
<1>unreadt. UnreadKept'
  BY <1>unreadf DEF UnreadKept
<1> USE <1>cpf, <1>cardf, <1>statef, <1>probef, <1>resultsf, <1>unreadf, <1>g
<1>c1. CpRuns'
  BY CpRuns, CpKept DEF CpRuns, Stops, Works, CpKept
<1>c2. RingEmpty'
  BY RingEmpty DEF RingEmpty
<1>c3. NothingPends'
  BY NothingPends DEF NothingPends
<1>c4. Placed'
  BY Placed DEF Placed, UnitsDone, StartupUnits
<1>c5. FencesQueued'
  BY FencesQueued DEF FencesQueued
<1>c6. NoopsQueued'
  BY NoopsQueued DEF NoopsQueued, Crosses
<1>c7. TestsPassed'
  BY TestsPassed DEF TestsPassed, Tested
<1>c8. BufferQueued'
  BY BufferQueued DEF BufferQueued, Works, IbPlace, IbDwords
<1>c9. ReportRight'
  BY ReportRight DEF ReportRight, Works, IbPlace, IbDwords
<1>c10. Ends'
  BY Ends DEF Ends
<1>c11. VerdictsRight'
  BY VerdictsRight DEF VerdictsRight, Works
<1>c12. MonoRight'
  BY MonoRight DEF MonoRight
<1> QED
  BY <1>cpt, <1>cardt, <1>statet, <1>probet, <1>resultst, <1>unreadt, <1>c1, <1>c2, <1>c3, <1>c4, <1>c5, <1>c6, <1>c7, <1>c8, <1>c9, <1>c10, <1>c11, <1>c12 DEF ProbesInv, FieldsKept

LEMMA TestIndirectBufferKeeps ==
  ASSUME ProbesInv, TestIndirectBuffer
  PROVE  ProbesInv'
<1>0. /\ CpKept /\ UnreadKept /\ CardKept /\ StateKept /\ ProbeKept /\ ResultsKept
      /\ CpRuns /\ RingEmpty /\ NothingPends /\ Placed /\ FencesQueued /\ NoopsQueued /\ TestsPassed
      /\ BufferQueued /\ ReportRight /\ Ends /\ VerdictsRight /\ MonoRight
  BY DEF ProbesInv, FieldsKept
<1> USE <1>0
<1>1. CASE cp.Ready /\ ProbeGoes("dispatch") /\ results' = [results EXCEPT !.held = TRUE]
  <2> USE <1>1
  <2>g. probe.at = "indirect"
    BY SMT DEF TestIndirectBuffer, ProbeGoes
  <2>cpf. cp' = cp
    BY SMT DEF TestIndirectBuffer, ProbeGoes
  <2>cpt. CpKept'
    BY <2>cpf DEF CpKept
  <2>cardf. card' = card
    BY SMT DEF TestIndirectBuffer, ProbeGoes
  <2>cardt. CardKept'
    BY <2>cardf DEF CardKept
  <2>statef. state' = state
    BY SMT DEF TestIndirectBuffer, ProbeGoes
  <2>statet. StateKept'
    BY <2>statef DEF StateKept
  <2>probe. probe' = [probe EXCEPT !.at = "dispatch"]
    BY SMT DEF TestIndirectBuffer, ProbeGoes
  <2>probet. ProbeKept'
    BY <2>probe DEF ProbeKept, Place
  <2>probef. /\ probe'.at = "dispatch"
             /\ probe'.case = probe.case
             /\ probe'.accepted = probe.accepted
             /\ probe'.fence = probe.fence
             /\ probe'.poolFence = probe.poolFence
             /\ probe'.pool = probe.pool
    BY <2>probe, ProbeKept DEF ProbeKept
  <2>results. results' = [results EXCEPT !.held = TRUE]
    BY SMT DEF TestIndirectBuffer, ProbeGoes
  <2>resultst. ResultsKept'
    BY <2>results DEF ResultsKept
  <2>resultsf. /\ results'.CpActive = results.CpActive
               /\ results'.fences = results.fences
               /\ results'.FenceOrder = results.FenceOrder
               /\ results'.Future = results.Future
               /\ results'.NearFull = results.NearFull
               /\ results'.WrapBefore = results.WrapBefore
               /\ results'.Wrap = results.Wrap
               /\ results'.held = TRUE
               /\ results'.Mono = results.Mono
               /\ results'.Fallback = results.Fallback
               /\ results'.slots = results.slots
    BY <2>results, ResultsKept DEF ResultsKept
  <2>unreadf. unread' = unread
    BY SMT DEF TestIndirectBuffer, ProbeGoes
  <2>unreadt. UnreadKept'
    BY <2>unreadf DEF UnreadKept
  <2> USE <2>cpf, <2>cardf, <2>statef, <2>probef, <2>resultsf, <2>unreadf, <2>g
  <2>c1. CpRuns'
    BY CpRuns DEF CpRuns, Stops, Works
  <2>c2. RingEmpty'
    BY RingEmpty DEF RingEmpty
  <2>c3. NothingPends'
    BY NothingPends DEF NothingPends
  <2>c4. Placed'
    BY Placed DEF Placed, UnitsDone, StartupUnits
  <2>c5. FencesQueued'
    BY FencesQueued DEF FencesQueued
  <2>c6. NoopsQueued'
    BY NoopsQueued DEF NoopsQueued, Crosses
  <2>c7. TestsPassed'
    BY TestsPassed DEF TestsPassed, Tested
  <2>c8. BufferQueued'
    BY BufferQueued DEF BufferQueued, Works, IbPlace, IbDwords
  <2>c9. ReportRight'
    BY ReportRight DEF ReportRight, Works, IbPlace, IbDwords
  <2>c10. Ends'
    BY Ends DEF Ends
  <2>c11. VerdictsRight'
    BY VerdictsRight DEF VerdictsRight, Works
  <2>c12. MonoRight'
    BY MonoRight DEF MonoRight
  <2> QED
    BY <2>cpt, <2>cardt, <2>statet, <2>probet, <2>resultst, <2>unreadt, <2>c1, <2>c2, <2>c3, <2>c4, <2>c5, <2>c6, <2>c7, <2>c8, <2>c9, <2>c10, <2>c11, <2>c12 DEF ProbesInv, FieldsKept
<1>2. CASE ProbeGoes("fallback") /\ results' = results
  <2> USE <1>2
  <2>g. probe.at = "indirect"
    BY SMT DEF TestIndirectBuffer, ProbeGoes
  <2>cpf. cp' = cp
    BY SMT DEF TestIndirectBuffer, ProbeGoes
  <2>cpt. CpKept'
    BY <2>cpf DEF CpKept
  <2>cardf. card' = card
    BY SMT DEF TestIndirectBuffer, ProbeGoes
  <2>cardt. CardKept'
    BY <2>cardf DEF CardKept
  <2>statef. state' = state
    BY SMT DEF TestIndirectBuffer, ProbeGoes
  <2>statet. StateKept'
    BY <2>statef DEF StateKept
  <2>probe. probe' = [probe EXCEPT !.at = "fallback"]
    BY SMT DEF TestIndirectBuffer, ProbeGoes
  <2>probet. ProbeKept'
    BY <2>probe DEF ProbeKept, Place
  <2>probef. /\ probe'.at = "fallback"
             /\ probe'.case = probe.case
             /\ probe'.accepted = probe.accepted
             /\ probe'.fence = probe.fence
             /\ probe'.poolFence = probe.poolFence
             /\ probe'.pool = probe.pool
    BY <2>probe, ProbeKept DEF ProbeKept
  <2>resultsf. results' = results
    BY SMT DEF TestIndirectBuffer, ProbeGoes
  <2>resultst. ResultsKept'
    BY <2>resultsf DEF ResultsKept
  <2>unreadf. unread' = unread
    BY SMT DEF TestIndirectBuffer, ProbeGoes
  <2>unreadt. UnreadKept'
    BY <2>unreadf DEF UnreadKept
  <2> USE <2>cpf, <2>cardf, <2>statef, <2>probef, <2>resultsf, <2>unreadf, <2>g
  <2>c1. CpRuns'
    BY CpRuns DEF CpRuns, Stops, Works
  <2>c2. RingEmpty'
    BY RingEmpty DEF RingEmpty
  <2>c3. NothingPends'
    BY NothingPends DEF NothingPends
  <2>c4. Placed'
    BY Placed DEF Placed, UnitsDone, StartupUnits
  <2>c5. FencesQueued'
    BY FencesQueued DEF FencesQueued
  <2>c6. NoopsQueued'
    BY NoopsQueued DEF NoopsQueued, Crosses
  <2>c7. TestsPassed'
    BY TestsPassed DEF TestsPassed, Tested
  <2>c8. BufferQueued'
    BY BufferQueued DEF BufferQueued, Works, IbPlace, IbDwords
  <2>c9. ReportRight'
    BY ReportRight DEF ReportRight, Works, IbPlace, IbDwords
  <2>c10. Ends'
    BY Ends DEF Ends
  <2>c11. VerdictsRight'
    BY VerdictsRight DEF VerdictsRight, Works
  <2>c12. MonoRight'
    BY MonoRight DEF MonoRight
  <2> QED
    BY <2>cpt, <2>cardt, <2>statet, <2>probet, <2>resultst, <2>unreadt, <2>c1, <2>c2, <2>c3, <2>c4, <2>c5, <2>c6, <2>c7, <2>c8, <2>c9, <2>c10, <2>c11, <2>c12 DEF ProbesInv, FieldsKept
<1> QED BY <1>1, <1>2, SMT DEF TestIndirectBuffer

LEMMA IbFreeKeeps ==
  ASSUME ProbesInv, IbFree
  PROVE  ProbesInv'
<1>0. /\ CpKept /\ UnreadKept /\ CardKept /\ StateKept /\ ProbeKept /\ ResultsKept
      /\ CpRuns /\ RingEmpty /\ NothingPends /\ Placed /\ FencesQueued /\ NoopsQueued /\ TestsPassed
      /\ BufferQueued /\ ReportRight /\ Ends /\ VerdictsRight /\ MonoRight
  BY DEF ProbesInv, FieldsKept
<1> USE <1>0
<1>g. probe.at = "free"
  BY SMT DEF IbFree, ProbeGoes
<1>cpf. cp' = cp
  BY SMT DEF IbFree, ProbeGoes
<1>cpt. CpKept'
  BY <1>cpf DEF CpKept
<1>cardf. card' = card
  BY SMT DEF IbFree, ProbeGoes
<1>cardt. CardKept'
  BY <1>cardf DEF CardKept
<1>statef. state' = state
  BY SMT DEF IbFree, ProbeGoes
<1>statet. StateKept'
  BY <1>statef DEF StateKept
<1>probe. probe' = [probe EXCEPT !.at = "fallback"]
  BY SMT DEF IbFree, ProbeGoes
<1>probet. ProbeKept'
  BY <1>probe DEF ProbeKept, Place
<1>probef. /\ probe'.at = "fallback"
           /\ probe'.case = probe.case
           /\ probe'.accepted = probe.accepted
           /\ probe'.fence = probe.fence
           /\ probe'.poolFence = probe.poolFence
           /\ probe'.pool = probe.pool
  BY <1>probe, ProbeKept DEF ProbeKept
<1>results. results' = [results EXCEPT !.held = FALSE]
  BY SMT DEF IbFree, ProbeGoes
<1>resultst. ResultsKept'
  BY <1>results DEF ResultsKept
<1>resultsf. /\ results'.CpActive = results.CpActive
             /\ results'.fences = results.fences
             /\ results'.FenceOrder = results.FenceOrder
             /\ results'.Future = results.Future
             /\ results'.NearFull = results.NearFull
             /\ results'.WrapBefore = results.WrapBefore
             /\ results'.Wrap = results.Wrap
             /\ results'.held = FALSE
             /\ results'.Mono = results.Mono
             /\ results'.Fallback = results.Fallback
             /\ results'.slots = results.slots
  BY <1>results, ResultsKept DEF ResultsKept
<1>unreadf. unread' = unread
  BY SMT DEF IbFree, ProbeGoes
<1>unreadt. UnreadKept'
  BY <1>unreadf DEF UnreadKept
<1> USE <1>cpf, <1>cardf, <1>statef, <1>probef, <1>resultsf, <1>unreadf, <1>g
<1>c1. CpRuns'
  BY CpRuns DEF CpRuns, Stops, Works
<1>c2. RingEmpty'
  BY RingEmpty DEF RingEmpty
<1>c3. NothingPends'
  BY NothingPends DEF NothingPends
<1>c4. Placed'
  BY Placed DEF Placed, UnitsDone, StartupUnits
<1>c5. FencesQueued'
  BY FencesQueued DEF FencesQueued
<1>c6. NoopsQueued'
  BY NoopsQueued DEF NoopsQueued, Crosses
<1>c7. TestsPassed'
  BY TestsPassed DEF TestsPassed, Tested
<1>c8. BufferQueued'
  BY BufferQueued DEF BufferQueued, Works, IbPlace, IbDwords
<1>c9. ReportRight'
  BY ReportRight DEF ReportRight, Works, IbPlace, IbDwords
<1>c10. Ends'
  BY Ends DEF Ends
<1>c11. VerdictsRight'
  BY VerdictsRight DEF VerdictsRight, Works
<1>c12. MonoRight'
  BY MonoRight DEF MonoRight
<1> QED
  BY <1>cpt, <1>cardt, <1>statet, <1>probet, <1>resultst, <1>unreadt, <1>c1, <1>c2, <1>c3, <1>c4, <1>c5, <1>c6, <1>c7, <1>c8, <1>c9, <1>c10, <1>c11, <1>c12 DEF ProbesInv, FieldsKept

LEMMA ProbeMonoFromMemoryKeeps ==
  ASSUME ProbesInv, ProbeMonoFromMemory
  PROVE  ProbesInv'
<1>0. /\ CpKept /\ UnreadKept /\ CardKept /\ StateKept /\ ProbeKept /\ ResultsKept
      /\ CpRuns /\ RingEmpty /\ NothingPends /\ Placed /\ FencesQueued /\ NoopsQueued /\ TestsPassed
      /\ BufferQueued /\ ReportRight /\ Ends /\ VerdictsRight /\ MonoRight
  BY DEF ProbesInv, FieldsKept
<1> USE <1>0
<1>1. PICK mono \in {"expands", "wrong", "hangs", "small"} :
        /\ \E e \in IF mono = "hangs" THEN LeftAsIs ELSE Restored2D :
             card' = [card EXCEPT !.mono = mono, !.regs = e.regs, !.shadow = e.shadow]
        /\ results' = [results EXCEPT !.Mono = CASE mono = "small" -> "SKIPPED" [] mono = "hangs" -> "FAILED" [] mono = "wrong" -> "WRONG" [] OTHER -> "OK"]
  BY DEF ProbeMonoFromMemory
<1>2. PICK e \in LeftAsIs \cup Restored2D : card' = [card EXCEPT !.mono = mono, !.regs = e.regs, !.shadow = e.shadow]
  BY <1>1
<1>a. /\ e.regs \in {"probe", "baseline"} /\ e.shadow \in {"unknown", "baseline"}
      /\ e.shadow = "baseline" => e.regs = "baseline"
      /\ mono \in {"expands", "wrong", "hangs", "small"}
  BY DEF LeftAsIs, Restored2D
<1> DEFINE v == CASE mono = "small" -> "SKIPPED" [] mono = "hangs" -> "FAILED" [] mono = "wrong" -> "WRONG" [] OTHER -> "OK"
<1>v. v \in {"none", "OK", "SKIPPED", "FAILED", "WRONG"} /\ (v = "OK" => mono = "expands")
  OBVIOUS
<1>w. results' = [results EXCEPT !.Mono = v]
  BY <1>1
<1> HIDE DEF v
<1>g. probe.at = "mono"
  BY SMT DEF ProbeMonoFromMemory, ProbeGoes
<1>cpf. cp' = cp
  BY SMT DEF ProbeMonoFromMemory, ProbeGoes
<1>cpt. CpKept'
  BY <1>cpf DEF CpKept
<1>card. card' = [card EXCEPT !.mono = mono, !.regs = e.regs, !.shadow = e.shadow]
  BY <1>2 DEF ProbeMonoFromMemory, ProbeGoes
<1>cardt. CardKept'
  BY <1>card, <1>a DEF CardKept
<1>cardf. /\ card'.scratch0 = card.scratch0
          /\ card'.scratch1 = card.scratch1
          /\ card'.hung = card.hung
          /\ card'.crossed = card.crossed
          /\ card'.partition = card.partition
          /\ card'.faults = card.faults
          /\ card'.mono = mono
          /\ card'.regs = e.regs
          /\ card'.shadow = e.shadow
  BY <1>card, CardKept DEF CardKept
<1>statef. state' = state
  BY SMT DEF ProbeMonoFromMemory, ProbeGoes
<1>statet. StateKept'
  BY <1>statef DEF StateKept
<1>probe. probe' = [probe EXCEPT !.at = "open"]
  BY SMT DEF ProbeMonoFromMemory, ProbeGoes
<1>probet. ProbeKept'
  BY <1>probe DEF ProbeKept, Place
<1>probef. /\ probe'.at = "open"
           /\ probe'.case = probe.case
           /\ probe'.accepted = probe.accepted
           /\ probe'.fence = probe.fence
           /\ probe'.poolFence = probe.poolFence
           /\ probe'.pool = probe.pool
  BY <1>probe, ProbeKept DEF ProbeKept
<1>results. results' = [results EXCEPT !.Mono = v]
  BY <1>w DEF ProbeMonoFromMemory, ProbeGoes
<1>resultst. ResultsKept'
  BY <1>results, <1>v DEF ResultsKept
<1>resultsf. /\ results'.CpActive = results.CpActive
             /\ results'.fences = results.fences
             /\ results'.FenceOrder = results.FenceOrder
             /\ results'.Future = results.Future
             /\ results'.NearFull = results.NearFull
             /\ results'.WrapBefore = results.WrapBefore
             /\ results'.Wrap = results.Wrap
             /\ results'.held = results.held
             /\ results'.Mono = v
             /\ results'.Fallback = results.Fallback
             /\ results'.slots = results.slots
  BY <1>results, ResultsKept DEF ResultsKept
<1>unreadf. unread' = unread
  BY SMT DEF ProbeMonoFromMemory, ProbeGoes
<1>unreadt. UnreadKept'
  BY <1>unreadf DEF UnreadKept
<1>c1. CpRuns'
  BY <1>cpf, <1>cardf, <1>statef, <1>probef, <1>resultsf, <1>unreadf, <1>g, CpRuns DEF CpRuns, Stops, Works
<1>c2. RingEmpty'
  BY <1>cpf, <1>cardf, <1>statef, <1>probef, <1>resultsf, <1>unreadf, <1>g, RingEmpty DEF RingEmpty
<1>c3. NothingPends'
  BY <1>cpf, <1>cardf, <1>statef, <1>probef, <1>resultsf, <1>unreadf, <1>g, NothingPends DEF NothingPends
<1>c4. Placed'
  BY <1>cpf, <1>cardf, <1>statef, <1>probef, <1>resultsf, <1>unreadf, <1>g, Placed DEF Placed, UnitsDone, StartupUnits
<1>c5. FencesQueued'
  BY <1>cpf, <1>cardf, <1>statef, <1>probef, <1>resultsf, <1>unreadf, <1>g, FencesQueued DEF FencesQueued
<1>c6. NoopsQueued'
  BY <1>cpf, <1>cardf, <1>statef, <1>probef, <1>resultsf, <1>unreadf, <1>g, NoopsQueued DEF NoopsQueued, Crosses
<1>c7. TestsPassed'
  BY <1>cpf, <1>cardf, <1>statef, <1>probef, <1>resultsf, <1>unreadf, <1>g, TestsPassed DEF TestsPassed, Tested
<1>c8. BufferQueued'
  BY <1>cpf, <1>cardf, <1>statef, <1>probef, <1>resultsf, <1>unreadf, <1>g, BufferQueued DEF BufferQueued, Works, IbPlace, IbDwords
<1>c9. ReportRight'
  BY <1>cpf, <1>cardf, <1>statef, <1>probef, <1>resultsf, <1>unreadf, <1>g, ReportRight DEF ReportRight, Works, IbPlace, IbDwords
<1>c10. Ends'
  BY <1>cpf, <1>cardf, <1>statef, <1>probef, <1>resultsf, <1>unreadf, <1>g, Ends DEF Ends
<1>c11. VerdictsRight'
  BY <1>cpf, <1>cardf, <1>statef, <1>probef, <1>resultsf, <1>unreadf, <1>g, VerdictsRight DEF VerdictsRight, Works
<1>c12. MonoRight'
  <2>1. results'.Mono = "OK" => card'.mono = "expands"
    BY <1>v, <1>resultsf, <1>cardf
  <2>2. card'.shadow = "baseline" => card'.regs = "baseline"
    BY <1>a, <1>cardf
  <2> QED BY <2>1, <2>2 DEF MonoRight
<1> QED
  BY <1>cpt, <1>cardt, <1>statet, <1>probet, <1>resultst, <1>unreadt, <1>c1, <1>c2, <1>c3, <1>c4, <1>c5, <1>c6, <1>c7, <1>c8, <1>c9, <1>c10, <1>c11, <1>c12 DEF ProbesInv, FieldsKept

LEMMA CpFetchesKeeps ==
  ASSUME ProbesInv, CpFetches
  PROVE  ProbesInv'
<1>0. /\ CpKept /\ UnreadKept /\ CardKept /\ StateKept /\ ProbeKept /\ ResultsKept
      /\ CpRuns /\ RingEmpty /\ NothingPends /\ Placed /\ FencesQueued /\ NoopsQueued /\ TestsPassed
      /\ BufferQueued /\ ReportRight /\ Ends /\ VerdictsRight /\ MonoRight
  BY DEF ProbesInv, FieldsKept
<1> USE <1>0
<1>u. unread # <<>> /\ ~card.hung
  BY DEF CpFetches
<1>h. /\ Head(unread) = unread[1] /\ unread[1] \in Commits /\ Len(unread) \in Nat \ {0} /\ Tail(unread) \in Seq(Commits)
      /\ Len(Tail(unread)) = Len(unread) - 1 /\ \A k \in 1 .. Len(unread) - 1 : Tail(unread)[k] = unread[k + 1]
  BY <1>u, UnreadKept, FirstIsHead DEF UnreadKept
<1>one. 1 \in 1 .. Len(unread) /\ cp.NextFence \in Nat
  BY <1>h, CpKept DEF CpKept
<1>r. cp.Ready /\ probe.at \in {"second", "fences", "fill", "filled", "crossed", "answer"}
  BY <1>u, CpRuns, RingEmpty, ProbeKept DEF CpRuns, RingEmpty, ProbeKept, Place
<1>1. CASE Stops(unread[1])
  <2> USE <1>1
  <2>g. unread # <<>>
    BY SMT DEF CpFetches
  <2>cpf. cp' = cp
    BY SMT DEF CpFetches
  <2>cpt. CpKept'
    BY <2>cpf DEF CpKept
  <2>card. card' = [card EXCEPT !.hung = TRUE]
    BY <1>h DEF CpFetches
  <2>cardt. CardKept'
    BY <2>card DEF CardKept
  <2>cardf. /\ card'.scratch0 = card.scratch0
            /\ card'.scratch1 = card.scratch1
            /\ card'.hung = TRUE
            /\ card'.crossed = card.crossed
            /\ card'.partition = card.partition
            /\ card'.faults = card.faults
            /\ card'.mono = card.mono
            /\ card'.regs = card.regs
            /\ card'.shadow = card.shadow
    BY <2>card, CardKept DEF CardKept
  <2>statef. state' = state
    BY SMT DEF CpFetches
  <2>statet. StateKept'
    BY <2>statef DEF StateKept
  <2>probef. probe' = probe
    BY SMT DEF CpFetches
  <2>probet. ProbeKept'
    BY <2>probef DEF ProbeKept
  <2>resultsf. results' = results
    BY SMT DEF CpFetches
  <2>resultst. ResultsKept'
    BY <2>resultsf DEF ResultsKept
  <2>unreadf. unread' = unread
    BY <1>1, <1>h DEF CpFetches
  <2>unreadt. UnreadKept'
    BY <2>unreadf DEF UnreadKept
  <2> USE <2>cpf, <2>cardf, <2>statef, <2>probef, <2>resultsf, <2>unreadf, <2>g
  <2>c1. CpRuns'
    BY CpRuns, <1>u, <1>h, <1>r DEF CpRuns, Stops, Works
  <2>c2. RingEmpty'
    BY RingEmpty DEF RingEmpty
  <2>c3. NothingPends'
    BY NothingPends DEF NothingPends
  <2>c4. Placed'
    BY Placed DEF Placed, UnitsDone, StartupUnits
  <2>c5. FencesQueued'
    BY FencesQueued DEF FencesQueued
  <2>c6. NoopsQueued'
    BY NoopsQueued DEF NoopsQueued, Crosses
  <2>c7. TestsPassed'
    BY TestsPassed DEF TestsPassed, Tested
  <2>c8. BufferQueued'
    BY BufferQueued DEF BufferQueued, Works, IbPlace, IbDwords
  <2>c9. ReportRight'
    BY ReportRight DEF ReportRight, Works, IbPlace, IbDwords
  <2>c10. Ends'
    BY Ends DEF Ends
  <2>c11. VerdictsRight'
    BY VerdictsRight DEF VerdictsRight, Works
  <2>c12. MonoRight'
    BY MonoRight DEF MonoRight
  <2> QED
    BY <2>cpt, <2>cardt, <2>statet, <2>probet, <2>resultst, <2>unreadt, <2>c1, <2>c2, <2>c3, <2>c4, <2>c5, <2>c6, <2>c7, <2>c8, <2>c9, <2>c10, <2>c11, <2>c12 DEF ProbesInv, FieldsKept
<1>2. CASE ~Stops(unread[1])
  <2> USE <1>2
  <2> DEFINE z0 == IF unread[1].what = "noops" THEN card.scratch0 ELSE unread[1].value
             z1 == CASE unread[1].what = "noops" -> unread[1].value
                     [] unread[1].what = "ib" -> TestValue
                     [] OTHER -> card.scratch1
             zc == card.crossed \/ unread[1].at + unread[1].units > ProbeUnits
  <2>card. card' = [card EXCEPT !.scratch0 = z0, !.scratch1 = z1, !.crossed = zc]
    BY <1>2, <1>h DEF CpFetches
  <2>v. unread[1].what \in {"fence", "noops", "ib"} /\ unread[1].value \in Nat
    BY <1>h DEF Commits
  <2>z. /\ z0 \in Int /\ z1 \in Int /\ zc \in BOOLEAN
        /\ unread[1].what = "noops" => z0 = card.scratch0 /\ z1 = unread[1].value
        /\ unread[1].what # "noops" => z0 = unread[1].value
        /\ unread[1].what = "ib" => z1 = TestValue
        /\ unread[1].what = "fence" => z1 = card.scratch1
        /\ (zc <=> card.crossed \/ Crosses(unread[1]))
    BY <2>v, CardKept DEF CardKept, TestValue, Crosses
  <2> HIDE DEF z0, z1, zc
  <2>n. /\ Len(unread') = Len(unread) - 1 /\ \A k \in 1 .. Len(unread') : unread'[k] = unread[k + 1]
        /\ unread' = <<>> <=> Len(unread) = 1
    <3>1. unread' = Tail(unread)
      BY <1>2, <1>h DEF CpFetches
    <3> QED BY <3>1, <1>h, EmptyOrNot DEF UnreadKept
  <2>s. z0 < cp.NextFence
    <3>1. CASE probe.at \in {"second", "fences"}
      <4>1. unread[1].what = "fence" /\ unread[1].value = cp.NextFence - 1 - Len(unread) + 1
        BY <3>1, <1>h, FencesQueued DEF FencesQueued
      <4> QED BY <4>1, <2>z, <1>h, CpKept DEF CpKept
    <3>2. CASE probe.at \in {"fill", "filled", "crossed"}
      <4>1. unread[1].what = "noops"
        BY <3>2, <1>one, NoopsQueued DEF NoopsQueued
      <4>2. card.scratch0 < cp.NextFence
        BY <1>r, CpRuns DEF CpRuns
      <4> QED BY <4>1, <4>2, <2>z
    <3>3. CASE probe.at = "answer"
      <4>1. unread[1].what = "ib" /\ unread[1].value = cp.NextFence - 1
        BY <3>3, <1>u, BufferQueued DEF BufferQueued
      <4> QED BY <4>1, <2>z, CpKept DEF CpKept
    <3> QED BY <3>1, <3>2, <3>3, <1>r
  <2>t. ASSUME NEW k \in 1 .. Len(unread')
        PROVE  unread'[k] = unread[k + 1] /\ k + 1 \in 1 .. Len(unread) /\ k \in Nat
    BY <2>n, <1>h
  <2>g. unread # <<>>
    BY SMT DEF CpFetches
  <2>cpf. cp' = cp
    BY SMT DEF CpFetches
  <2>cpt. CpKept'
    BY <2>cpf DEF CpKept
  <2>cardt. CardKept'
    BY <2>card, <2>z DEF CardKept
  <2>cardf. /\ card'.scratch0 = z0
            /\ card'.scratch1 = z1
            /\ card'.hung = card.hung
            /\ card'.crossed = zc
            /\ card'.partition = card.partition
            /\ card'.faults = card.faults
            /\ card'.mono = card.mono
            /\ card'.regs = card.regs
            /\ card'.shadow = card.shadow
    BY <2>card, CardKept DEF CardKept
  <2>statef. state' = state
    BY SMT DEF CpFetches
  <2>statet. StateKept'
    BY <2>statef DEF StateKept
  <2>probef. probe' = probe
    BY SMT DEF CpFetches
  <2>probet. ProbeKept'
    BY <2>probef DEF ProbeKept
  <2>resultsf. results' = results
    BY SMT DEF CpFetches
  <2>resultst. ResultsKept'
    BY <2>resultsf DEF ResultsKept
  <2>unreadf. unread' = Tail(unread)
    BY <1>2, <1>h DEF CpFetches
  <2>unreadt. UnreadKept'
    BY <2>unreadf, <1>h DEF UnreadKept
  <2>c1. CpRuns'
    BY <2>cpf, <2>cardf, <2>statef, <2>probef, <2>resultsf, <2>unreadf, <2>g, CpRuns, <1>u, <1>r, <2>s DEF CpRuns, Stops, Works
  <2>c2. RingEmpty'
    BY <2>cpf, <2>cardf, <2>statef, <2>probef, <2>resultsf, <2>unreadf, <2>g, RingEmpty, <1>r DEF RingEmpty
  <2>c3. NothingPends'
    BY <2>cpf, <2>cardf, <2>statef, <2>probef, <2>resultsf, <2>unreadf, <2>g, NothingPends DEF NothingPends
  <2>c4. Placed'
    BY <2>cpf, <2>cardf, <2>statef, <2>probef, <2>resultsf, <2>unreadf, <2>g, Placed DEF Placed, UnitsDone, StartupUnits
  <2>c5. FencesQueued'
    <3> SUFFICES ASSUME probe.at \in {"second", "fences"} PROVE FencesQueued'
      BY <2>cpf, <2>cardf, <2>statef, <2>probef, <2>resultsf, <2>unreadf DEF FencesQueued
    <3>1. /\ cp.PendingFence = cp.NextFence - 1 /\ Len(unread) < cp.NextFence
          /\ \A k \in 1 .. Len(unread) : unread[k].what = "fence" /\ unread[k].value = cp.NextFence - 1 - Len(unread) + k
      BY FencesQueued DEF FencesQueued
    <3>2. ASSUME NEW k \in 1 .. Len(unread')
          PROVE  unread'[k].what = "fence" /\ unread'[k].value = cp.NextFence - 1 - Len(unread') + k
      <4>1. unread[k + 1].what = "fence" /\ unread[k + 1].value = cp.NextFence - 1 - Len(unread) + (k + 1)
        BY <3>1, <2>t
      <4>2. cp.NextFence - 1 - Len(unread) + (k + 1) = cp.NextFence - 1 - Len(unread') + k
        <5> DEFINE a == cp.NextFence l == Len(unread) m == Len(unread')
        <5>1. a \in Int /\ l \in Int /\ k \in Int /\ m = l - 1
          BY <2>t, <2>n, <1>h, <1>one
        <5>2. a - 1 - l + (k + 1) = a - 1 - m + k
          <6> HIDE DEF a, l, m
          <6> QED BY <5>1
        <5> QED BY <5>2
      <4> QED BY <4>1, <4>2, <2>t
    <3>3. z0 = cp.NextFence - Len(unread)
      <4>1. unread[1].what = "fence" /\ unread[1].value = cp.NextFence - 1 - Len(unread) + 1
        BY <3>1, <1>h
      <4> QED BY <4>1, <2>z, <1>h, CpKept DEF CpKept
    <3>4. unread' # <<>> => Len(unread) > 1
      BY <2>n, <1>h
    <3>5. Len(unread') < cp.NextFence /\ (unread' # <<>> => z0 < cp.NextFence - 1)
      BY <3>1, <3>3, <3>4, <2>n, <1>h, CpKept DEF CpKept
    <3> QED BY <3>1, <3>2, <3>5, <2>cpf, <2>cardf, <2>statef, <2>probef, <2>resultsf, <2>unreadf DEF FencesQueued
  <2>c6. NoopsQueued'
    <3> SUFFICES ASSUME probe.at \in {"fill", "filled", "crossed"} PROVE NoopsQueued'
      BY <2>cpf, <2>cardf, <2>statef, <2>probef, <2>resultsf, <2>unreadf DEF NoopsQueued
    <3>1. /\ Len(unread) <= cp.DebugSequence
          /\ \A k \in 1 .. Len(unread) :
               /\ unread[k].what = "noops" /\ unread[k].value = cp.DebugSequence - Len(unread) + k
               /\ Crosses(unread[k]) <=> probe.at = "crossed" /\ k = Len(unread)
          /\ probe.at = "fill" => cp.DebugSequence = 0 \/ card.scratch1 = cp.DebugSequence
          /\ card.scratch1 = cp.DebugSequence => unread = <<>> \/ cp.DebugSequence = 1
          /\ probe.at # "fill" => cp.DebugSequence > 0
          /\ probe.at = "crossed" => cp.DebugSequence > 1
      BY NoopsQueued DEF NoopsQueued
    <3>2. ASSUME NEW k \in 1 .. Len(unread')
          PROVE  /\ unread'[k].what = "noops" /\ unread'[k].value = cp.DebugSequence - Len(unread') + k
                 /\ Crosses(unread'[k]) <=> probe.at = "crossed" /\ k = Len(unread')
      <4>1. /\ unread[k + 1].what = "noops" /\ unread[k + 1].value = cp.DebugSequence - Len(unread) + (k + 1)
            /\ Crosses(unread[k + 1]) <=> probe.at = "crossed" /\ k + 1 = Len(unread)
        BY <3>1, <2>t
      <4>2. k + 1 = Len(unread) <=> k = Len(unread')
        BY <2>t, <2>n, <1>h
      <4>3. cp.DebugSequence - Len(unread) + (k + 1) = cp.DebugSequence - Len(unread') + k
        BY <2>t, <2>n, <1>h, CpKept DEF CpKept
      <4> QED BY <4>1, <4>2, <4>3, <2>t
    <3>3. z1 = cp.DebugSequence - Len(unread) + 1 /\ (Crosses(unread[1]) <=> probe.at = "crossed" /\ 1 = Len(unread))
      <4>1. /\ unread[1].what = "noops" /\ unread[1].value = cp.DebugSequence - Len(unread) + 1
            /\ Crosses(unread[1]) <=> probe.at = "crossed" /\ 1 = Len(unread)
        BY <3>1, <1>one, <1>h
      <4> QED BY <4>1, <2>z
    <3>4. z1 = cp.DebugSequence => unread' = <<>>
      BY <3>3, <2>n, <1>h, CpKept DEF CpKept
    <3>5. probe.at = "fill" => z1 = cp.DebugSequence
      BY <3>1, <3>3, <1>u, <1>h, CpKept DEF CpKept
    <3>6. probe.at = "crossed" /\ unread' = <<>> => zc
      BY <3>3, <2>n, <2>z
    <3>7. Len(unread') <= cp.DebugSequence
      BY <3>1, <2>n, <1>h, CpKept DEF CpKept
    <3> QED BY <3>1, <3>2, <3>4, <3>5, <3>6, <3>7, <2>cpf, <2>cardf, <2>statef, <2>probef, <2>resultsf, <2>unreadf DEF NoopsQueued, Crosses
  <2>c7. TestsPassed'
    BY <2>cpf, <2>cardf, <2>statef, <2>probef, <2>resultsf, <2>unreadf, <2>g, TestsPassed, <2>z DEF TestsPassed, Tested
  <2>c8. BufferQueued'
    BY <2>cpf, <2>cardf, <2>statef, <2>probef, <2>resultsf, <2>unreadf, <2>g, BufferQueued, <1>u, <1>h, <1>r, <2>z, <2>n DEF BufferQueued, Works, IbPlace, IbDwords, Stops
  <2>c9. ReportRight'
    BY <2>cpf, <2>cardf, <2>statef, <2>probef, <2>resultsf, <2>unreadf, <2>g, ReportRight, <1>r DEF ReportRight, Works, IbPlace, IbDwords
  <2>c10. Ends'
    BY <2>cpf, <2>cardf, <2>statef, <2>probef, <2>resultsf, <2>unreadf, <2>g, Ends DEF Ends
  <2>c11. VerdictsRight'
    BY <2>cpf, <2>cardf, <2>statef, <2>probef, <2>resultsf, <2>unreadf, <2>g, VerdictsRight DEF VerdictsRight, Works
  <2>c12. MonoRight'
    BY <2>cpf, <2>cardf, <2>statef, <2>probef, <2>resultsf, <2>unreadf, <2>g, MonoRight DEF MonoRight
  <2> QED
    BY <2>cpt, <2>cardt, <2>statet, <2>probet, <2>resultst, <2>unreadt, <2>c1, <2>c2, <2>c3, <2>c4, <2>c5, <2>c6, <2>c7, <2>c8, <2>c9, <2>c10, <2>c11, <2>c12 DEF ProbesInv, FieldsKept
<1> QED BY <1>1, <1>2, SMT DEF CpFetches

LEMMA RunIbCaseKeeps ==
  ASSUME ProbesInv, RunIbCase
  PROVE  ProbesInv'
<1>0. /\ CpKept /\ UnreadKept /\ CardKept /\ StateKept /\ ProbeKept /\ ResultsKept
      /\ CpRuns /\ RingEmpty /\ NothingPends /\ Placed /\ FencesQueued /\ NoopsQueued /\ TestsPassed
      /\ BufferQueued /\ ReportRight /\ Ends /\ VerdictsRight /\ MonoRight
  BY DEF ProbesInv, FieldsKept
<1> USE <1>0
<1>at. probe.at = "dispatch"
  BY DEF RunIbCase
<1>r. cp.Ready /\ unread = <<>> /\ cp.PendingFence = 0 /\ ~card.hung /\ card.partition = Production
  BY <1>at, CpRuns, RingEmpty, NothingPends DEF CpRuns, RingEmpty, NothingPends
<1>i. IbPlace \in Where /\ IbDwords \in Nat
  BY DEF IbPlace, IbDwords, Where
<1> DEFINE q == IF probe.case = 4 THEN "16/80" ELSE card.partition
<1>qq. q \in {Production, "none"} /\ 0 \in Int
  BY CardKept DEF CardKept, Production
<1>q. q = Production /\ q \in {Production, "none"}
  BY <1>r DEF Production
<1>card. card' = [card EXCEPT !.scratch1 = 0, !.partition = q]
  BY DEF RunIbCase
<1> HIDE DEF q
<1>same. state' = state /\ results' = results
  BY DEF RunIbCase
<1>1. CASE Commit([Command("ib", cp.NextFence) EXCEPT !.place = IbPlace, !.dwords = IbDwords], 1) /\ probe' = [probe EXCEPT !.at = "answer", !.accepted = TRUE]
  <2> DEFINE wp == (cp.WritePointer + 1) % ProbeUnits
  <2>w. wp \in 0 .. ProbeUnits - 1
    BY WrapsInside, CpKept DEF CpKept
  <2>noop. [Command("ib", cp.NextFence) EXCEPT !.place = IbPlace, !.dwords = IbDwords].what # "noops" /\ [Command("ib", cp.NextFence) EXCEPT !.place = IbPlace, !.dwords = IbDwords].value = cp.NextFence
    BY DEF Command
  <2>cp. cp' = [cp EXCEPT !.WritePointer = wp, !.NextFence = cp.NextFence + 1, !.PendingFence = cp.NextFence]
    BY <1>1, <2>noop DEF Commit
  <2> HIDE DEF wp
  <2>g. probe.at = "dispatch"
    BY <1>at
  <2>cpk. /\ CpKept' /\ cp'.Ready = cp.Ready /\ cp'.WritePointer = wp /\ cp'.NextFence = cp.NextFence + 1 /\ cp'.PendingFence = cp.NextFence /\ cp'.DebugSequence = cp.DebugSequence
      <3> DEFINE n == cp.NextFence + 1 p == cp.NextFence
      <3>1. n \in Nat \ {0} /\ p \in Nat
        BY CpKept DEF CpKept
      <3>2. cp' = [cp EXCEPT !.WritePointer = wp, !.NextFence = n, !.PendingFence = p]
        BY <2>cp
      <3> HIDE DEF n, p
      <3>3. /\ CpKept' /\ cp'.Ready = cp.Ready /\ cp'.WritePointer = wp /\ cp'.NextFence = n /\ cp'.PendingFence = p /\ cp'.DebugSequence = cp.DebugSequence
        BY <2>w, <3>1, <3>2, CpSubmits
      <3> QED BY <3>3 DEF n, p
    <2>cpt. CpKept'
      BY <2>cpk
  <2>cpf. /\ cp'.Ready = cp.Ready
          /\ cp'.WritePointer = wp
          /\ cp'.NextFence = cp.NextFence + 1
          /\ cp'.PendingFence = cp.NextFence
          /\ cp'.DebugSequence = cp.DebugSequence
    BY <2>cpk
  <2>card. card' = [card EXCEPT !.scratch1 = 0, !.partition = q]
    BY <1>card DEF RunIbCase
  <2>cardt. CardKept'
    BY <2>card, <1>qq DEF CardKept
  <2>cardf. /\ card'.scratch0 = card.scratch0
            /\ card'.scratch1 = 0
            /\ card'.hung = card.hung
            /\ card'.crossed = card.crossed
            /\ card'.partition = q
            /\ card'.faults = card.faults
            /\ card'.mono = card.mono
            /\ card'.regs = card.regs
            /\ card'.shadow = card.shadow
    BY <2>card, CardKept DEF CardKept
  <2>statef. state' = state
    BY <1>same
  <2>statet. StateKept'
    BY <2>statef DEF StateKept
  <2>probe. probe' = [probe EXCEPT !.at = "answer", !.accepted = TRUE]
    BY <1>1 DEF RunIbCase
  <2>probet. ProbeKept'
    BY <2>probe DEF ProbeKept, Place
  <2>probef. /\ probe'.at = "answer"
             /\ probe'.case = probe.case
             /\ probe'.accepted = TRUE
             /\ probe'.fence = probe.fence
             /\ probe'.poolFence = probe.poolFence
             /\ probe'.pool = probe.pool
    BY <2>probe, ProbeKept DEF ProbeKept
  <2>resultsf. results' = results
    BY <1>same
  <2>resultst. ResultsKept'
    BY <2>resultsf DEF ResultsKept
  <2>unread. unread' = Append(unread, [[Command("ib", cp.NextFence) EXCEPT !.place = IbPlace, !.dwords = IbDwords] EXCEPT !.units = 1, !.at = cp.WritePointer])
    BY <1>1 DEF Commit
  <2> DEFINE plain == [Command("ib", cp.NextFence) EXCEPT !.place = IbPlace, !.dwords = IbDwords]
  <2>plain. /\ plain \in Commits /\ plain.what = "ib" /\ plain.value = cp.NextFence /\ plain.place = IbPlace /\ plain.dwords = IbDwords
    BY CpKept, <1>i DEF CpKept, Commits, Where, Command
  <2> HIDE DEF plain
  <2> DEFINE sent == [plain EXCEPT !.units = 1, !.at = cp.WritePointer]
  <2>sent. unread' = Append(unread, sent)
    BY <2>unread DEF plain
  <2>sentt. /\ sent \in Commits /\ sent.what = "ib" /\ sent.value = cp.NextFence /\ sent.place = IbPlace /\ sent.dwords = IbDwords
            /\ sent.units = 1 /\ sent.at = cp.WritePointer
    <3> DEFINE u == 1 a == cp.WritePointer
    <3>1. u \in Nat /\ a \in Nat
      BY CpKept, SizesGood, <1>i DEF CpKept
    <3>2. sent = [plain EXCEPT !.units = u, !.at = a]
      OBVIOUS
    <3> HIDE DEF sent, u, a
    <3>3. /\ sent \in Commits /\ sent.what = plain.what /\ sent.value = plain.value /\ sent.place = plain.place
          /\ sent.dwords = plain.dwords /\ sent.units = u /\ sent.at = a
      BY <2>plain, <3>1, <3>2 DEF Commits
    <3> QED BY <2>plain, <3>3 DEF u, a
  <2> HIDE DEF sent
  <2>unreadt. UnreadKept'
    BY <2>sent, <2>sentt, UnreadKept, Appended DEF UnreadKept
  <2>unreadf. /\ Len(unread') = Len(unread) + 1 /\ Len(unread) \in Nat /\ unread' # <<>>
              /\ \A k \in 1 .. Len(unread) : unread'[k] = unread[k]
              /\ unread'[Len(unread) + 1].what = "ib" /\ unread'[Len(unread) + 1].value = cp.NextFence
              /\ unread'[Len(unread) + 1].at = cp.WritePointer /\ unread'[Len(unread) + 1].units = 1
              /\ unread'[Len(unread) + 1].place = IbPlace /\ unread'[Len(unread) + 1].dwords = IbDwords
    BY <2>sent, <2>sentt, UnreadKept, Appended DEF UnreadKept
  <2>c1. CpRuns'
    BY <2>cpf, <2>cardf, <2>statef, <2>probef, <2>resultsf, <2>unreadf, <2>g, CpRuns, <1>r, <1>q, CpKept, CardKept DEF CpRuns, Stops, Works, CpKept, CardKept
  <2>c2. RingEmpty'
    BY <2>cpf, <2>cardf, <2>statef, <2>probef, <2>resultsf, <2>unreadf, <2>g, RingEmpty DEF RingEmpty
  <2>c3. NothingPends'
    BY <2>cpf, <2>cardf, <2>statef, <2>probef, <2>resultsf, <2>unreadf, <2>g, NothingPends DEF NothingPends
  <2>c4. Placed'
    BY <2>cpf, <2>cardf, <2>statef, <2>probef, <2>resultsf, <2>unreadf, <2>g, Placed DEF Placed, UnitsDone, StartupUnits
  <2>c5. FencesQueued'
    BY <2>cpf, <2>cardf, <2>statef, <2>probef, <2>resultsf, <2>unreadf, <2>g, FencesQueued DEF FencesQueued
  <2>c6. NoopsQueued'
    BY <2>cpf, <2>cardf, <2>statef, <2>probef, <2>resultsf, <2>unreadf, <2>g, NoopsQueued DEF NoopsQueued, Crosses
  <2>c7. TestsPassed'
    BY <2>cpf, <2>cardf, <2>statef, <2>probef, <2>resultsf, <2>unreadf, <2>g, TestsPassed DEF TestsPassed, Tested
  <2>c8. BufferQueued'
    <3>1. Len(unread) = 0
      BY <1>r, UnreadKept, EmptyOrNot DEF UnreadKept
    <3>2. IbPlace' = IbPlace /\ IbDwords' = IbDwords
      BY <2>cpf, <2>cardf, <2>statef, <2>probef, <2>resultsf, <2>unreadf DEF IbPlace, IbDwords
    <3>3. /\ Len(unread') = 1 /\ unread' # <<>> /\ unread'[1].what = "ib" /\ unread'[1].value = cp'.PendingFence
          /\ unread'[1].place = IbPlace' /\ unread'[1].dwords = IbDwords'
      BY <3>1, <3>2, <2>cpf, <2>cardf, <2>statef, <2>probef, <2>resultsf, <2>unreadf
    <3>4. card.scratch0 < cp.NextFence /\ cp.NextFence > 0 /\ cp.NextFence \in Nat /\ card.scratch0 \in Int
      BY <1>r, CpRuns, CpKept, CardKept DEF CpRuns, CpKept, CardKept
    <3>5. card'.scratch0 < cp'.PendingFence /\ cp'.PendingFence = cp'.NextFence - 1 /\ cp'.PendingFence > 0
      BY <3>4, <2>cpf, <2>cardf, <2>statef, <2>probef, <2>resultsf, <2>unreadf
    <3>7. probe'.accepted
      BY <2>cpf, <2>cardf, <2>statef, <2>probef, <2>resultsf, <2>unreadf
    <3>6. ~(unread' = <<>>) /\ Len(unread') = 1
      BY <3>3
    <3> QED BY <3>3, <3>5, <3>6, <3>7, SMT DEF BufferQueued
  <2>c9. ReportRight'
    BY <2>cpf, <2>cardf, <2>statef, <2>probef, <2>resultsf, <2>unreadf, <2>g, ReportRight DEF ReportRight, Works, IbPlace, IbDwords
  <2>c10. Ends'
    BY <2>cpf, <2>cardf, <2>statef, <2>probef, <2>resultsf, <2>unreadf, <2>g, Ends DEF Ends
  <2>c11. VerdictsRight'
    BY <2>cpf, <2>cardf, <2>statef, <2>probef, <2>resultsf, <2>unreadf, <2>g, VerdictsRight DEF VerdictsRight, Works
  <2>c12. MonoRight'
    BY <2>cpf, <2>cardf, <2>statef, <2>probef, <2>resultsf, <2>unreadf, <2>g, MonoRight DEF MonoRight
  <2> QED
    BY <2>cpt, <2>cardt, <2>statet, <2>probet, <2>resultst, <2>unreadt, <2>c1, <2>c2, <2>c3, <2>c4, <2>c5, <2>c6, <2>c7, <2>c8, <2>c9, <2>c10, <2>c11, <2>c12 DEF ProbesInv, FieldsKept
<1>2. CASE \E garbage \in BOOLEAN : probe' = [probe EXCEPT !.at = "report", !.accepted = FALSE, !.fence = garbage] /\ cp' = [cp EXCEPT !.NextFence = cp.NextFence + 1] /\ unread' = unread
  <2>p. PICK garbage \in BOOLEAN : probe' = [probe EXCEPT !.at = "report", !.accepted = FALSE, !.fence = garbage] /\ cp' = [cp EXCEPT !.NextFence = cp.NextFence + 1] /\ unread' = unread
    BY <1>2
  <2>g. probe.at = "dispatch"
    BY <1>at
  <2>cp. cp' = [cp EXCEPT !.NextFence = cp.NextFence + 1]
    BY <2>p DEF RunIbCase
  <2>cpt. CpKept'
    BY <2>cp DEF CpKept
  <2>cpf. /\ cp'.Ready = cp.Ready
          /\ cp'.WritePointer = cp.WritePointer
          /\ cp'.NextFence = cp.NextFence + 1
          /\ cp'.PendingFence = cp.PendingFence
          /\ cp'.DebugSequence = cp.DebugSequence
    BY <2>cp, CpKept DEF CpKept
  <2>card. card' = [card EXCEPT !.scratch1 = 0, !.partition = q]
    BY <1>card DEF RunIbCase
  <2>cardt. CardKept'
    BY <2>card, <1>qq DEF CardKept
  <2>cardf. /\ card'.scratch0 = card.scratch0
            /\ card'.scratch1 = 0
            /\ card'.hung = card.hung
            /\ card'.crossed = card.crossed
            /\ card'.partition = q
            /\ card'.faults = card.faults
            /\ card'.mono = card.mono
            /\ card'.regs = card.regs
            /\ card'.shadow = card.shadow
    BY <2>card, CardKept DEF CardKept
  <2>statef. state' = state
    BY <1>same
  <2>statet. StateKept'
    BY <2>statef DEF StateKept
  <2>probe. probe' = [probe EXCEPT !.at = "report", !.accepted = FALSE, !.fence = garbage]
    BY <2>p DEF RunIbCase
  <2>probet. ProbeKept'
    BY <2>probe DEF ProbeKept, Place
  <2>probef. /\ probe'.at = "report"
             /\ probe'.case = probe.case
             /\ probe'.accepted = FALSE
             /\ probe'.fence = garbage
             /\ probe'.poolFence = probe.poolFence
             /\ probe'.pool = probe.pool
    BY <2>probe, ProbeKept DEF ProbeKept
  <2>resultsf. results' = results
    BY <1>same
  <2>resultst. ResultsKept'
    BY <2>resultsf DEF ResultsKept
  <2>unreadf. unread' = unread
    BY <2>p
  <2>unreadt. UnreadKept'
    BY <2>unreadf DEF UnreadKept
  <2> USE <2>cpf, <2>cardf, <2>statef, <2>probef, <2>resultsf, <2>unreadf, <2>g
  <2>c1. CpRuns'
    BY CpRuns, <1>r, <1>q, CpKept, CardKept DEF CpRuns, Stops, Works, CpKept, CardKept
  <2>c2. RingEmpty'
    BY RingEmpty, <1>r DEF RingEmpty
  <2>c3. NothingPends'
    BY NothingPends, <1>r DEF NothingPends
  <2>c4. Placed'
    BY Placed DEF Placed, UnitsDone, StartupUnits
  <2>c5. FencesQueued'
    BY FencesQueued DEF FencesQueued
  <2>c6. NoopsQueued'
    BY NoopsQueued DEF NoopsQueued, Crosses
  <2>c7. TestsPassed'
    BY TestsPassed DEF TestsPassed, Tested
  <2>c8. BufferQueued'
    BY BufferQueued DEF BufferQueued, Works, IbPlace, IbDwords
  <2>c9. ReportRight'
    BY ReportRight DEF ReportRight, Works, IbPlace, IbDwords
  <2>c10. Ends'
    BY Ends DEF Ends
  <2>c11. VerdictsRight'
    BY VerdictsRight DEF VerdictsRight, Works
  <2>c12. MonoRight'
    BY MonoRight DEF MonoRight
  <2> QED
    BY <2>cpt, <2>cardt, <2>statet, <2>probet, <2>resultst, <2>unreadt, <2>c1, <2>c2, <2>c3, <2>c4, <2>c5, <2>c6, <2>c7, <2>c8, <2>c9, <2>c10, <2>c11, <2>c12 DEF ProbesInv, FieldsKept
<1> QED BY <1>1, <1>2 DEF RunIbCase

LEMMA IbAnsweredKeeps ==
  ASSUME ProbesInv, IbAnswered
  PROVE  ProbesInv'
<1>0. /\ CpKept /\ UnreadKept /\ CardKept /\ StateKept /\ ProbeKept /\ ResultsKept
      /\ CpRuns /\ RingEmpty /\ NothingPends /\ Placed /\ FencesQueued /\ NoopsQueued /\ TestsPassed
      /\ BufferQueued /\ ReportRight /\ Ends /\ VerdictsRight /\ MonoRight
  BY DEF ProbesInv, FieldsKept
<1> USE <1>0
<1>e. unread = <<>> /\ cp.Ready /\ card.scratch1 = TestValue /\ Works(IbPlace, IbDwords)
  <2>1. card.scratch0 >= cp.PendingFence /\ probe.at = "answer"
    BY DEF IbAnswered, FenceReached
  <2> QED BY <2>1, BufferQueued, CardKept, CpKept, CpRuns DEF BufferQueued, CardKept, CpKept, CpRuns
<1>g. probe.at = "answer"
  BY SMT DEF IbAnswered
<1>cp. cp' = [cp EXCEPT !.PendingFence = 0]
  BY SMT DEF IbAnswered
<1>cpt. CpKept'
  BY <1>cp DEF CpKept
<1>cpf. /\ cp'.Ready = cp.Ready
        /\ cp'.WritePointer = cp.WritePointer
        /\ cp'.NextFence = cp.NextFence
        /\ cp'.PendingFence = 0
        /\ cp'.DebugSequence = cp.DebugSequence
  BY <1>cp, CpKept DEF CpKept
<1>cardf. card' = card
  BY SMT DEF IbAnswered
<1>cardt. CardKept'
  BY <1>cardf DEF CardKept
<1>statef. state' = state
  BY SMT DEF IbAnswered
<1>statet. StateKept'
  BY <1>statef DEF StateKept
<1>probe. probe' = [probe EXCEPT !.at = "report", !.fence = TRUE]
  BY SMT DEF IbAnswered
<1>probet. ProbeKept'
  BY <1>probe DEF ProbeKept, Place
<1>probef. /\ probe'.at = "report"
           /\ probe'.case = probe.case
           /\ probe'.accepted = probe.accepted
           /\ probe'.fence = TRUE
           /\ probe'.poolFence = probe.poolFence
           /\ probe'.pool = probe.pool
  BY <1>probe, ProbeKept DEF ProbeKept
<1>resultsf. results' = results
  BY SMT DEF IbAnswered
<1>resultst. ResultsKept'
  BY <1>resultsf DEF ResultsKept
<1>unreadf. unread' = unread
  BY SMT DEF IbAnswered
<1>unreadt. UnreadKept'
  BY <1>unreadf DEF UnreadKept
<1> USE <1>cpf, <1>cardf, <1>statef, <1>probef, <1>resultsf, <1>unreadf, <1>g
<1>c1. CpRuns'
  BY CpRuns, <1>e, CpKept DEF CpRuns, Stops, Works, CpKept
<1>c2. RingEmpty'
  BY RingEmpty, <1>e DEF RingEmpty
<1>c3. NothingPends'
  BY NothingPends DEF NothingPends
<1>c4. Placed'
  BY Placed DEF Placed, UnitsDone, StartupUnits
<1>c5. FencesQueued'
  BY FencesQueued DEF FencesQueued
<1>c6. NoopsQueued'
  BY NoopsQueued DEF NoopsQueued, Crosses
<1>c7. TestsPassed'
  BY TestsPassed DEF TestsPassed, Tested
<1>c8. BufferQueued'
  BY BufferQueued DEF BufferQueued, Works, IbPlace, IbDwords
<1>c9. ReportRight'
  BY ReportRight, <1>e, BufferQueued DEF ReportRight, Works, IbPlace, IbDwords, BufferQueued
<1>c10. Ends'
  BY Ends DEF Ends
<1>c11. VerdictsRight'
  BY VerdictsRight DEF VerdictsRight, Works
<1>c12. MonoRight'
  BY MonoRight DEF MonoRight
<1> QED
  BY <1>cpt, <1>cardt, <1>statet, <1>probet, <1>resultst, <1>unreadt, <1>c1, <1>c2, <1>c3, <1>c4, <1>c5, <1>c6, <1>c7, <1>c8, <1>c9, <1>c10, <1>c11, <1>c12 DEF ProbesInv, FieldsKept

LEMMA IbTimesOutKeeps ==
  ASSUME ProbesInv, IbTimesOut
  PROVE  ProbesInv'
<1>0. /\ CpKept /\ UnreadKept /\ CardKept /\ StateKept /\ ProbeKept /\ ResultsKept
      /\ CpRuns /\ RingEmpty /\ NothingPends /\ Placed /\ FencesQueued /\ NoopsQueued /\ TestsPassed
      /\ BufferQueued /\ ReportRight /\ Ends /\ VerdictsRight /\ MonoRight
  BY DEF ProbesInv, FieldsKept
<1> USE <1>0
<1>at. probe.at = "answer" /\ card.hung /\ RadeonRecoverAcceleration
  BY DEF IbTimesOut
<1>r. cp.Ready /\ ~state.tried /\ card.partition = Production /\ unread # <<>> /\ Stops(Head(unread))
  BY <1>at, CpRuns DEF CpRuns
<1>w. ~Works(IbPlace, IbDwords)
  <2>1. Head(unread) = unread[1]
    BY <1>r, UnreadKept, FirstIsHead DEF UnreadKept
  <2> QED BY <1>at, <1>r, <2>1, BufferQueued DEF BufferQueued, Stops
<1>z. StartupUnits \in 0 .. ProbeUnits - 1 /\ TestValue \in Int
  BY SizesGood DEF StartupUnits, TestValue
<1>probe. probe' = [probe EXCEPT !.at = "report", !.fence = FALSE]
  BY DEF IbTimesOut
<1>1. CASE /\ cp' = [cp EXCEPT !.WritePointer = StartupUnits, !.NextFence = 1, !.PendingFence = 0]
             /\ card' = [card EXCEPT !.hung = FALSE, !.scratch0 = TestValue, !.partition = Production, !.regs = "baseline", !.shadow = "baseline"]
             /\ state' = [accel |-> "READY", service |-> "READY", tried |-> FALSE]
  <2> DEFINE wp == StartupUnits
  <2>w. wp \in 0 .. ProbeUnits - 1
    BY <1>z
  <2>cp. cp' = [cp EXCEPT !.WritePointer = wp, !.NextFence = 1, !.PendingFence = 0]
    BY <1>1
  <2> HIDE DEF wp
  <2>g. probe.at = "answer"
    BY SMT DEF IbTimesOut
  <2>cpk. /\ CpKept' /\ cp'.Ready = cp.Ready /\ cp'.WritePointer = wp /\ cp'.NextFence = 1 /\ cp'.PendingFence = 0 /\ cp'.DebugSequence = cp.DebugSequence
      <3> DEFINE n == 1 p == 0
      <3>1. n \in Nat \ {0} /\ p \in Nat
        BY CpKept DEF CpKept
      <3>2. cp' = [cp EXCEPT !.WritePointer = wp, !.NextFence = n, !.PendingFence = p]
        BY <2>cp
      <3> HIDE DEF n, p
      <3>3. /\ CpKept' /\ cp'.Ready = cp.Ready /\ cp'.WritePointer = wp /\ cp'.NextFence = n /\ cp'.PendingFence = p /\ cp'.DebugSequence = cp.DebugSequence
        BY <2>w, <3>1, <3>2, CpSubmits
      <3> QED BY <3>3 DEF n, p
    <2>cpt. CpKept'
      BY <2>cpk
  <2>cpf. /\ cp'.Ready = cp.Ready
          /\ cp'.WritePointer = wp
          /\ cp'.NextFence = 1
          /\ cp'.PendingFence = 0
          /\ cp'.DebugSequence = cp.DebugSequence
    BY <2>cpk
  <2>card. card' = [card EXCEPT !.hung = FALSE, !.scratch0 = TestValue, !.partition = Production, !.regs = "baseline", !.shadow = "baseline"]
    BY <1>1 DEF IbTimesOut
  <2>cardt. CardKept'
    BY <2>card, <1>z DEF CardKept
  <2>cardf. /\ card'.scratch0 = TestValue
            /\ card'.scratch1 = card.scratch1
            /\ card'.hung = FALSE
            /\ card'.crossed = card.crossed
            /\ card'.partition = Production
            /\ card'.faults = card.faults
            /\ card'.mono = card.mono
            /\ card'.regs = "baseline"
            /\ card'.shadow = "baseline"
    BY <2>card, CardKept DEF CardKept
  <2>statet. StateKept'
    BY <1>1 DEF StateKept
  <2>statef. /\ state'.accel = "READY"
             /\ state'.service = "READY"
             /\ state'.tried = FALSE
    BY <1>1
  <2>probe. probe' = [probe EXCEPT !.at = "report", !.fence = FALSE]
    BY <1>probe DEF IbTimesOut
  <2>probet. ProbeKept'
    BY <2>probe DEF ProbeKept, Place
  <2>probef. /\ probe'.at = "report"
             /\ probe'.case = probe.case
             /\ probe'.accepted = probe.accepted
             /\ probe'.fence = FALSE
             /\ probe'.poolFence = probe.poolFence
             /\ probe'.pool = probe.pool
    BY <2>probe, ProbeKept DEF ProbeKept
  <2>resultsf. results' = results
    BY SMT DEF IbTimesOut
  <2>resultst. ResultsKept'
    BY <2>resultsf DEF ResultsKept
  <2>unreadf. unread' = <<>>
    BY <1>at, <1>r DEF RadeonRecoverAcceleration
  <2>unreadt. UnreadKept'
    BY <2>unreadf DEF UnreadKept
  <2> USE <2>cpf, <2>cardf, <2>statef, <2>probef, <2>resultsf, <2>unreadf, <2>g
  <2>c1. CpRuns'
    BY CpRuns, CpKept DEF CpRuns, Stops, Works, TestValue, CpKept
  <2>c2. RingEmpty'
    BY RingEmpty DEF RingEmpty
  <2>c3. NothingPends'
    BY NothingPends DEF NothingPends
  <2>c4. Placed'
    BY Placed DEF Placed, UnitsDone, StartupUnits
  <2>c5. FencesQueued'
    BY FencesQueued DEF FencesQueued
  <2>c6. NoopsQueued'
    BY NoopsQueued DEF NoopsQueued, Crosses
  <2>c7. TestsPassed'
    BY TestsPassed DEF TestsPassed, Tested
  <2>c8. BufferQueued'
    BY BufferQueued DEF BufferQueued, Works, IbPlace, IbDwords
  <2>c9. ReportRight'
    BY ReportRight, <1>w DEF ReportRight, Works, IbPlace, IbDwords
  <2>c10. Ends'
    BY Ends DEF Ends
  <2>c11. VerdictsRight'
    BY VerdictsRight DEF VerdictsRight, Works
  <2>c12. MonoRight'
    BY MonoRight DEF MonoRight
  <2> QED
    BY <2>cpt, <2>cardt, <2>statet, <2>probet, <2>resultst, <2>unreadt, <2>c1, <2>c2, <2>c3, <2>c4, <2>c5, <2>c6, <2>c7, <2>c8, <2>c9, <2>c10, <2>c11, <2>c12 DEF ProbesInv, FieldsKept
<1>2. CASE /\ cp' = [cp EXCEPT !.Ready = FALSE, !.PendingFence = 0]
             /\ card' = [card EXCEPT !.partition = "none", !.shadow = "unknown"]
             /\ \E a \in {"UNSAFE", "FALLBACK"} : state' = [accel |-> a, service |-> "ATTACHED", tried |-> TRUE]
  <2>p. PICK a \in {"UNSAFE", "FALLBACK"} : state' = [accel |-> a, service |-> "ATTACHED", tried |-> TRUE]
    BY <1>2
  <2>g. probe.at = "answer"
    BY SMT DEF IbTimesOut
  <2>cp. cp' = [cp EXCEPT !.Ready = FALSE, !.PendingFence = 0]
    BY <1>2 DEF IbTimesOut
  <2>cpt. CpKept'
    BY <2>cp DEF CpKept
  <2>cpf. /\ cp'.Ready = FALSE
          /\ cp'.WritePointer = cp.WritePointer
          /\ cp'.NextFence = cp.NextFence
          /\ cp'.PendingFence = 0
          /\ cp'.DebugSequence = cp.DebugSequence
    BY <2>cp, CpKept DEF CpKept
  <2>card. card' = [card EXCEPT !.partition = "none", !.shadow = "unknown"]
    BY <1>2 DEF IbTimesOut
  <2>cardt. CardKept'
    BY <2>card DEF CardKept
  <2>cardf. /\ card'.scratch0 = card.scratch0
            /\ card'.scratch1 = card.scratch1
            /\ card'.hung = card.hung
            /\ card'.crossed = card.crossed
            /\ card'.partition = "none"
            /\ card'.faults = card.faults
            /\ card'.mono = card.mono
            /\ card'.regs = card.regs
            /\ card'.shadow = "unknown"
    BY <2>card, CardKept DEF CardKept
  <2>statet. StateKept'
    BY <2>p DEF StateKept
  <2>statef. /\ state'.accel = a
             /\ state'.service = "ATTACHED"
             /\ state'.tried = TRUE
    BY <2>p
  <2>probe. probe' = [probe EXCEPT !.at = "report", !.fence = FALSE]
    BY <1>probe DEF IbTimesOut
  <2>probet. ProbeKept'
    BY <2>probe DEF ProbeKept, Place
  <2>probef. /\ probe'.at = "report"
             /\ probe'.case = probe.case
             /\ probe'.accepted = probe.accepted
             /\ probe'.fence = FALSE
             /\ probe'.poolFence = probe.poolFence
             /\ probe'.pool = probe.pool
    BY <2>probe, ProbeKept DEF ProbeKept
  <2>resultsf. results' = results
    BY SMT DEF IbTimesOut
  <2>resultst. ResultsKept'
    BY <2>resultsf DEF ResultsKept
  <2>unreadf. unread' = <<>>
    BY <1>at, <1>r DEF RadeonRecoverAcceleration
  <2>unreadt. UnreadKept'
    BY <2>unreadf DEF UnreadKept
  <2> USE <2>cpf, <2>cardf, <2>statef, <2>probef, <2>resultsf, <2>unreadf, <2>g
  <2>c1. CpRuns'
    BY CpRuns, CpKept DEF CpRuns, Stops, Works, TestValue, CpKept
  <2>c2. RingEmpty'
    BY RingEmpty DEF RingEmpty
  <2>c3. NothingPends'
    BY NothingPends DEF NothingPends
  <2>c4. Placed'
    BY Placed DEF Placed, UnitsDone, StartupUnits
  <2>c5. FencesQueued'
    BY FencesQueued DEF FencesQueued
  <2>c6. NoopsQueued'
    BY NoopsQueued DEF NoopsQueued, Crosses
  <2>c7. TestsPassed'
    BY TestsPassed DEF TestsPassed, Tested
  <2>c8. BufferQueued'
    BY BufferQueued DEF BufferQueued, Works, IbPlace, IbDwords
  <2>c9. ReportRight'
    BY ReportRight, <1>w DEF ReportRight, Works, IbPlace, IbDwords
  <2>c10. Ends'
    BY Ends DEF Ends
  <2>c11. VerdictsRight'
    BY VerdictsRight DEF VerdictsRight, Works
  <2>c12. MonoRight'
    BY MonoRight DEF MonoRight
  <2> QED
    BY <2>cpt, <2>cardt, <2>statet, <2>probet, <2>resultst, <2>unreadt, <2>c1, <2>c2, <2>c3, <2>c4, <2>c5, <2>c6, <2>c7, <2>c8, <2>c9, <2>c10, <2>c11, <2>c12 DEF ProbesInv, FieldsKept
<1> QED BY <1>1, <1>2, <1>at, <1>r DEF RadeonRecoverAcceleration, Aborted

LEMMA IbReportKeeps ==
  ASSUME ProbesInv, IbReport
  PROVE  ProbesInv'
<1>0. /\ CpKept /\ UnreadKept /\ CardKept /\ StateKept /\ ProbeKept /\ ResultsKept
      /\ CpRuns /\ RingEmpty /\ NothingPends /\ Placed /\ FencesQueued /\ NoopsQueued /\ TestsPassed
      /\ BufferQueued /\ ReportRight /\ Ends /\ VerdictsRight /\ MonoRight
  BY DEF ProbesInv, FieldsKept
<1> USE <1>0
<1>at. probe.at = "report"
  BY DEF IbReport
<1> DEFINE rec == [place |-> IbPlace, dwords |-> IbDwords, accepted |-> probe.accepted, fence |-> probe.fence,
                   scratch |-> card.scratch1, ready |-> cp.Ready]
<1>rec. /\ rec \in Reports /\ rec.place = IbPlace /\ rec.dwords = IbDwords /\ rec.accepted = probe.accepted
        /\ rec.fence = probe.fence /\ rec.scratch = card.scratch1
  BY CpKept, CardKept, ProbeKept DEF CpKept, CardKept, ProbeKept, Reports, IbPlace, IbDwords, Where
<1>slot. Slot \in 1 .. 3
  BY DEF Slot
<1> DEFINE slots == [results.slots EXCEPT ![Slot] = rec]
<1>results. results' = [results EXCEPT !.slots = slots]
  BY DEF IbReport
<1> HIDE DEF rec
<1>slots. slots \in [1 .. 3 -> Reports] /\ \A s \in 1 .. 3 : slots[s] = IF s = Slot THEN rec ELSE results.slots[s]
  BY <1>slot, <1>rec, ResultsKept DEF ResultsKept
<1> HIDE DEF slots
<1> DEFINE q == RestoredPartition(card.partition)
<1>q. q \in {Production, "none"} /\ (cp.Ready => q = Production)
  BY CardKept, CpRuns, <1>at DEF CardKept, CpRuns, RestoredPartition
<1>card. card' = [card EXCEPT !.partition = q]
  BY DEF IbReport
<1> HIDE DEF q
<1> DEFINE pf == IF probe.case = 2 THEN probe.fence ELSE probe.poolFence
<1>pf. pf \in BOOLEAN
  BY ProbeKept DEF ProbeKept
<1>probe. probe' = [probe EXCEPT !.at = IF cp.Ready /\ probe.case < Cases THEN "dispatch" ELSE "free",
                                 !.case = IF cp.Ready /\ probe.case < Cases THEN probe.case + 1 ELSE probe.case,
                                 !.poolFence = pf]
  BY DEF IbReport
<1> HIDE DEF pf
<1>1. CASE cp.Ready /\ probe.case < Cases
  <2> USE <1>1
  <2>k. probe.case + 1 \in 1 .. 5
    BY ProbeKept DEF ProbeKept, Cases
  <2>g. probe.at = "report"
    BY SMT DEF IbReport
  <2>cpf. cp' = cp
    BY SMT DEF IbReport
  <2>cpt. CpKept'
    BY <2>cpf DEF CpKept
  <2>card. card' = [card EXCEPT !.partition = q]
    BY <1>card DEF IbReport
  <2>cardt. CardKept'
    BY <2>card, <1>q DEF CardKept
  <2>cardf. /\ card'.scratch0 = card.scratch0
            /\ card'.scratch1 = card.scratch1
            /\ card'.hung = card.hung
            /\ card'.crossed = card.crossed
            /\ card'.partition = q
            /\ card'.faults = card.faults
            /\ card'.mono = card.mono
            /\ card'.regs = card.regs
            /\ card'.shadow = card.shadow
    BY <2>card, CardKept DEF CardKept
  <2>statef. state' = state
    BY SMT DEF IbReport
  <2>statet. StateKept'
    BY <2>statef DEF StateKept
  <2>probe. probe' = [probe EXCEPT !.at = "dispatch", !.case = probe.case + 1, !.poolFence = pf]
    BY <1>probe DEF IbReport
  <2>probet. ProbeKept'
    BY <2>probe, <1>pf, <2>k DEF ProbeKept, Place
  <2>probef. /\ probe'.at = "dispatch"
             /\ probe'.case = probe.case + 1
             /\ probe'.accepted = probe.accepted
             /\ probe'.fence = probe.fence
             /\ probe'.poolFence = pf
             /\ probe'.pool = probe.pool
    BY <2>probe, ProbeKept DEF ProbeKept
  <2>results. results' = [results EXCEPT !.slots = slots]
    BY <1>results DEF IbReport
  <2>resultst. ResultsKept'
    BY <2>results, <1>slots DEF ResultsKept
  <2>resultsf. /\ results'.CpActive = results.CpActive
               /\ results'.fences = results.fences
               /\ results'.FenceOrder = results.FenceOrder
               /\ results'.Future = results.Future
               /\ results'.NearFull = results.NearFull
               /\ results'.WrapBefore = results.WrapBefore
               /\ results'.Wrap = results.Wrap
               /\ results'.held = results.held
               /\ results'.Mono = results.Mono
               /\ results'.Fallback = results.Fallback
               /\ results'.slots = slots
    BY <2>results, ResultsKept DEF ResultsKept
  <2>unreadf. unread' = unread
    BY SMT DEF IbReport
  <2>unreadt. UnreadKept'
    BY <2>unreadf DEF UnreadKept
  <2> USE <2>cpf, <2>cardf, <2>statef, <2>probef, <2>resultsf, <2>unreadf, <2>g
  <2>c1. CpRuns'
    BY CpRuns, <1>q DEF CpRuns, Stops, Works
  <2>c2. RingEmpty'
    BY RingEmpty DEF RingEmpty
  <2>c3. NothingPends'
    BY NothingPends DEF NothingPends
  <2>c4. Placed'
    BY Placed DEF Placed, UnitsDone, StartupUnits
  <2>c5. FencesQueued'
    BY FencesQueued DEF FencesQueued
  <2>c6. NoopsQueued'
    BY NoopsQueued DEF NoopsQueued, Crosses
  <2>c7. TestsPassed'
    BY TestsPassed DEF TestsPassed, Tested
  <2>c8. BufferQueued'
    BY BufferQueued DEF BufferQueued, Works, IbPlace, IbDwords
  <2>c9. ReportRight'
    BY ReportRight DEF ReportRight, Works, IbPlace, IbDwords
  <2>c10. Ends'
    BY Ends DEF Ends
  <2>c11. VerdictsRight'
    BY VerdictsRight, <1>slots, <1>rec, ReportRight, <1>at DEF VerdictsRight, Works, ReportRight
  <2>c12. MonoRight'
    BY MonoRight DEF MonoRight
  <2> QED
    BY <2>cpt, <2>cardt, <2>statet, <2>probet, <2>resultst, <2>unreadt, <2>c1, <2>c2, <2>c3, <2>c4, <2>c5, <2>c6, <2>c7, <2>c8, <2>c9, <2>c10, <2>c11, <2>c12 DEF ProbesInv, FieldsKept
<1>2. CASE ~(cp.Ready /\ probe.case < Cases)
  <2> USE <1>2
  <2>g. probe.at = "report"
    BY SMT DEF IbReport
  <2>cpf. cp' = cp
    BY SMT DEF IbReport
  <2>cpt. CpKept'
    BY <2>cpf DEF CpKept
  <2>card. card' = [card EXCEPT !.partition = q]
    BY <1>card DEF IbReport
  <2>cardt. CardKept'
    BY <2>card, <1>q DEF CardKept
  <2>cardf. /\ card'.scratch0 = card.scratch0
            /\ card'.scratch1 = card.scratch1
            /\ card'.hung = card.hung
            /\ card'.crossed = card.crossed
            /\ card'.partition = q
            /\ card'.faults = card.faults
            /\ card'.mono = card.mono
            /\ card'.regs = card.regs
            /\ card'.shadow = card.shadow
    BY <2>card, CardKept DEF CardKept
  <2>statef. state' = state
    BY SMT DEF IbReport
  <2>statet. StateKept'
    BY <2>statef DEF StateKept
  <2>probe. probe' = [probe EXCEPT !.at = "free", !.poolFence = pf]
    BY <1>probe DEF IbReport
  <2>probet. ProbeKept'
    BY <2>probe, <1>pf DEF ProbeKept, Place
  <2>probef. /\ probe'.at = "free"
             /\ probe'.case = probe.case
             /\ probe'.accepted = probe.accepted
             /\ probe'.fence = probe.fence
             /\ probe'.poolFence = pf
             /\ probe'.pool = probe.pool
    BY <2>probe, ProbeKept DEF ProbeKept
  <2>results. results' = [results EXCEPT !.slots = slots]
    BY <1>results DEF IbReport
  <2>resultst. ResultsKept'
    BY <2>results, <1>slots DEF ResultsKept
  <2>resultsf. /\ results'.CpActive = results.CpActive
               /\ results'.fences = results.fences
               /\ results'.FenceOrder = results.FenceOrder
               /\ results'.Future = results.Future
               /\ results'.NearFull = results.NearFull
               /\ results'.WrapBefore = results.WrapBefore
               /\ results'.Wrap = results.Wrap
               /\ results'.held = results.held
               /\ results'.Mono = results.Mono
               /\ results'.Fallback = results.Fallback
               /\ results'.slots = slots
    BY <2>results, ResultsKept DEF ResultsKept
  <2>unreadf. unread' = unread
    BY SMT DEF IbReport
  <2>unreadt. UnreadKept'
    BY <2>unreadf DEF UnreadKept
  <2> USE <2>cpf, <2>cardf, <2>statef, <2>probef, <2>resultsf, <2>unreadf, <2>g
  <2>c1. CpRuns'
    BY CpRuns, <1>q DEF CpRuns, Stops, Works
  <2>c2. RingEmpty'
    BY RingEmpty DEF RingEmpty
  <2>c3. NothingPends'
    BY NothingPends DEF NothingPends
  <2>c4. Placed'
    BY Placed DEF Placed, UnitsDone, StartupUnits
  <2>c5. FencesQueued'
    BY FencesQueued DEF FencesQueued
  <2>c6. NoopsQueued'
    BY NoopsQueued DEF NoopsQueued, Crosses
  <2>c7. TestsPassed'
    BY TestsPassed DEF TestsPassed, Tested
  <2>c8. BufferQueued'
    BY BufferQueued DEF BufferQueued, Works, IbPlace, IbDwords
  <2>c9. ReportRight'
    BY ReportRight DEF ReportRight, Works, IbPlace, IbDwords
  <2>c10. Ends'
    BY Ends DEF Ends
  <2>c11. VerdictsRight'
    BY VerdictsRight, <1>slots, <1>rec, ReportRight, <1>at DEF VerdictsRight, Works, ReportRight
  <2>c12. MonoRight'
    BY MonoRight DEF MonoRight
  <2> QED
    BY <2>cpt, <2>cardt, <2>statet, <2>probet, <2>resultst, <2>unreadt, <2>c1, <2>c2, <2>c3, <2>c4, <2>c5, <2>c6, <2>c7, <2>c8, <2>c9, <2>c10, <2>c11, <2>c12 DEF ProbesInv, FieldsKept
<1> QED BY <1>1, <1>2, SMT DEF IbReport

LEMMA RadeonDebugFallbackProbeKeeps ==
  ASSUME ProbesInv, RadeonDebugFallbackProbe
  PROVE  ProbesInv'
<1>0. /\ CpKept /\ UnreadKept /\ CardKept /\ StateKept /\ ProbeKept /\ ResultsKept
      /\ CpRuns /\ RingEmpty /\ NothingPends /\ Placed /\ FencesQueued /\ NoopsQueued /\ TestsPassed
      /\ BufferQueued /\ ReportRight /\ Ends /\ VerdictsRight /\ MonoRight
  BY DEF ProbesInv, FieldsKept
<1> USE <1>0
<1> DEFINE v == Verdict(state.accel # "UNSAFE")
<1>v. v \in {"passed", "failed"}
  BY DEF Verdict
<1>r. \/ results' = [results EXCEPT !.Fallback = v]
     \/ results' = results
  <2>1. CASE state.accel = "UNSAFE"
    BY <2>1 DEF RadeonDebugFallbackProbe, Drawable, Verdict
  <2>2. CASE state.accel # "UNSAFE"
    BY <2>2 DEF RadeonDebugFallbackProbe, Drawable, Verdict
  <2> QED BY <2>1, <2>2
<1>1. CASE results' = [results EXCEPT !.Fallback = v]
  <2> USE <1>1
  <2> HIDE DEF v
  <2>g. probe.at = "fallback"
    BY SMT DEF RadeonDebugFallbackProbe, ProbeGoes
  <2>cpf. cp' = cp
    BY SMT DEF RadeonDebugFallbackProbe, ProbeGoes
  <2>cpt. CpKept'
    BY <2>cpf DEF CpKept
  <2>cardf. card' = card
    BY SMT DEF RadeonDebugFallbackProbe, ProbeGoes
  <2>cardt. CardKept'
    BY <2>cardf DEF CardKept
  <2>statef. state' = state
    BY SMT DEF RadeonDebugFallbackProbe, ProbeGoes
  <2>statet. StateKept'
    BY <2>statef DEF StateKept
  <2>probe. probe' = [probe EXCEPT !.at = "enable"]
    BY SMT DEF RadeonDebugFallbackProbe, ProbeGoes
  <2>probet. ProbeKept'
    BY <2>probe DEF ProbeKept, Place
  <2>probef. /\ probe'.at = "enable"
             /\ probe'.case = probe.case
             /\ probe'.accepted = probe.accepted
             /\ probe'.fence = probe.fence
             /\ probe'.poolFence = probe.poolFence
             /\ probe'.pool = probe.pool
    BY <2>probe, ProbeKept DEF ProbeKept
  <2>results. results' = [results EXCEPT !.Fallback = v]
    BY <1>1 DEF RadeonDebugFallbackProbe, ProbeGoes
  <2>resultst. ResultsKept'
    BY <2>results, <1>v DEF ResultsKept
  <2>resultsf. /\ results'.CpActive = results.CpActive
               /\ results'.fences = results.fences
               /\ results'.FenceOrder = results.FenceOrder
               /\ results'.Future = results.Future
               /\ results'.NearFull = results.NearFull
               /\ results'.WrapBefore = results.WrapBefore
               /\ results'.Wrap = results.Wrap
               /\ results'.held = results.held
               /\ results'.Mono = results.Mono
               /\ results'.Fallback = v
               /\ results'.slots = results.slots
    BY <2>results, ResultsKept DEF ResultsKept
  <2>unreadf. unread' = unread
    BY SMT DEF RadeonDebugFallbackProbe, ProbeGoes
  <2>unreadt. UnreadKept'
    BY <2>unreadf DEF UnreadKept
  <2> USE <2>cpf, <2>cardf, <2>statef, <2>probef, <2>resultsf, <2>unreadf, <2>g
  <2>c1. CpRuns'
    BY CpRuns DEF CpRuns, Stops, Works
  <2>c2. RingEmpty'
    BY RingEmpty DEF RingEmpty
  <2>c3. NothingPends'
    BY NothingPends DEF NothingPends
  <2>c4. Placed'
    BY Placed DEF Placed, UnitsDone, StartupUnits
  <2>c5. FencesQueued'
    BY FencesQueued DEF FencesQueued
  <2>c6. NoopsQueued'
    BY NoopsQueued DEF NoopsQueued, Crosses
  <2>c7. TestsPassed'
    BY TestsPassed DEF TestsPassed, Tested
  <2>c8. BufferQueued'
    BY BufferQueued DEF BufferQueued, Works, IbPlace, IbDwords
  <2>c9. ReportRight'
    BY ReportRight DEF ReportRight, Works, IbPlace, IbDwords
  <2>c10. Ends'
    BY Ends DEF Ends, v
  <2>c11. VerdictsRight'
    BY VerdictsRight DEF VerdictsRight, Works
  <2>c12. MonoRight'
    BY MonoRight DEF MonoRight
  <2> QED
    BY <2>cpt, <2>cardt, <2>statet, <2>probet, <2>resultst, <2>unreadt, <2>c1, <2>c2, <2>c3, <2>c4, <2>c5, <2>c6, <2>c7, <2>c8, <2>c9, <2>c10, <2>c11, <2>c12 DEF ProbesInv, FieldsKept
<1>2. CASE results' = results
  <2> USE <1>2
  <2>g. probe.at = "fallback"
    BY SMT DEF RadeonDebugFallbackProbe, ProbeGoes
  <2>cpf. cp' = cp
    BY SMT DEF RadeonDebugFallbackProbe, ProbeGoes
  <2>cpt. CpKept'
    BY <2>cpf DEF CpKept
  <2>cardf. card' = card
    BY SMT DEF RadeonDebugFallbackProbe, ProbeGoes
  <2>cardt. CardKept'
    BY <2>cardf DEF CardKept
  <2>statef. state' = state
    BY SMT DEF RadeonDebugFallbackProbe, ProbeGoes
  <2>statet. StateKept'
    BY <2>statef DEF StateKept
  <2>probe. probe' = [probe EXCEPT !.at = "enable"]
    BY SMT DEF RadeonDebugFallbackProbe, ProbeGoes
  <2>probet. ProbeKept'
    BY <2>probe DEF ProbeKept, Place
  <2>probef. /\ probe'.at = "enable"
             /\ probe'.case = probe.case
             /\ probe'.accepted = probe.accepted
             /\ probe'.fence = probe.fence
             /\ probe'.poolFence = probe.poolFence
             /\ probe'.pool = probe.pool
    BY <2>probe, ProbeKept DEF ProbeKept
  <2>resultsf. results' = results
    BY SMT DEF RadeonDebugFallbackProbe, ProbeGoes
  <2>resultst. ResultsKept'
    BY <2>resultsf DEF ResultsKept
  <2>unreadf. unread' = unread
    BY SMT DEF RadeonDebugFallbackProbe, ProbeGoes
  <2>unreadt. UnreadKept'
    BY <2>unreadf DEF UnreadKept
  <2> USE <2>cpf, <2>cardf, <2>statef, <2>probef, <2>resultsf, <2>unreadf, <2>g
  <2>c1. CpRuns'
    BY CpRuns DEF CpRuns, Stops, Works
  <2>c2. RingEmpty'
    BY RingEmpty DEF RingEmpty
  <2>c3. NothingPends'
    BY NothingPends DEF NothingPends
  <2>c4. Placed'
    BY Placed DEF Placed, UnitsDone, StartupUnits
  <2>c5. FencesQueued'
    BY FencesQueued DEF FencesQueued
  <2>c6. NoopsQueued'
    BY NoopsQueued DEF NoopsQueued, Crosses
  <2>c7. TestsPassed'
    BY TestsPassed DEF TestsPassed, Tested
  <2>c8. BufferQueued'
    BY BufferQueued DEF BufferQueued, Works, IbPlace, IbDwords
  <2>c9. ReportRight'
    BY ReportRight DEF ReportRight, Works, IbPlace, IbDwords
  <2>c10. Ends'
    BY Ends DEF Ends
  <2>c11. VerdictsRight'
    BY VerdictsRight DEF VerdictsRight, Works
  <2>c12. MonoRight'
    BY MonoRight DEF MonoRight
  <2> QED
    BY <2>cpt, <2>cardt, <2>statet, <2>probet, <2>resultst, <2>unreadt, <2>c1, <2>c2, <2>c3, <2>c4, <2>c5, <2>c6, <2>c7, <2>c8, <2>c9, <2>c10, <2>c11, <2>c12 DEF ProbesInv, FieldsKept
<1> QED BY <1>r, <1>1, <1>2

LEMMA ProbesDoneKeeps ==
  ASSUME ProbesInv, ProbesDone
  PROVE  ProbesInv'
<1>0. /\ CpKept /\ UnreadKept /\ CardKept /\ StateKept /\ ProbeKept /\ ResultsKept
      /\ CpRuns /\ RingEmpty /\ NothingPends /\ Placed /\ FencesQueued /\ NoopsQueued /\ TestsPassed
      /\ BufferQueued /\ ReportRight /\ Ends /\ VerdictsRight /\ MonoRight
  BY DEF ProbesInv, FieldsKept
<1> USE <1>0
<1>1. CASE cp.Ready
  <2> USE <1>1
  <2>g. probe.at = "enable"
    BY SMT DEF ProbesDone, ProbeGoes
  <2>cpf. cp' = cp
    BY SMT DEF ProbesDone, ProbeGoes
  <2>cpt. CpKept'
    BY <2>cpf DEF CpKept
  <2>cardf. card' = card
    BY SMT DEF ProbesDone, ProbeGoes
  <2>cardt. CardKept'
    BY <2>cardf DEF CardKept
  <2>state. state' = [state EXCEPT !.service = "READY"]
    BY SMT DEF ProbesDone, ProbeGoes
  <2>statet. StateKept'
    BY <2>state DEF StateKept
  <2>statef. /\ state'.accel = state.accel
             /\ state'.service = "READY"
             /\ state'.tried = state.tried
    BY <2>state, StateKept DEF StateKept
  <2>probe. probe' = [probe EXCEPT !.at = "done"]
    BY SMT DEF ProbesDone, ProbeGoes
  <2>probet. ProbeKept'
    BY <2>probe DEF ProbeKept, Place
  <2>probef. /\ probe'.at = "done"
             /\ probe'.case = probe.case
             /\ probe'.accepted = probe.accepted
             /\ probe'.fence = probe.fence
             /\ probe'.poolFence = probe.poolFence
             /\ probe'.pool = probe.pool
    BY <2>probe, ProbeKept DEF ProbeKept
  <2>results. results' = [results EXCEPT !.CpActive = cp.Ready]
    BY SMT DEF ProbesDone, ProbeGoes
  <2>resultst. ResultsKept'
    BY <2>results, CpKept DEF ResultsKept, CpKept
  <2>resultsf. /\ results'.CpActive = cp.Ready
               /\ results'.fences = results.fences
               /\ results'.FenceOrder = results.FenceOrder
               /\ results'.Future = results.Future
               /\ results'.NearFull = results.NearFull
               /\ results'.WrapBefore = results.WrapBefore
               /\ results'.Wrap = results.Wrap
               /\ results'.held = results.held
               /\ results'.Mono = results.Mono
               /\ results'.Fallback = results.Fallback
               /\ results'.slots = results.slots
    BY <2>results, ResultsKept DEF ResultsKept
  <2>unreadf. unread' = unread
    BY SMT DEF ProbesDone, ProbeGoes
  <2>unreadt. UnreadKept'
    BY <2>unreadf DEF UnreadKept
  <2> USE <2>cpf, <2>cardf, <2>statef, <2>probef, <2>resultsf, <2>unreadf, <2>g
  <2>c1. CpRuns'
    BY CpRuns DEF CpRuns, Stops, Works
  <2>c2. RingEmpty'
    BY RingEmpty DEF RingEmpty
  <2>c3. NothingPends'
    BY NothingPends DEF NothingPends
  <2>c4. Placed'
    BY Placed DEF Placed, UnitsDone, StartupUnits
  <2>c5. FencesQueued'
    BY FencesQueued DEF FencesQueued
  <2>c6. NoopsQueued'
    BY NoopsQueued DEF NoopsQueued, Crosses
  <2>c7. TestsPassed'
    BY TestsPassed DEF TestsPassed, Tested
  <2>c8. BufferQueued'
    BY BufferQueued DEF BufferQueued, Works, IbPlace, IbDwords
  <2>c9. ReportRight'
    BY ReportRight DEF ReportRight, Works, IbPlace, IbDwords
  <2>c10. Ends'
    BY Ends DEF Ends
  <2>c11. VerdictsRight'
    BY VerdictsRight DEF VerdictsRight, Works
  <2>c12. MonoRight'
    BY MonoRight DEF MonoRight
  <2> QED
    BY <2>cpt, <2>cardt, <2>statet, <2>probet, <2>resultst, <2>unreadt, <2>c1, <2>c2, <2>c3, <2>c4, <2>c5, <2>c6, <2>c7, <2>c8, <2>c9, <2>c10, <2>c11, <2>c12 DEF ProbesInv, FieldsKept
<1>2. CASE ~cp.Ready
  <2> USE <1>2
  <2>g. probe.at = "enable"
    BY SMT DEF ProbesDone, ProbeGoes
  <2>cpf. cp' = cp
    BY SMT DEF ProbesDone, ProbeGoes
  <2>cpt. CpKept'
    BY <2>cpf DEF CpKept
  <2>cardf. card' = card
    BY SMT DEF ProbesDone, ProbeGoes
  <2>cardt. CardKept'
    BY <2>cardf DEF CardKept
  <2>state. state' = [state EXCEPT !.service = state.service]
    BY SMT DEF ProbesDone, ProbeGoes
  <2>statet. StateKept'
    BY <2>state DEF StateKept
  <2>statef. /\ state'.accel = state.accel
             /\ state'.service = state.service
             /\ state'.tried = state.tried
    BY <2>state, StateKept DEF StateKept
  <2>probe. probe' = [probe EXCEPT !.at = "done"]
    BY SMT DEF ProbesDone, ProbeGoes
  <2>probet. ProbeKept'
    BY <2>probe DEF ProbeKept, Place
  <2>probef. /\ probe'.at = "done"
             /\ probe'.case = probe.case
             /\ probe'.accepted = probe.accepted
             /\ probe'.fence = probe.fence
             /\ probe'.poolFence = probe.poolFence
             /\ probe'.pool = probe.pool
    BY <2>probe, ProbeKept DEF ProbeKept
  <2>results. results' = [results EXCEPT !.CpActive = cp.Ready]
    BY SMT DEF ProbesDone, ProbeGoes
  <2>resultst. ResultsKept'
    BY <2>results, CpKept DEF ResultsKept, CpKept
  <2>resultsf. /\ results'.CpActive = cp.Ready
               /\ results'.fences = results.fences
               /\ results'.FenceOrder = results.FenceOrder
               /\ results'.Future = results.Future
               /\ results'.NearFull = results.NearFull
               /\ results'.WrapBefore = results.WrapBefore
               /\ results'.Wrap = results.Wrap
               /\ results'.held = results.held
               /\ results'.Mono = results.Mono
               /\ results'.Fallback = results.Fallback
               /\ results'.slots = results.slots
    BY <2>results, ResultsKept DEF ResultsKept
  <2>unreadf. unread' = unread
    BY SMT DEF ProbesDone, ProbeGoes
  <2>unreadt. UnreadKept'
    BY <2>unreadf DEF UnreadKept
  <2> USE <2>cpf, <2>cardf, <2>statef, <2>probef, <2>resultsf, <2>unreadf, <2>g
  <2>c1. CpRuns'
    BY CpRuns DEF CpRuns, Stops, Works
  <2>c2. RingEmpty'
    BY RingEmpty DEF RingEmpty
  <2>c3. NothingPends'
    BY NothingPends DEF NothingPends
  <2>c4. Placed'
    BY Placed DEF Placed, UnitsDone, StartupUnits
  <2>c5. FencesQueued'
    BY FencesQueued DEF FencesQueued
  <2>c6. NoopsQueued'
    BY NoopsQueued DEF NoopsQueued, Crosses
  <2>c7. TestsPassed'
    BY TestsPassed DEF TestsPassed, Tested
  <2>c8. BufferQueued'
    BY BufferQueued DEF BufferQueued, Works, IbPlace, IbDwords
  <2>c9. ReportRight'
    BY ReportRight DEF ReportRight, Works, IbPlace, IbDwords
  <2>c10. Ends'
    BY Ends, CpRuns DEF Ends, CpRuns
  <2>c11. VerdictsRight'
    BY VerdictsRight DEF VerdictsRight, Works
  <2>c12. MonoRight'
    BY MonoRight DEF MonoRight
  <2> QED
    BY <2>cpt, <2>cardt, <2>statet, <2>probet, <2>resultst, <2>unreadt, <2>c1, <2>c2, <2>c3, <2>c4, <2>c5, <2>c6, <2>c7, <2>c8, <2>c9, <2>c10, <2>c11, <2>c12 DEF ProbesInv, FieldsKept
<1> QED BY <1>1, <1>2, SMT DEF ProbesDone
------------------------------------------------------------------------------
LEMMA ProbesBegin == ProbesInit => ProbesInv
<1> SUFFICES ASSUME ProbesInit PROVE ProbesInv
  OBVIOUS
<1>1. PICK ready \in BOOLEAN :
        cp = [Ready |-> ready, WritePointer |-> IF ready THEN StartupUnits ELSE 0, NextFence |-> 1,
              PendingFence |-> 0, DebugSequence |-> 0]
  BY DEF ProbesInit
<1>2. PICK faults \in SUBSET Faults, old \in OldScratch :
        card = [scratch0 |-> TestValue, scratch1 |-> old, hung |-> FALSE, crossed |-> FALSE,
                partition |-> IF cp.Ready THEN Production ELSE "none", faults |-> faults,
                mono |-> "expands", regs |-> "baseline", shadow |-> "baseline"]
  BY DEF ProbesInit
<1>3. PICK pool \in BOOLEAN :
        probe = [at |-> "mono", case |-> 1, accepted |-> FALSE, fence |-> FALSE, poolFence |-> FALSE, pool |-> pool]
  BY DEF ProbesInit
<1>4. /\ unread = <<>>
      /\ state = [accel |-> "READY", service |-> "ATTACHED", tried |-> FALSE]
      /\ results = [CpActive |-> FALSE, fences |-> <<>>, FenceOrder |-> FALSE, Future |-> FALSE, NearFull |-> FALSE,
                    WrapBefore |-> 0, Wrap |-> FALSE, held |-> FALSE, Mono |-> "none", Fallback |-> "none",
                    slots |-> [s \in 1 .. 3 |-> NotRun]]
  BY DEF ProbesInit
<1>5. CpKept
  BY <1>1, SizesGood DEF CpKept, StartupUnits
<1>6. old \in Int /\ TestValue \in Int
  BY ScratchAssumption DEF TestValue
<1>7. CardKept
  BY <1>2, <1>6 DEF CardKept
<1>8. ResultsKept
  <2>1. NotRun \in Reports
    BY DEF NotRun, Reports, Where
  <2>2. [s \in 1 .. 3 |-> NotRun] \in [1 .. 3 -> Reports]
    BY <2>1
  <2> DEFINE slots == [s \in 1 .. 3 |-> NotRun] none == <<>>
  <2>3. slots \in [1 .. 3 -> Reports] /\ none \in Seq(Nat)
    BY <2>2
  <2>4. results = [CpActive |-> FALSE, fences |-> none, FenceOrder |-> FALSE, Future |-> FALSE, NearFull |-> FALSE,
                   WrapBefore |-> 0, Wrap |-> FALSE, held |-> FALSE, Mono |-> "none", Fallback |-> "none", slots |-> slots]
    BY <1>4
  <2> HIDE DEF slots, none
  <2> QED BY <2>3, <2>4 DEF ResultsKept
<1>9. StateKept /\ ProbeKept /\ UnreadKept
  BY <1>3, <1>4 DEF StateKept, ProbeKept, UnreadKept, Place
<1>10. probe.at = "mono" /\ unread = <<>> /\ cp.PendingFence = 0 /\ cp.DebugSequence = 0 /\ cp.NextFence = 1 /\ ~card.hung
  BY <1>1, <1>2, <1>3, <1>4
<1>11. CpRuns
  <2>1. card.scratch0 = TestValue /\ card.partition = IF cp.Ready THEN Production ELSE "none"
    BY <1>2
  <2>2. ~state.tried /\ state.service = "ATTACHED"
    BY <1>4
  <2>3. TestValue < 1
    BY DEF TestValue
  <2> QED BY <1>10, <2>1, <2>2, <2>3 DEF CpRuns
<1>12. RingEmpty /\ NothingPends /\ FencesQueued /\ NoopsQueued /\ BufferQueued /\ ReportRight
  BY <1>10 DEF RingEmpty, NothingPends, FencesQueued, NoopsQueued, BufferQueued, ReportRight
<1>13. Placed
  BY <1>10, <1>1 DEF Placed, UnitsDone
<1>14. ~results.Wrap /\ ~results.held /\ results.Fallback = "none" /\ results.Mono = "none" /\ results.slots = [s \in 1 .. 3 |-> NotRun]
  BY <1>4
<1>15. TestsPassed /\ Ends
  BY <1>10, <1>14 DEF TestsPassed, Ends
<1>16. VerdictsRight
  BY <1>14 DEF VerdictsRight, NotRun
<1>17. MonoRight
  BY <1>14, <1>2 DEF MonoRight
<1> QED BY <1>5, <1>7, <1>8, <1>9, <1>11, <1>12, <1>13, <1>15, <1>16, <1>17 DEF ProbesInv, FieldsKept

LEMMA ProbesStep == ProbesInv /\ [ProbesNext]_probevars => ProbesInv'
<1> SUFFICES ASSUME ProbesInv, [ProbesNext]_probevars PROVE ProbesInv'
  OBVIOUS
<1>1. CASE ProbesNext
  BY <1>1, ProbeMonoFromMemoryKeeps, CpFetchesKeeps, RadeonDebugOpenKeeps, TestFirstFenceKeeps, TestSecondFenceKeeps,
     WaitTestFencesKeeps, TestFutureFenceKeeps, TestReserveKeeps, TestFillKeeps, TestFilledKeeps, TestCrossKeeps,
     TestCrossedKeeps, TestsGiveUpKeeps, TestIndirectBufferKeeps, RunIbCaseKeeps, IbAnsweredKeeps, IbTimesOutKeeps,
     IbReportKeeps, IbFreeKeeps, RadeonDebugFallbackProbeKeeps, ProbesDoneKeeps DEF ProbesNext
<1>2. CASE UNCHANGED probevars
  <2>1. cp' = cp /\ unread' = unread /\ card' = card /\ state' = state /\ probe' = probe /\ results' = results
    BY <1>2 DEF probevars
  <2>2. FieldsKept'
    BY <2>1 DEF ProbesInv, FieldsKept, CpKept, UnreadKept, CardKept, StateKept, ProbeKept, ResultsKept
  <2>3. CpRuns' /\ RingEmpty' /\ NothingPends' /\ Placed'
    BY <2>1 DEF ProbesInv, CpRuns, RingEmpty, NothingPends, Placed, UnitsDone, Stops, Works
  <2>4. FencesQueued' /\ NoopsQueued' /\ TestsPassed'
    BY <2>1 DEF ProbesInv, FencesQueued, NoopsQueued, TestsPassed, Tested
  <2>5. BufferQueued' /\ ReportRight'
    BY <2>1 DEF ProbesInv, BufferQueued, ReportRight, Works, IbPlace, IbDwords
  <2>6. Ends' /\ VerdictsRight' /\ MonoRight'
    BY <2>1 DEF ProbesInv, Ends, VerdictsRight, MonoRight, Works
  <2> QED BY <2>2, <2>3, <2>4, <2>5, <2>6 DEF ProbesInv
<1> QED BY <1>1, <1>2

LEMMA ProbesInvSound == ProbesInv => ProbesSound
<1> SUFFICES ASSUME ProbesInv PROVE ProbesSound
  OBVIOUS
<1>1. WrapProven
  BY DEF ProbesInv, TestsPassed, Tested, WrapProven
<1>2. NothingLeftOfProbes
  <2>1. CpRuns /\ RingEmpty /\ Ends
    BY DEF ProbesInv
  <2> SUFFICES ASSUME probe.at = "done" PROVE NothingLeftOfProbes
    BY DEF NothingLeftOfProbes
  <2>2. unread = <<>> /\ (cp.Ready => card.partition = Production /\ ~card.hung)
    BY <2>1 DEF CpRuns, RingEmpty
  <2>3. /\ ~results.held /\ (state.service = "READY" <=> cp.Ready) /\ results.CpActive = cp.Ready
        /\ results.Fallback # "none" => results.Fallback = Verdict(state.accel # "UNSAFE")
    BY <2>1 DEF Ends
  <2> QED BY <2>2, <2>3 DEF NothingLeftOfProbes
<1> QED BY <1>1, <1>2 DEF ProbesInv, ProbesSound

LEMMA ProbesInvTyped == ProbesInv => ProbesTypeOK
<1> SUFFICES ASSUME ProbesInv PROVE ProbesTypeOK
  OBVIOUS
<1>1. CpKept /\ CardKept /\ StateKept /\ ProbeKept /\ ResultsKept /\ CpRuns
  BY DEF ProbesInv, FieldsKept
<1>2. /\ cp.WritePointer \in 0 .. ProbeUnits - 1
      /\ cp.NextFence \in Nat \ {0} /\ cp.PendingFence \in 0 .. cp.NextFence /\ cp.DebugSequence \in Nat
      /\ ~cp.Ready => cp.PendingFence = 0
  BY <1>1, SizesGood DEF CpKept, CpRuns
<1>3. card.faults \subseteq Faults /\ card.partition \in {Production, "none"}
  BY <1>1 DEF CardKept
<1>4. state.service \in {"ATTACHED", "READY"} /\ probe.case \in 1 .. 5
  BY <1>1 DEF StateKept, ProbeKept
<1>5. DOMAIN results.slots = 1 .. 3
  BY <1>1 DEF ResultsKept
<1> QED BY <1>2, <1>3, <1>4, <1>5 DEF ProbesTypeOK

(* The probes leave nothing behind and their verdicts are right, whatever   *)
(* the card fails at.                                                       *)
THEOREM ProbesStaySound == ProbesSpec => [](ProbesSound /\ ProbesTypeOK)
<1>1. ProbesSpec => []ProbesInv
  BY ProbesBegin, ProbesStep, PTL DEF ProbesSpec
<1>2. ProbesInv => ProbesSound /\ ProbesTypeOK
  BY ProbesInvSound, ProbesInvTyped
<1> QED BY <1>1, <1>2, PTL

------------------------------------------------------------------------------
(* The counters.                                                            *)
Stats == [Counters -> Nat]

(* The counters AccountsBalance speaks of, those of time apart.             *)
Balanced ==
  ({"OpCalls", "OpHardware"} \X Ops)
  \cup ({"BoardLockChecks", "FillCalls", "FillHardware", "FillSoftware", "TemplateSoftware", "CompleteHardware"}
          \X {"all"})
Timers == ({"OpTicks"} \X Ops) \cup {C("DrainTicks")}

(* A hook took s to t, counting each of cs once, and no time.               *)
Counted(s, t, cs) ==
  /\ t \in Stats
  /\ \A c \in Balanced : t[c] = IF c \in cs THEN s[c] + 1 ELSE s[c]
  /\ \A c \in Timers : t[c] = s[c]

(* ... and n ticks for op.                                                  *)
TimersOf(op) == {<<"OpTicks", op>>} \cup (IF op = "DRAIN" THEN {C("DrainTicks")} ELSE {})
Charged(s, t, cs, op, n) ==
  /\ t \in Stats
  /\ \A c \in Balanced : t[c] = IF c \in cs THEN s[c] + 1 ELSE s[c]
  /\ \A c \in Timers : t[c] = IF c \in TimersOf(op) THEN s[c] + n ELSE s[c]

(* What a return path counts: at the end of every callback, and the         *)
(* counters of the callback's own version.                                  *)
OpCounts(op, hardware) == {<<"OpCalls", op>>} \cup (IF hardware THEN {<<"OpHardware", op>>} ELSE {})
OwnCounts(op, outcome) ==
  CASE op = "FILL" -> {C("FillCalls"), IF Drew(outcome) THEN C("FillHardware") ELSE C("FillSoftware")}
    [] op = "TEMPLATE" -> IF Fell(outcome) THEN {C("TemplateSoftware")} ELSE {}
    [] op = "COMPLETE" -> IF outcome = "hardware" THEN {C("CompleteHardware")} ELSE {}
    [] OTHER -> {}
Gained(op, outcome) ==
  IF op = "DRAIN" THEN OpCounts(op, FALSE) ELSE OwnCounts(op, outcome) \cup OpCounts(op, Drew(outcome))

LEMMA NamedCounters ==
  /\ \A n \in {"FillCalls", "FillHardware", "FillSoftware", "FillCount", "DrainCount", "DrainTicks", "BoardLockChecks",
         "TemplateCalls", "TemplateSoftware", "CompleteCalls", "CompleteSurfaceReject", "CompleteSubmitCalls",
         "CompleteSubmitSuccess", "CompleteHardware", "CompleteSoftware", "PhaseTicks", "PhaseMaxTicks"} :
       C(n) \in Counters
  /\ \A op \in Ops, n \in {"OpCalls", "OpHardware", "OpSoftware", "OpTicks"} : <<n, op>> \in Counters
  /\ Balanced \subseteq Counters /\ Timers \subseteq Counters
BY DEF Counters, C, Balanced, Timers

LEMMA BumpCounts ==
  ASSUME NEW s \in Stats, NEW cs, cs \cap Timers = {}
  PROVE  Counted(s, Bump(s, cs), cs)
<1>0. DOMAIN s = Counters
  BY DEF Stats
<1>1. Bump(s, cs) \in Stats
  BY <1>0 DEF Bump, Stats
<1>2. \A c \in Counters : Bump(s, cs)[c] = IF c \in cs THEN s[c] + 1 ELSE s[c]
  BY <1>0 DEF Bump
<1> QED
  BY <1>1, <1>2, NamedCounters DEF Counted

(* Counting counters nobody speaks of counts nothing.                       *)
LEMMA CountedOnly ==
  ASSUME NEW s, NEW t, NEW cs, NEW ds, Counted(s, t, cs), cs \cap Balanced = ds \cap Balanced
  PROVE  Counted(s, t, ds)
BY DEF Counted

LEMMA CountedAgain ==
  ASSUME NEW s, NEW t, NEW u, NEW cs, NEW ds, s \in Stats,
         Counted(s, t, cs), Counted(t, u, ds), cs \cap ds = {}
  PROVE  Counted(s, u, cs \cup ds)
BY DEF Counted

LEMMA CountedThenCharged ==
  ASSUME NEW s, NEW t, NEW u, NEW cs, NEW ds, NEW op, NEW n, s \in Stats,
         Counted(s, t, cs), Charged(t, u, ds, op, n), cs \cap ds = {}
  PROVE  Charged(s, u, cs \cup ds, op, n)
BY DEF Counted, Charged

LEMMA AddCharges ==
  ASSUME NEW s \in Stats, NEW op \in Ops \ {"DRAIN"}, NEW n \in Nat
  PROVE  Charged(s, Add(s, <<"OpTicks", op>>, n), {}, op, n)
<1>1. <<"OpTicks", op>> \in Counters
  BY NamedCounters
<1>2. s[<<"OpTicks", op>>] + n \in Nat
  BY <1>1 DEF Stats
<1>3. Add(s, <<"OpTicks", op>>, n) \in Stats
  BY <1>1, <1>2 DEF Add, Stats
<1>4. \A c \in Counters : Add(s, <<"OpTicks", op>>, n)[c] = IF c = <<"OpTicks", op>> THEN s[c] + n ELSE s[c]
  BY <1>1 DEF Add, Stats
<1>5. <<"OpTicks", op>> \notin Balanced
  BY DEF Balanced
<1> QED
  BY <1>3, <1>4, <1>5, NamedCounters DEF Charged, TimersOf

LEMMA AddToPhase ==
  ASSUME NEW s \in Stats, NEW n \in Nat
  PROVE  Counted(s, Add(s, C("PhaseTicks"), n), {})
<1>1. C("PhaseTicks") \in Counters
  BY NamedCounters
<1>2. s[C("PhaseTicks")] + n \in Nat
  BY <1>1 DEF Stats
<1>3. Add(s, C("PhaseTicks"), n) \in Stats
  BY <1>1, <1>2 DEF Add, Stats
<1>4. \A c \in Counters \ {C("PhaseTicks")} : Add(s, C("PhaseTicks"), n)[c] = s[c]
  BY <1>1 DEF Add, Stats
<1>5. C("PhaseTicks") \notin Balanced /\ C("PhaseTicks") \notin Timers
  BY DEF Balanced, Timers, C
<1> QED
  BY <1>3, <1>4, <1>5, NamedCounters DEF Counted

LEMMA OpEndCharges ==
  ASSUME NEW s \in Stats, NEW op \in Ops \ {"DRAIN"}, NEW hardware \in BOOLEAN, Elapsed \in Nat
  PROVE  Charged(s, RadeonDebugOpEnd(s, op, hardware), OpCounts(op, hardware), op, Elapsed)
<1> DEFINE bumped == {<<"OpCalls", op>>, <<IF hardware THEN "OpHardware" ELSE "OpSoftware", op>>}
<1> DEFINE t == Bump(s, bumped)
<1>1. bumped \cap Timers = {}
  BY DEF Timers, C
<1>2. bumped \cap Balanced = OpCounts(op, hardware) \cap Balanced
  BY DEF Balanced, OpCounts
<1> HIDE DEF bumped
<1>3. Counted(s, t, OpCounts(op, hardware))
  <2>1. Counted(s, t, bumped)
    BY <1>1, BumpCounts
  <2> HIDE DEF t
  <2> QED
    BY <1>2, <2>1, CountedOnly
<1>4. t \in Stats
  BY <1>3 DEF Counted
<1>5. RadeonDebugOpEnd(s, op, hardware) = Add(t, <<"OpTicks", op>>, Elapsed)
  BY DEF RadeonDebugOpEnd, t, bumped
<1> HIDE DEF t
<1> DEFINE el == Elapsed
<1>6. el \in Nat
  OBVIOUS
<1> HIDE DEF el
<1>7. Charged(t, Add(t, <<"OpTicks", op>>, el), {}, op, el)
  BY <1>4, <1>6, AddCharges
<1> DEFINE u == Add(t, <<"OpTicks", op>>, el)
<1>8. Charged(t, u, {}, op, el)
  BY <1>7
<1> HIDE DEF u
<1>9. Charged(s, u, OpCounts(op, hardware) \cup {}, op, el)
  BY <1>3, <1>8, CountedThenCharged
<1>10. OpCounts(op, hardware) \cup {} = OpCounts(op, hardware)
  OBVIOUS
<1> QED
  BY <1>5, <1>9, <1>10 DEF u, el
LEMMA BumpCountsOnly ==
  ASSUME NEW s \in Stats, NEW cs, NEW ds, cs \cap Timers = {}, cs \cap Balanced = ds \cap Balanced
  PROVE  Counted(s, Bump(s, cs), ds)
<1> DEFINE t == Bump(s, cs)
<1>1. Counted(s, t, cs)
  BY BumpCounts
<1> HIDE DEF t
<1>2. Counted(s, t, ds)
  BY <1>1, CountedOnly
<1> QED
  BY <1>2 DEF t

LEMMA HooksCount ==
  ASSUME NEW s \in Stats
  PROVE  /\ Counted(s, RadeonDebugEndFill(s), {})
         /\ Counted(s, RadeonDebugTemplateCall(s), {})
         /\ Counted(s, RadeonDebugTemplateSoftware(s), {C("TemplateSoftware")})
         /\ Counted(s, RadeonDebugCompleteCall(s, TRUE), {})
         /\ Counted(s, RadeonDebugCompleteCall(s, FALSE), {})
         /\ Counted(s, RadeonDebugCompleteSubmit(s, TRUE), {C("CompleteHardware")})
         /\ Counted(s, RadeonDebugCompleteSubmit(s, FALSE), {})
         /\ Counted(s, RadeonDebugCompleteSoftware(s), {})
<1>1. Counted(s, RadeonDebugEndFill(s), {})
  <2> DEFINE bumped == {C("FillCount")}
  <2>1. bumped \cap Timers = {} /\ bumped \cap Balanced = {} \cap Balanced
    BY DEF Timers, Balanced, C
  <2>2. RadeonDebugEndFill(s) = Bump(s, bumped)
    BY DEF RadeonDebugEndFill
  <2> HIDE DEF bumped
  <2> QED
    BY <2>1, <2>2, BumpCountsOnly
<1>2. Counted(s, RadeonDebugTemplateCall(s), {})
  <2> DEFINE bumped == {C("TemplateCalls")}
  <2>1. bumped \cap Timers = {} /\ bumped \cap Balanced = {} \cap Balanced
    BY DEF Timers, Balanced, C
  <2>2. RadeonDebugTemplateCall(s) = Bump(s, bumped)
    BY DEF RadeonDebugTemplateCall
  <2> HIDE DEF bumped
  <2> QED
    BY <2>1, <2>2, BumpCountsOnly
<1>3. Counted(s, RadeonDebugTemplateSoftware(s), {C("TemplateSoftware")})
  <2> DEFINE bumped == {C("TemplateSoftware")}
  <2>1. bumped \cap Timers = {} /\ bumped \cap Balanced = {C("TemplateSoftware")} \cap Balanced
    BY DEF Timers, Balanced, C
  <2>2. RadeonDebugTemplateSoftware(s) = Bump(s, bumped)
    BY DEF RadeonDebugTemplateSoftware
  <2> HIDE DEF bumped
  <2> QED
    BY <2>1, <2>2, BumpCountsOnly
<1>4. Counted(s, RadeonDebugCompleteCall(s, TRUE), {})
  <2> DEFINE bumped == {C("CompleteCalls")} \cup {C("CompleteSurfaceReject")}
  <2>1. bumped \cap Timers = {} /\ bumped \cap Balanced = {} \cap Balanced
    BY DEF Timers, Balanced, C
  <2>2. RadeonDebugCompleteCall(s, TRUE) = Bump(s, bumped)
    BY DEF RadeonDebugCompleteCall
  <2> HIDE DEF bumped
  <2> QED
    BY <2>1, <2>2, BumpCountsOnly
<1>5. Counted(s, RadeonDebugCompleteCall(s, FALSE), {})
  <2> DEFINE bumped == {C("CompleteCalls")} \cup {}
  <2>1. bumped \cap Timers = {} /\ bumped \cap Balanced = {} \cap Balanced
    BY DEF Timers, Balanced, C
  <2>2. RadeonDebugCompleteCall(s, FALSE) = Bump(s, bumped)
    BY DEF RadeonDebugCompleteCall
  <2> HIDE DEF bumped
  <2> QED
    BY <2>1, <2>2, BumpCountsOnly
<1>6. Counted(s, RadeonDebugCompleteSubmit(s, TRUE), {C("CompleteHardware")})
  <2> DEFINE bumped == {C("CompleteSubmitCalls")} \cup {C("CompleteSubmitSuccess"), C("CompleteHardware")}
  <2>1. bumped \cap Timers = {} /\ bumped \cap Balanced = {C("CompleteHardware")} \cap Balanced
    BY DEF Timers, Balanced, C
  <2>2. RadeonDebugCompleteSubmit(s, TRUE) = Bump(s, bumped)
    BY DEF RadeonDebugCompleteSubmit
  <2> HIDE DEF bumped
  <2> QED
    BY <2>1, <2>2, BumpCountsOnly
<1>7. Counted(s, RadeonDebugCompleteSubmit(s, FALSE), {})
  <2> DEFINE bumped == {C("CompleteSubmitCalls")} \cup {}
  <2>1. bumped \cap Timers = {} /\ bumped \cap Balanced = {} \cap Balanced
    BY DEF Timers, Balanced, C
  <2>2. RadeonDebugCompleteSubmit(s, FALSE) = Bump(s, bumped)
    BY DEF RadeonDebugCompleteSubmit
  <2> HIDE DEF bumped
  <2> QED
    BY <2>1, <2>2, BumpCountsOnly
<1>8. Counted(s, RadeonDebugCompleteSoftware(s), {})
  <2> DEFINE bumped == {C("CompleteSoftware")}
  <2>1. bumped \cap Timers = {} /\ bumped \cap Balanced = {} \cap Balanced
    BY DEF Timers, Balanced, C
  <2>2. RadeonDebugCompleteSoftware(s) = Bump(s, bumped)
    BY DEF RadeonDebugCompleteSoftware
  <2> HIDE DEF bumped
  <2> QED
    BY <2>1, <2>2, BumpCountsOnly
<1> QED
  BY <1>1, <1>2, <1>3, <1>4, <1>5, <1>6, <1>7, <1>8

LEMMA PhaseCounts ==
  ASSUME NEW s \in Stats, Elapsed \in Nat
  PROVE  Counted(s, RadeonDebugCompletePhase(s), {})
<1> DEFINE el == Elapsed
<1> DEFINE t == Add(s, C("PhaseTicks"), el)
<1> DEFINE most == C("PhaseMaxTicks")
<1>0. el \in Nat
  OBVIOUS
<1>a. RadeonDebugCompletePhase(s) = [t EXCEPT ![most] = IF el > @ THEN el ELSE @]
  BY DEF RadeonDebugCompletePhase, most, t, el
<1> HIDE DEF el
<1>1. Counted(s, t, {})
  BY <1>0, AddToPhase
<1> HIDE DEF t
<1>2. most \in Counters /\ most \notin Balanced /\ most \notin Timers
  BY NamedCounters DEF Balanced, Timers, C
<1> HIDE DEF most
<1>3. t \in Stats
  BY <1>1 DEF Counted
<1> DEFINE u == [t EXCEPT ![most] = IF el > @ THEN el ELSE @]
<1>4. u \in Stats
  BY <1>0, <1>2, <1>3 DEF Stats
<1>5. \A c \in Counters \ {most} : u[c] = t[c]
  BY <1>3 DEF Stats
<1> HIDE DEF u
<1>6. Counted(s, u, {})
  BY <1>1, <1>2, <1>4, <1>5, NamedCounters DEF Counted
<1> QED
  BY <1>6, <1>a DEF u

LEMMA CountsStats ==
  ASSUME NEW s, NEW t, NEW cs, Counted(s, t, cs)
  PROVE  t \in Stats
BY DEF Counted

(* The sets a return path counts have no counter in common.                 *)
LEMMA CountsApart ==
  ASSUME NEW op \in Ops, NEW outcome \in Outcomes, NEW hardware \in BOOLEAN
  PROVE  OwnCounts(op, outcome) \cap OpCounts(op, hardware) = {}
<1>1. \A c \in OpCounts(op, hardware) : c[1] \in {"OpCalls", "OpHardware"}
  BY DEF OpCounts
<1>2. \A c \in OwnCounts(op, outcome) :
        c[1] \in {"FillCalls", "FillHardware", "FillSoftware", "TemplateSoftware", "CompleteHardware"}
  BY DEF OwnCounts, C
<1> QED
  BY <1>1, <1>2

(* What a callback counted before RadeonDebugOpEnd, and what that adds.     *)
LEMMA EndsInOpEnd ==
  ASSUME NEW s \in Stats, NEW t, NEW op \in Ops \ {"DRAIN"}, NEW outcome \in Outcomes, Elapsed \in Nat,
         Counted(s, t, OwnCounts(op, outcome))
  PROVE  Charged(s, RadeonDebugOpEnd(t, op, Drew(outcome)), Gained(op, outcome), op, Elapsed)
<1> DEFINE cs == OwnCounts(op, outcome)
<1> DEFINE hardware == Drew(outcome)
<1> DEFINE u == RadeonDebugOpEnd(t, op, hardware)
<1> DEFINE ds == OpCounts(op, hardware)
<1> DEFINE n == Elapsed
<1>1. t \in Stats
  BY CountsStats
<1>2. hardware \in BOOLEAN
  BY DEF Drew
<1>3. cs \cap ds = {}
  BY <1>2, CountsApart
<1>4. Gained(op, outcome) = cs \cup ds
  BY DEF Gained
<1>5. Counted(s, t, cs)
  OBVIOUS
<1> HIDE DEF hardware
<1>6. Charged(t, u, ds, op, n)
  BY <1>1, <1>2, OpEndCharges
<1> HIDE DEF u, cs, ds, n
<1>7. Charged(s, u, cs \cup ds, op, n)
  BY <1>3, <1>5, <1>6, CountedThenCharged
<1> QED
  BY <1>4, <1>7 DEF u, n, hardware

(* Counting nothing, then cs, counts cs; and the other way round.           *)
LEMMA CountedNothing ==
  ASSUME NEW s \in Stats, NEW t, NEW u, NEW cs
  PROVE  /\ Counted(s, t, {}) /\ Counted(t, u, cs) => Counted(s, u, cs)
         /\ Counted(s, t, cs) /\ Counted(t, u, {}) => Counted(s, u, cs)
         /\ Counted(s, s, {})
BY DEF Counted

LEMMA FillCharges ==
  ASSUME NEW s \in Stats, "FILL" \in Ops, NEW outcome \in Outcomes, outcome # "rejected", Elapsed \in Nat
  PROVE  Charged(s, RadeonFillRect(s, outcome), Gained("FILL", outcome), "FILL", Elapsed)
<1> DEFINE t == IF outcome \in {"software", "blocked"} THEN s ELSE RadeonDebugEndFill(s)
<1> DEFINE bumped == {C("FillCalls"), C(IF Drew(outcome) THEN "FillHardware" ELSE "FillSoftware")}
<1> DEFINE v == Bump(t, bumped)
<1> DEFINE op == "FILL"
<1>1. RadeonFillRect(s, outcome) = RadeonDebugOpEnd(v, op, Drew(outcome))
  BY DEF RadeonFillRect, RadeonDebugEndCall
<1>2. Counted(s, t, {})
  BY HooksCount, CountedNothing
<1> HIDE DEF t
<1>3. t \in Stats
  BY <1>2, CountsStats
<1>4. bumped = OwnCounts(op, outcome)
  BY DEF OwnCounts, C
<1>5. bumped \cap Timers = {}
  BY DEF Timers, C
<1> HIDE DEF bumped
<1>6. Counted(t, v, bumped)
  BY <1>3, <1>5, BumpCounts
<1> HIDE DEF v
<1>7. Counted(s, v, OwnCounts(op, outcome))
  BY <1>2, <1>4, <1>6, CountedNothing
<1>8. op \in Ops \ {"DRAIN"}
  OBVIOUS
<1> HIDE DEF op
<1>9. Charged(s, RadeonDebugOpEnd(v, op, Drew(outcome)), Gained(op, outcome), op, Elapsed)
  BY <1>7, <1>8, EndsInOpEnd
<1> QED
  BY <1>1, <1>9 DEF op

LEMMA InvertCharges ==
  ASSUME NEW s \in Stats, "INVERT" \in Ops, NEW outcome \in Outcomes, Elapsed \in Nat
  PROVE  Charged(s, RadeonInvertRect(s, outcome), Gained("INVERT", outcome), "INVERT", Elapsed)
<1> DEFINE op == "INVERT"
<1>1. RadeonInvertRect(s, outcome) = RadeonDebugOpEnd(s, op, Drew(outcome))
  BY DEF RadeonInvertRect
<1>2. Counted(s, s, {}) /\ OwnCounts(op, outcome) = {}
  BY CountedNothing DEF OwnCounts
<1>3. op \in Ops \ {"DRAIN"}
  OBVIOUS
<1> HIDE DEF op
<1>4. Charged(s, RadeonDebugOpEnd(s, op, Drew(outcome)), Gained(op, outcome), op, Elapsed)
  BY <1>2, <1>3, EndsInOpEnd
<1> QED
  BY <1>1, <1>4 DEF op

LEMMA TemplateCharges ==
  ASSUME NEW s \in Stats, "TEMPLATE" \in Ops, NEW outcome \in Outcomes, Elapsed \in Nat
  PROVE  Charged(s, RadeonBlitTemplate(s, outcome), Gained("TEMPLATE", outcome), "TEMPLATE", Elapsed)
<1> DEFINE op == "TEMPLATE"
<1> DEFINE t == RadeonDebugTemplateCall(s)
<1> DEFINE u == IF Fell(outcome) THEN RadeonDebugTemplateSoftware(t) ELSE t
<1>1. RadeonBlitTemplate(s, outcome) = RadeonDebugOpEnd(u, op, Drew(outcome))
  BY DEF RadeonBlitTemplate
<1>2. Counted(s, t, {})
  BY HooksCount
<1> HIDE DEF t
<1>3. t \in Stats
  BY <1>2, CountsStats
<1>4. Counted(t, u, OwnCounts(op, outcome))
  BY <1>3, HooksCount, CountedNothing DEF OwnCounts
<1>5. op \in Ops \ {"DRAIN"}
  OBVIOUS
<1> HIDE DEF u, op
<1>6. Counted(s, u, OwnCounts(op, outcome))
  BY <1>2, <1>4, CountedNothing
<1>7. Charged(s, RadeonDebugOpEnd(u, op, Drew(outcome)), Gained(op, outcome), op, Elapsed)
  BY <1>5, <1>6, EndsInOpEnd
<1> QED
  BY <1>1, <1>7 DEF op

LEMMA CompleteCharges ==
  ASSUME NEW s \in Stats, "COMPLETE" \in Ops, NEW outcome \in Outcomes, Elapsed \in Nat
  PROVE  Charged(s, RadeonBlitRectNoMaskComplete(s, outcome), Gained("COMPLETE", outcome), "COMPLETE", Elapsed)
<1> DEFINE op == "COMPLETE"
<1> DEFINE p == RadeonDebugCompletePhase(s)
<1> DEFINE t == RadeonDebugCompleteCall(p, outcome = "rejected")
<1> DEFINE u == IF outcome \in {"hardware", "recovered", "lost"} THEN RadeonDebugCompleteSubmit(t, Drew(outcome)) ELSE t
<1> DEFINE w == RadeonDebugCompleteSoftware(u)
<1> DEFINE x == RadeonDebugCompletePhase(w)
<1> DEFINE v == IF Fell(outcome) THEN x ELSE u
<1> DEFINE own == OwnCounts(op, outcome)
<1>1. RadeonBlitRectNoMaskComplete(s, outcome) = RadeonDebugOpEnd(v, op, Drew(outcome))
  BY DEF RadeonBlitRectNoMaskComplete
<1>2. Counted(s, p, {})
  BY PhaseCounts
<1> HIDE DEF p
<1>3. p \in Stats
  BY <1>2, CountsStats
<1>4. Counted(p, t, {})
  <2>1. CASE outcome = "rejected"
    BY <1>3, <2>1, HooksCount
  <2>2. CASE outcome # "rejected"
    BY <1>3, <2>2, HooksCount
  <2> QED
    BY <2>1, <2>2
<1> HIDE DEF t
<1>5. Counted(s, t, {}) /\ t \in Stats
  BY <1>2, <1>4, CountedNothing, CountsStats
<1>6. Counted(t, u, own)
  <2>1. CASE outcome = "hardware"
    <3>1. u = RadeonDebugCompleteSubmit(t, TRUE) /\ own = {C("CompleteHardware")}
      BY <2>1 DEF OwnCounts, Drew
    <3> QED
      BY <1>5, <3>1, HooksCount
  <2>2. CASE outcome \in {"recovered", "lost"}
    <3>0. Drew(outcome) = FALSE
      BY <2>2 DEF Drew
    <3>1. u = RadeonDebugCompleteSubmit(t, FALSE) /\ own = {}
      BY <2>2, <3>0 DEF OwnCounts
    <3> QED
      BY <1>5, <3>1, HooksCount
  <2>3. CASE outcome \notin {"hardware", "recovered", "lost"}
    <3>1. u = t /\ own = {}
      BY <2>3 DEF OwnCounts
    <3> QED
      BY <1>5, <3>1, CountedNothing
  <2> QED
    BY <2>1, <2>2, <2>3
<1>7. op \in Ops \ {"DRAIN"}
  OBVIOUS
<1> HIDE DEF u, own
<1>8. u \in Stats
  BY <1>6, CountsStats
<1>9. Counted(u, w, {})
  BY <1>8, HooksCount
<1> HIDE DEF w
<1>10. Counted(w, x, {})
  BY <1>9, PhaseCounts, CountsStats
<1> HIDE DEF x
<1>11. Counted(u, v, {})
  BY <1>8, <1>9, <1>10, CountedNothing
<1> HIDE DEF v, op
<1>12. Counted(s, u, own)
  BY <1>5, <1>6, CountedNothing
<1>13. Counted(s, v, own)
  BY <1>11, <1>12, CountedNothing
<1>14. Charged(s, RadeonDebugOpEnd(v, op, Drew(outcome)), Gained(op, outcome), op, Elapsed)
  BY <1>7, <1>13, EndsInOpEnd DEF own
<1> QED
  BY <1>1, <1>14 DEF op

LEMMA DrainCharges ==
  ASSUME NEW s \in Stats, "DRAIN" \in Ops, NEW outcome \in Outcomes, Elapsed \in Nat,
         s[<<"OpTicks", "DRAIN">>] = s[C("DrainTicks")]
  PROVE  Charged(s, RadeonDebugEndDrain(s), Gained("DRAIN", outcome), "DRAIN", Elapsed)
<1> DEFINE el == Elapsed
<1> DEFINE bumped == {C("DrainCount"), <<"OpCalls", "DRAIN">>}
<1> DEFINE r == Bump(s, bumped)
<1> DEFINE all == C("DrainTicks")
<1> DEFINE t == Add(r, all, el)
<1> DEFINE ops == <<"OpTicks", "DRAIN">>
<1> DEFINE u == [t EXCEPT ![ops] = t[all]]
<1>1. RadeonDebugEndDrain(s) = u
  BY DEF RadeonDebugEndDrain
<1>2. bumped \cap Timers = {}
  BY DEF Timers, C
<1>3. bumped \cap Balanced = Gained("DRAIN", outcome) \cap Balanced
  BY DEF Balanced, Gained, OpCounts, C
<1> DEFINE cs == Gained("DRAIN", outcome)
<1> HIDE DEF bumped, cs
<1>4. Counted(s, r, cs)
  <2>1. Counted(s, r, bumped)
    BY <1>2, BumpCounts
  <2>2. bumped \cap Balanced = cs \cap Balanced
    BY <1>3 DEF cs
  <2> HIDE DEF r
  <2> QED
    BY <2>1, <2>2, CountedOnly
<1> HIDE DEF r
<1>5. r \in Stats
  BY <1>4, CountsStats
<1>6. all \in Counters /\ ops \in Counters /\ all # ops
  BY NamedCounters DEF C
<1>7. all \in Timers /\ ops \in Timers /\ all \notin Balanced /\ ops \notin Balanced
  BY DEF Timers, Balanced, C
<1>8. TimersOf("DRAIN") = {all, ops}
  BY DEF TimersOf
<1>9. el \in Nat
  OBVIOUS
<1>10. s[ops] = s[all]
  OBVIOUS
<1>x. /\ \A c \in Balanced : r[c] = IF c \in cs THEN s[c] + 1 ELSE s[c]
      /\ \A c \in Timers : r[c] = s[c]
  BY <1>4 DEF Counted
<1> HIDE DEF all, ops, el
<1>11. t \in Stats
  <2>1. r[all] + el \in Nat
    BY <1>5, <1>6, <1>9 DEF Stats
  <2> QED
    BY <1>5, <1>6, <2>1 DEF Add, Stats
<1>12. \A c \in Counters : t[c] = IF c = all THEN r[c] + el ELSE r[c]
  BY <1>5, <1>6 DEF Add, Stats
<1> HIDE DEF t
<1>13. u \in Stats
  BY <1>6, <1>11 DEF Stats
<1>14. \A c \in Counters : u[c] = IF c = ops THEN t[all] ELSE t[c]
  BY <1>6, <1>11 DEF Stats
<1> HIDE DEF u
<1>15. \A c \in Balanced : u[c] = r[c]
  BY <1>7, <1>12, <1>14, NamedCounters
<1>16. u[all] = s[all] + el
  BY <1>6, <1>7, <1>12, <1>14, <1>x
<1>17. u[ops] = s[ops] + el
  BY <1>6, <1>7, <1>10, <1>12, <1>14, <1>x
<1>18. \A c \in Timers \ {all, ops} : u[c] = s[c]
  BY <1>7, <1>12, <1>14, <1>x, NamedCounters
<1> DEFINE op == "DRAIN"
<1>19. TimersOf(op) = {all, ops}
  BY <1>8
<1> HIDE DEF op
<1>20. Charged(s, u, cs, op, el)
  <2>1. \A c \in Balanced : u[c] = IF c \in cs THEN s[c] + 1 ELSE s[c]
    BY <1>15, <1>x
  <2>2. \A c \in Timers : u[c] = IF c \in TimersOf(op) THEN s[c] + el ELSE s[c]
    BY <1>16, <1>17, <1>18, <1>19
  <2> QED
    BY <1>13, <2>1, <2>2 DEF Charged
<1> QED
  BY <1>1, <1>20 DEF cs, op, el

------------------------------------------------------------------------------
(* Times, of any ledger: one call more is one more in every count it is of. *)
Tally(s, ops, outcomes) == Cardinality({d \in s : d[1] \in ops /\ d[2] \in outcomes})

LEMMA TallyOfNone ==
  \A ops, outcomes : Tally({}, ops, outcomes) = 0
<1> TAKE ops, outcomes
<1>1. {d \in {} : d[1] \in ops /\ d[2] \in outcomes} = {}
  OBVIOUS
<1> QED
  BY <1>1, FS_EmptySet DEF Tally

LEMMA TallyIsNatural ==
  ASSUME NEW s, IsFiniteSet(s)
  PROVE  \A ops, outcomes : Tally(s, ops, outcomes) \in Nat
<1> TAKE ops, outcomes
<1> DEFINE t == {d \in s : d[1] \in ops /\ d[2] \in outcomes}
<1>1. t \subseteq s
  OBVIOUS
<1> HIDE DEF t
<1>2. IsFiniteSet(t)
  BY <1>1, FS_Subset
<1>3. Cardinality(t) \in Nat
  BY <1>2, FS_CardinalityType
<1> QED
  BY <1>3 DEF Tally, t

LEMMA TallyGrows ==
  ASSUME NEW s, IsFiniteSet(s), NEW d, d \notin s
  PROVE  \A ops, outcomes :
           Tally(s \cup {d}, ops, outcomes) = Tally(s, ops, outcomes) + (IF d[1] \in ops /\ d[2] \in outcomes THEN 1 ELSE 0)
<1> TAKE ops, outcomes
<1> DEFINE t == {e \in s : e[1] \in ops /\ e[2] \in outcomes}
<1> DEFINE u == {e \in s \cup {d} : e[1] \in ops /\ e[2] \in outcomes}
<1>1. t \subseteq s
  OBVIOUS
<1>2. IsFiniteSet(t)
  BY <1>1, FS_Subset
<1>3. Cardinality(t) \in Nat
  BY <1>2, FS_CardinalityType
<1>4. CASE d[1] \in ops /\ d[2] \in outcomes
  <2>1. u = t \cup {d} /\ d \notin t
    BY <1>4
  <2> HIDE DEF u, t
  <2>2. Cardinality(u) = Cardinality(t) + 1
    BY <1>2, <2>1, FS_AddElement
  <2> QED
    BY <1>4, <2>2 DEF Tally, u, t
<1>5. CASE ~(d[1] \in ops /\ d[2] \in outcomes)
  <2>1. u = t
    BY <1>5
  <2>2. Tally(s \cup {d}, ops, outcomes) = Cardinality(u) /\ Tally(s, ops, outcomes) = Cardinality(t)
    BY DEF Tally
  <2> HIDE DEF u, t
  <2> QED
    BY <1>3, <1>5, <2>1, <2>2
<1> QED
  BY <1>4, <1>5

LEMMA TallyOfFewer ==
  ASSUME NEW s, IsFiniteSet(s), NEW ops, NEW more, ops \subseteq more, NEW outcomes, NEW all, outcomes \subseteq all
  PROVE  Tally(s, ops, outcomes) <= Tally(s, more, all)
<1> DEFINE t == {d \in s : d[1] \in ops /\ d[2] \in outcomes}
<1> DEFINE u == {d \in s : d[1] \in more /\ d[2] \in all}
<1>1. u \subseteq s /\ t \subseteq u
  OBVIOUS
<1> HIDE DEF t, u
<1>2. IsFiniteSet(u)
  BY <1>1, FS_Subset
<1>3. Cardinality(t) <= Cardinality(u)
  BY <1>1, <1>2, FS_Subset
<1> QED
  BY <1>3 DEF Tally, t, u

------------------------------------------------------------------------------
(* The accelerator.  EngineAccounts holds after every function that returns *)
(* to a callback; inside one, a wait may have failed that no recovery has   *)
(* answered yet.                                                            *)
EngineCounted(x) ==
  /\ x \in Accelerators
  /\ x.n["FifoWaitFailures"] + x.n["IdleWaitCalls"] + x.n["TemplateHardware"] <= x.n["FifoWaitCalls"]
  /\ x.n["RecoverySuccess"] + x.n["IdleWaitFailures"] <= x.n["IdleWaitCalls"]
  /\ x.n["RecoveryFailure"] <= x.n["FifoWaitFailures"] + x.n["IdleWaitFailures"]
  /\ x.n["RecoveryFailure"] = IF x.AccelState = "UNSAFE" THEN 1 ELSE 0
  /\ x.n["RecoveryCalls"] = x.n["RecoverySuccess"] + x.n["RecoveryFailure"]
EngineTried(x) ==
  /\ x.AccelState = "UNSAFE" => x.RecoveryTried
  /\ x.RecoveryTried => x.cp # "ready" /\ x.n["RecoveryCalls"] > 0
EngineSound(x) == EngineCounted(x) /\ EngineTried(x)
Answered(x) == x.n["FifoWaitFailures"] + x.n["IdleWaitFailures"] > 0 => x.n["RecoveryCalls"] > 0
EngineInv(x) == EngineSound(x) /\ Answered(x)
Templates(x) == x.n["TemplateHardware"]

(* What a wait leaves, and what a function that recovers leaves.            *)
Waited(x, w) ==
  /\ w.ok \in BOOLEAN /\ EngineCounted(w.accel) /\ Templates(w.accel) = Templates(x)
  /\ w.accel.AccelState = x.AccelState /\ w.accel.RecoveryTried = x.RecoveryTried /\ w.accel.cp = x.cp
  /\ w.accel.n["RecoveryCalls"] = x.n["RecoveryCalls"]
  /\ w.ok /\ Answered(x) => Answered(w.accel)
EngineHeld(x, r) == r.ok \in BOOLEAN /\ EngineInv(r.accel) /\ Templates(r.accel) = Templates(x)

LEMMA EngineInvAccounts ==
  ASSUME NEW x, EngineInv(x)
  PROVE  EngineAccounts(x)
BY DEF EngineInv, EngineSound, EngineCounted, Answered, EngineAccounts

LEMMA NoAccelSound == EngineInv(NoAccel) /\ Templates(NoAccel) = 0
BY DEF EngineInv, EngineSound, EngineCounted, EngineTried, Answered, Templates, NoAccel, Accelerators, EngineCounters

LEMMA WaitedSound ==
  ASSUME NEW x, NEW w, EngineSound(x), Waited(x, w)
  PROVE  EngineSound(w.accel)
BY DEF Waited, EngineSound, EngineTried

(* What the counters do not speak of may change.                            *)
LEMMA SoundAside ==
  ASSUME NEW x, NEW y \in Accelerators, EngineCounted(x), y.n = x.n,
         y.AccelState = "UNSAFE" <=> x.AccelState = "UNSAFE"
  PROVE  /\ EngineCounted(y) /\ (Answered(x) => Answered(y)) /\ Templates(y) = Templates(x)
         /\ EngineTried(x) /\ y.RecoveryTried = x.RecoveryTried /\ (y.cp = x.cp \/ ~x.RecoveryTried) => EngineTried(y)
BY DEF EngineCounted, EngineTried, Answered, Templates

LEMMA InitializedSound ==
  ASSUME NEW x \in InitializedAccel
  PROVE  EngineInv(x) /\ x.n["TemplateHardware"] = 0
<1>1. CASE x = NoAccel
  BY <1>1, NoAccelSound DEF Templates
<1>2. CASE \E p \in {"none", "ready"} : x = [NoAccel EXCEPT !.AccelState = "READY", !.cp = p]
  <2>1. NoAccel \in Accelerators
    BY NoAccelSound DEF EngineInv, EngineSound, EngineCounted
  <2>2. /\ x \in Accelerators /\ x.n = NoAccel.n /\ x.RecoveryTried = NoAccel.RecoveryTried
        /\ ~NoAccel.RecoveryTried /\ x.AccelState = "READY" /\ NoAccel.AccelState = "OFF"
    BY <1>2, <2>1 DEF NoAccel, Accelerators
  <2> QED
    BY <2>2, NoAccelSound, SoundAside DEF EngineInv, EngineSound, Templates
<1> QED
  BY <1>1, <1>2 DEF InitializedAccel

(* The hooks of the engine.                                                 *)
BumpedTo(n, m, cs) ==
  /\ m \in [EngineCounters -> Nat]
  /\ \A c \in EngineCounters : m[c] = IF c \in cs THEN n[c] + 1 ELSE n[c]

LEMMA EngineHooks ==
  ASSUME NEW n \in [EngineCounters -> Nat], NEW ok \in BOOLEAN
  PROVE  /\ BumpedTo(n, RadeonDebugWait(n, "FIFO", ok), {"FifoWaitCalls"} \cup (IF ok THEN {} ELSE {"FifoWaitFailures"}))
         /\ BumpedTo(n, RadeonDebugWait(n, "IDLE", ok), {"IdleWaitCalls"} \cup (IF ok THEN {} ELSE {"IdleWaitFailures"}))
         /\ BumpedTo(n, RadeonDebugRecovery(n, ok), {"RecoveryCalls", IF ok THEN "RecoverySuccess" ELSE "RecoveryFailure"})
         /\ BumpedTo(n, RadeonDebugFallbackDrain(n, ok), {IF ok THEN "FallbackDrainSkipped" ELSE "FallbackDrainRequired"})
         /\ BumpedTo(n, RadeonDebugTemplateHardware(n), {"TemplateHardware"})
<1>1. ASSUME NEW cs
      PROVE  BumpedTo(n, Bump(n, cs), cs)
  <2>1. DOMAIN n = EngineCounters
    OBVIOUS
  <2> QED
    BY <2>1 DEF Bump, BumpedTo
<1> QED
  BY <1>1 DEF RadeonDebugWait, RadeonDebugRecovery, RadeonDebugFallbackDrain, RadeonDebugTemplateHardware

LEMMA WithCounters ==
  ASSUME NEW x \in Accelerators, NEW m \in [EngineCounters -> Nat]
  PROVE  /\ [x EXCEPT !.n = m] \in Accelerators
         /\ [x EXCEPT !.n = m].n = m
         /\ [x EXCEPT !.n = m].AccelState = x.AccelState /\ [x EXCEPT !.n = m].RecoveryTried = x.RecoveryTried
         /\ [x EXCEPT !.n = m].cp = x.cp
BY DEF Accelerators

(* The FIFO has room, and one streamed template or one idle wait may be     *)
(* counted; or it has not.                                                  *)
LEMMA WaitFifoKeeps ==
  ASSUME NEW x, EngineCounted(x), NEW w \in WaitFifo(x)
  PROVE  /\ Waited(x, w)
         /\ w.ok => w.accel.n["FifoWaitFailures"] + w.accel.n["IdleWaitCalls"] + Templates(w.accel) < w.accel.n["FifoWaitCalls"]
         /\ ~w.ok => w.accel.n["RecoveryFailure"] < w.accel.n["FifoWaitFailures"] + w.accel.n["IdleWaitFailures"]
<1>1. x \in Accelerators /\ x.n \in [EngineCounters -> Nat]
  BY DEF EngineCounted, Accelerators
<1>2. PICK ok \in BOOLEAN : w = Returned(ok, [x EXCEPT !.n = RadeonDebugWait(@, "FIFO", ok)])
  BY DEF WaitFifo
<1> DEFINE m == RadeonDebugWait(x.n, "FIFO", ok)
<1>3. BumpedTo(x.n, m, {"FifoWaitCalls"} \cup (IF ok THEN {} ELSE {"FifoWaitFailures"}))
  BY <1>1, EngineHooks
<1>4. w.ok = ok /\ w.accel = [x EXCEPT !.n = m]
  BY <1>2 DEF Returned
<1> HIDE DEF m
<1>5. m \in [EngineCounters -> Nat]
  BY <1>3 DEF BumpedTo
<1>6. /\ w.accel \in Accelerators /\ w.accel.n = m
      /\ w.accel.AccelState = x.AccelState /\ w.accel.RecoveryTried = x.RecoveryTried /\ w.accel.cp = x.cp
  BY <1>1, <1>4, <1>5, WithCounters
<1>7. /\ m["FifoWaitCalls"] = x.n["FifoWaitCalls"] + 1
      /\ m["FifoWaitFailures"] = x.n["FifoWaitFailures"] + (IF ok THEN 0 ELSE 1)
      /\ \A c \in EngineCounters \ {"FifoWaitCalls", "FifoWaitFailures"} : m[c] = x.n[c]
      /\ \A c \in EngineCounters : x.n[c] \in Nat
  BY <1>1, <1>3 DEF BumpedTo, EngineCounters
<1> QED
  BY <1>4, <1>6, <1>7 DEF EngineCounted, Waited, Answered, Templates, EngineCounters

(* A wait that ended in time counted one wait for idle in time.             *)
LEMMA WaitIdleKeeps ==
  ASSUME NEW x, EngineCounted(x), NEW w \in WaitIdleAndFlush(x)
  PROVE  /\ Waited(x, w)
         /\ w.ok => w.accel.n["RecoverySuccess"] + w.accel.n["IdleWaitFailures"] < w.accel.n["IdleWaitCalls"]
         /\ ~w.ok => w.accel.n["RecoveryFailure"] < w.accel.n["FifoWaitFailures"] + w.accel.n["IdleWaitFailures"]
<1>1. x \in Accelerators /\ x.n \in [EngineCounters -> Nat]
  BY DEF EngineCounted, Accelerators
<1>2. CASE w \in WaitFifo(x) /\ ~w.ok
  BY <1>2, WaitFifoKeeps
<1>3. CASE \E ok \in BOOLEAN : w = Returned(ok, [x EXCEPT !.n = RadeonDebugWait(RadeonDebugWait(@, "FIFO", TRUE), "IDLE", ok)])
  <2>1. PICK ok \in BOOLEAN : w = Returned(ok, [x EXCEPT !.n = RadeonDebugWait(RadeonDebugWait(@, "FIFO", TRUE), "IDLE", ok)])
    BY <1>3
  <2> DEFINE l == RadeonDebugWait(x.n, "FIFO", TRUE)
  <2> DEFINE m == RadeonDebugWait(l, "IDLE", ok)
  <2>2. BumpedTo(x.n, l, {"FifoWaitCalls"})
    BY <1>1, EngineHooks
  <2>3. w.ok = ok /\ w.accel = [x EXCEPT !.n = m]
    BY <2>1 DEF Returned
  <2> HIDE DEF l
  <2>4. l \in [EngineCounters -> Nat]
    BY <2>2 DEF BumpedTo
  <2>5. BumpedTo(l, m, {"IdleWaitCalls"} \cup (IF ok THEN {} ELSE {"IdleWaitFailures"}))
    BY <2>4, EngineHooks
  <2> HIDE DEF m
  <2>6. m \in [EngineCounters -> Nat]
    BY <2>5 DEF BumpedTo
  <2>7. /\ w.accel \in Accelerators /\ w.accel.n = m
        /\ w.accel.AccelState = x.AccelState /\ w.accel.RecoveryTried = x.RecoveryTried /\ w.accel.cp = x.cp
    BY <1>1, <2>3, <2>6, WithCounters
  <2>8. /\ m["FifoWaitCalls"] = x.n["FifoWaitCalls"] + 1 /\ m["IdleWaitCalls"] = x.n["IdleWaitCalls"] + 1
        /\ m["IdleWaitFailures"] = x.n["IdleWaitFailures"] + (IF ok THEN 0 ELSE 1)
        /\ \A c \in EngineCounters \ {"FifoWaitCalls", "IdleWaitCalls", "IdleWaitFailures"} : m[c] = x.n[c]
        /\ \A c \in EngineCounters : x.n[c] \in Nat
    BY <1>1, <2>2, <2>5 DEF BumpedTo, EngineCounters
  <2> QED
    BY <2>3, <2>7, <2>8 DEF EngineCounted, Waited, Answered, Templates, EngineCounters
<1> QED
  BY <1>2, <1>3 DEF WaitIdleAndFlush

(* Whatever was not answered is answered by a recovery, the one tried now   *)
(* or one tried before.                                                     *)
LEMMA RecoveredKeeps ==
  ASSUME NEW w, w.ok \in BOOLEAN, EngineCounted(w.accel), w.accel.RecoveryTried, w.accel.cp # "ready",
         w.accel.AccelState # "UNSAFE",
         w.ok => w.accel.n["RecoverySuccess"] + w.accel.n["IdleWaitFailures"] < w.accel.n["IdleWaitCalls"],
         ~w.ok => w.accel.n["RecoveryFailure"] < w.accel.n["FifoWaitFailures"] + w.accel.n["IdleWaitFailures"],
         NEW y \in Recovered(w)
  PROVE  EngineInv(y) /\ Templates(y) = Templates(w.accel)
<1> DEFINE a == w.accel
<1> DEFINE m == RadeonDebugRecovery(a.n, w.ok)
<1> DEFINE x == [a EXCEPT !.n = m]
<1>1. a \in Accelerators /\ a.n \in [EngineCounters -> Nat]
  BY DEF EngineCounted, Accelerators
<1>2. BumpedTo(a.n, m, {"RecoveryCalls", IF w.ok THEN "RecoverySuccess" ELSE "RecoveryFailure"})
  BY <1>1, EngineHooks
<1>3. y \in IF ~w.ok THEN {[x EXCEPT !.AccelState = "UNSAFE"]}
            ELSE {[x EXCEPT !.AccelState = "FALLBACK"]} \cup (IF x.cp = "none" THEN {} ELSE {CpRecovered(x)})
  BY DEF Recovered
<1> HIDE DEF m
<1>4. m \in [EngineCounters -> Nat]
  BY <1>2 DEF BumpedTo
<1>5. x \in Accelerators /\ x.n = m /\ x.RecoveryTried = a.RecoveryTried /\ x.cp = a.cp
  BY <1>1, <1>4, WithCounters
<1> HIDE DEF x
<1>6. /\ y \in Accelerators /\ y.n = m /\ (y.AccelState = "UNSAFE" <=> ~w.ok)
      /\ IF y.RecoveryTried THEN y.cp # "ready" ELSE w.ok
  BY <1>3, <1>5 DEF CpRecovered, Accelerators
<1>7. /\ m["RecoveryCalls"] = a.n["RecoveryCalls"] + 1
      /\ m["RecoverySuccess"] = a.n["RecoverySuccess"] + (IF w.ok THEN 1 ELSE 0)
      /\ m["RecoveryFailure"] = a.n["RecoveryFailure"] + (IF w.ok THEN 0 ELSE 1)
      /\ \A c \in EngineCounters \ {"RecoveryCalls", "RecoverySuccess", "RecoveryFailure"} : m[c] = a.n[c]
      /\ \A c \in EngineCounters : a.n[c] \in Nat
  BY <1>1, <1>2 DEF BumpedTo, EngineCounters
<1>8. EngineCounted(y) /\ Templates(y) = Templates(a)
  BY <1>6, <1>7 DEF EngineCounted, Templates, EngineCounters
<1>9. EngineTried(y) /\ Answered(y)
  BY <1>6, <1>7 DEF EngineTried, Answered, EngineCounters
<1> QED
  BY <1>8, <1>9 DEF EngineInv, EngineSound

LEMMA EngineRecoverKeeps ==
  ASSUME NEW x, EngineSound(x), NEW r \in RecoverEngine(x)
  PROVE  EngineHeld(x, r)
<1>1. CASE x.RecoveryTried
  <2>1. r.ok = FALSE /\ r.accel = x
    BY <1>1 DEF RecoverEngine, Returned
  <2> QED
    BY <1>1, <2>1 DEF EngineHeld, EngineInv, EngineSound, EngineTried, Answered
<1>2. CASE ~x.RecoveryTried
  <2> DEFINE a == CpAborted(x)
  <2>1. PICK w \in WaitIdleAndFlush(a) : \E y \in Recovered(w) : r = Returned(w.ok, y)
    BY <1>2 DEF RecoverEngine
  <2>2. PICK y \in Recovered(w) : r = Returned(w.ok, y)
    BY <2>1
  <2>3. r.ok = w.ok /\ r.accel = y
    BY <2>2 DEF Returned
  <2>4. x \in Accelerators /\ EngineCounted(x) /\ x.AccelState # "UNSAFE"
    BY <1>2 DEF EngineSound, EngineCounted, EngineTried
  <2>5. a \in Accelerators /\ a.n = x.n /\ a.AccelState = x.AccelState /\ a.RecoveryTried /\ a.cp # "ready"
    BY <2>4 DEF CpAborted, Accelerators
  <2>6. EngineCounted(a) /\ Templates(a) = Templates(x)
    BY <2>4, <2>5, SoundAside
  <2> HIDE DEF a
  <2>7. /\ Waited(a, w)
        /\ w.ok => w.accel.n["RecoverySuccess"] + w.accel.n["IdleWaitFailures"] < w.accel.n["IdleWaitCalls"]
        /\ ~w.ok => w.accel.n["RecoveryFailure"] < w.accel.n["FifoWaitFailures"] + w.accel.n["IdleWaitFailures"]
    BY <2>6, WaitIdleKeeps
  <2>8. /\ w.ok \in BOOLEAN /\ EngineCounted(w.accel) /\ w.accel.RecoveryTried /\ w.accel.cp # "ready"
        /\ w.accel.AccelState # "UNSAFE"
    BY <2>4, <2>5, <2>7 DEF Waited
  <2>9. EngineInv(y) /\ Templates(y) = Templates(w.accel)
    BY <2>7, <2>8, RecoveredKeeps
  <2> QED
    BY <2>3, <2>6, <2>7, <2>9 DEF EngineHeld, Waited
<1> QED
  BY <1>1, <1>2

(* What changes nothing the counters speak of, and then what keeps.         *)
LEMMA KeptAside ==
  ASSUME NEW x, NEW y \in Accelerators, EngineInv(x), y.n = x.n, y.RecoveryTried = x.RecoveryTried, y.cp = x.cp,
         y.AccelState = "UNSAFE" <=> x.AccelState = "UNSAFE"
  PROVE  EngineInv(y) /\ Templates(y) = Templates(x)
BY SoundAside DEF EngineInv, EngineSound

LEMMA KeptThenKept ==
  ASSUME NEW x, NEW r, NEW q, EngineHeld(x, r), EngineHeld(r.accel, q)
  PROVE  EngineHeld(x, q)
BY DEF EngineHeld

LEMMA KeptByItself ==
  ASSUME NEW x, EngineInv(x), NEW ok \in BOOLEAN
  PROVE  EngineHeld(x, Returned(ok, x))
BY DEF EngineHeld, Returned

LEMMA SynchronizeKeeps ==
  ASSUME NEW x, EngineInv(x), NEW r \in SynchronizeEngine(x)
  PROVE  EngineHeld(x, r)
<1>1. CASE x.Pending = "NONE"
  <2> DEFINE ok == x.AccelState # "UNSAFE"
  <2>1. r = Returned(ok, x)
    BY <1>1 DEF SynchronizeEngine
  <2>2. ok \in BOOLEAN
    OBVIOUS
  <2> HIDE DEF ok
  <2> QED
    BY <2>1, <2>2, KeptByItself
<1>2. CASE x.Pending # "NONE"
  <2> DEFINE W == IF x.Pending = "CP" THEN {Returned(ok, x) : ok \in BOOLEAN} ELSE WaitIdleAndFlush(x)
  <2>1. PICK w \in W : r \in IF w.ok THEN {Returned(TRUE, Drained(w.accel))} ELSE RecoverEngine(w.accel)
    BY <1>2 DEF SynchronizeEngine
  <2>2. EngineCounted(x)
    BY DEF EngineInv, EngineSound
  <2>3. Waited(x, w)
    <3>1. CASE w \in {Returned(ok, x) : ok \in BOOLEAN}
      <4>1. w.ok \in BOOLEAN /\ w.accel = x
        BY <3>1 DEF Returned
      <4> QED
        BY <2>2, <4>1 DEF Waited
    <3>2. CASE w \in WaitIdleAndFlush(x)
      BY <2>2, <3>2, WaitIdleKeeps
    <3> QED
      BY <2>1, <3>1, <3>2
  <2>4. EngineSound(w.accel) /\ (w.ok => Answered(w.accel))
    BY <2>3, WaitedSound DEF EngineInv, Waited
  <2>5. CASE w.ok
    <3> DEFINE y == Drained(w.accel)
    <3>1. r.ok = TRUE /\ r.accel = y
      BY <2>1, <2>5 DEF Returned
    <3>2. w.accel \in Accelerators
      BY <2>4 DEF EngineSound, EngineCounted
    <3>3. /\ y \in Accelerators /\ y.n = w.accel.n /\ y.RecoveryTried = w.accel.RecoveryTried
          /\ y.cp = w.accel.cp /\ y.AccelState = w.accel.AccelState
      BY <3>2 DEF Drained, Accelerators
    <3> HIDE DEF y
    <3>4. EngineInv(y) /\ Templates(y) = Templates(w.accel)
      BY <2>4, <2>5, <3>3, KeptAside DEF EngineInv
    <3> QED
      BY <2>3, <3>1, <3>4 DEF EngineHeld, Waited
  <2>6. CASE ~w.ok
    <3>1. EngineHeld(w.accel, r)
      BY <2>1, <2>4, <2>6, EngineRecoverKeeps
    <3> QED
      BY <2>3, <3>1 DEF EngineHeld, Waited
  <2> QED
    BY <2>3, <2>5, <2>6 DEF Waited
<1> QED
  BY <1>1, <1>2

LEMMA LeaseBlocksKeeps ==
  ASSUME NEW x, EngineInv(x), NEW r \in LeaseBlocks(x)
  PROVE  EngineHeld(x, r)
<1>1. CASE r \in {Returned(ok, x) : ok \in BOOLEAN}
  BY <1>1, KeptByItself
<1>2. CASE r \in Reclaimed(x)
  <2> DEFINE y == [x EXCEPT !.LeaseActive = FALSE]
  <2>1. PICK q \in RecoverEngine(y) : r = Returned(FALSE, q.accel)
    BY <1>2 DEF Reclaimed
  <2>2. x \in Accelerators
    BY DEF EngineInv, EngineSound, EngineCounted
  <2>3. /\ y \in Accelerators /\ y.n = x.n /\ y.RecoveryTried = x.RecoveryTried
        /\ y.cp = x.cp /\ y.AccelState = x.AccelState
    BY <2>2 DEF Accelerators
  <2> HIDE DEF y
  <2>4. EngineInv(y) /\ Templates(y) = Templates(x)
    BY <2>3, KeptAside
  <2>5. EngineHeld(y, q)
    BY <2>1, <2>4, EngineRecoverKeeps DEF EngineInv
  <2>6. r.ok = FALSE /\ r.accel = q.accel
    BY <2>1 DEF Returned
  <2> QED
    BY <2>4, <2>5, <2>6 DEF EngineHeld
<1> QED
  BY <1>1, <1>2 DEF LeaseBlocks

LEMMA PrepareMmioKeeps ==
  ASSUME NEW x, EngineInv(x), NEW r \in PrepareMmioEngine(x)
  PROVE  EngineHeld(x, r)
<1>1. CASE x.AccelState # "READY"
  BY <1>1, KeptByItself DEF PrepareMmioEngine
<1>2. CASE x.AccelState = "READY"
  <2>1. PICK l \in LeaseBlocks(x) :
          r \in IF l.ok THEN {Returned(FALSE, l.accel)}
                ELSE IF l.accel.Need2DRestore THEN SynchronizeEngine(l.accel) ELSE {Returned(TRUE, l.accel)}
    BY <1>2 DEF PrepareMmioEngine
  <2>2. EngineHeld(x, l) /\ EngineInv(l.accel)
    BY LeaseBlocksKeeps DEF EngineHeld
  <2>3. EngineHeld(l.accel, r)
    <3>1. CASE r \in {Returned(ok, l.accel) : ok \in BOOLEAN}
      BY <2>2, <3>1, KeptByItself
    <3>2. CASE r \in SynchronizeEngine(l.accel)
      BY <2>2, <3>2, SynchronizeKeeps
    <3> QED
      BY <2>1, <3>1, <3>2
  <2> QED
    BY <2>2, <2>3, KeptThenKept
<1> QED
  BY <1>1, <1>2

LEMMA SafeKeeps ==
  ASSUME NEW x, NEW r, EngineHeld(x, r)
  PROVE  EngineHeld(x, Safe(r))
BY DEF EngineHeld, Safe, Returned

LEMMA FallbackKeeps ==
  ASSUME NEW x, EngineInv(x), NEW all \in BOOLEAN, NEW r \in PrepareSoftwareFallback(x, all)
  PROVE  EngineHeld(x, r)
<1> DEFINE m == RadeonDebugFallbackDrain(x.n, all)
<1> DEFINE y == [x EXCEPT !.n = m]
<1>1. x \in Accelerators /\ x.n \in [EngineCounters -> Nat]
  BY DEF EngineInv, EngineSound, EngineCounted, Accelerators
<1>2. BumpedTo(x.n, m, {IF all THEN "FallbackDrainSkipped" ELSE "FallbackDrainRequired"})
  BY <1>1, EngineHooks
<1>3. r \in IF all THEN {Safe(Returned(TRUE, y))}
            ELSE UNION {IF l.ok THEN {Safe(l)} ELSE {Safe(q) : q \in SynchronizeEngine(l.accel)} : l \in LeaseBlocks(y)}
  BY DEF PrepareSoftwareFallback
<1> HIDE DEF m
<1>4. m \in [EngineCounters -> Nat]
  BY <1>2 DEF BumpedTo
<1>5. /\ y \in Accelerators /\ y.n = m /\ y.AccelState = x.AccelState
      /\ y.RecoveryTried = x.RecoveryTried /\ y.cp = x.cp
  BY <1>1, <1>4, WithCounters
<1> HIDE DEF y
<1>6. \A c \in EngineCounters \ {"FallbackDrainSkipped", "FallbackDrainRequired"} : m[c] = x.n[c]
  BY <1>2 DEF BumpedTo
<1>7. EngineInv(y) /\ Templates(y) = Templates(x)
  BY <1>5, <1>6 DEF EngineInv, EngineSound, EngineCounted, EngineTried, Answered, Templates, EngineCounters
<1>8. EngineHeld(y, r)
  <2>1. CASE all
    <3>1. r = Safe(Returned(TRUE, y))
      BY <1>3, <2>1
    <3> QED
      BY <1>7, <3>1, KeptByItself, SafeKeeps
  <2>2. CASE ~all
    <3>1. PICK l \in LeaseBlocks(y) : r \in IF l.ok THEN {Safe(l)} ELSE {Safe(q) : q \in SynchronizeEngine(l.accel)}
      BY <1>3, <2>2
    <3>2. EngineHeld(y, l) /\ EngineInv(l.accel)
      BY <1>7, LeaseBlocksKeeps DEF EngineHeld
    <3>3. CASE r = Safe(l)
      BY <3>2, <3>3, SafeKeeps
    <3>4. CASE \E q \in SynchronizeEngine(l.accel) : r = Safe(q)
      <4>1. PICK q \in SynchronizeEngine(l.accel) : r = Safe(q)
        BY <3>4
      <4>2. EngineHeld(l.accel, q)
        BY <3>2, SynchronizeKeeps
      <4> QED
        BY <3>2, <4>1, <4>2, KeptThenKept, SafeKeeps
    <3> QED
      BY <3>1, <3>3, <3>4
  <2> QED
    BY <2>1, <2>2
<1> QED
  BY <1>7, <1>8 DEF EngineHeld

(* A template is streamed after a FIFO wait in time; after one too late it  *)
(* is left to the caller's recovery.                                        *)
Drawn(x, r, n) ==
  /\ r.ok \in BOOLEAN /\ EngineSound(r.accel) /\ (r.ok => Answered(r.accel))
  /\ Templates(r.accel) = Templates(x) + IF r.ok THEN n ELSE 0

LEMMA KeptDrawn ==
  ASSUME NEW x, EngineInv(x), NEW r, NEW n \in Nat, EngineHeld(x, r), n = 0 \/ ~r.ok
  PROVE  Drawn(x, r, n)
<1>1. Templates(x) \in Nat
  BY DEF EngineInv, EngineSound, EngineCounted, Accelerators, Templates, EngineCounters
<1> QED
  BY <1>1 DEF EngineHeld, Drawn, EngineInv

LEMMA StreamedKeeps ==
  ASSUME NEW x, EngineInv(x), NEW w \in WaitFifo(x)
  PROVE  Drawn(x, Streamed(w), 1)
<1>1. /\ Waited(x, w) /\ EngineCounted(x)
      /\ w.ok => w.accel.n["FifoWaitFailures"] + w.accel.n["IdleWaitCalls"] + Templates(w.accel) < w.accel.n["FifoWaitCalls"]
  BY WaitFifoKeeps DEF EngineInv, EngineSound
<1> DEFINE a == w.accel
<1>2. EngineSound(a) /\ (w.ok => Answered(a)) /\ Templates(a) = Templates(x) /\ w.ok \in BOOLEAN
  BY <1>1, WaitedSound DEF EngineInv, Waited
<1>3. a \in Accelerators /\ a.n \in [EngineCounters -> Nat]
  BY <1>2 DEF EngineSound, EngineCounted, Accelerators
<1>4. CASE ~w.ok
  <2>1. Streamed(w).ok = FALSE /\ Streamed(w).accel = a
    BY <1>4 DEF Streamed, Returned
  <2>2. Templates(a) \in Nat
    BY <1>3 DEF Templates, EngineCounters
  <2>3. EngineSound(a) /\ Templates(a) = Templates(x) + 0
    BY <1>2, <2>2
  <2> QED
    BY <2>1, <2>3 DEF Drawn
<1>5. CASE w.ok
  <2> DEFINE m == RadeonDebugTemplateHardware(a.n)
  <2> DEFINE y == [a EXCEPT !.n = m]
  <2>1. Streamed(w).ok = TRUE /\ Streamed(w).accel = y
    BY <1>2, <1>5 DEF Streamed, Returned
  <2>2. BumpedTo(a.n, m, {"TemplateHardware"})
    BY <1>3, EngineHooks
  <2> HIDE DEF m
  <2>3. m \in [EngineCounters -> Nat]
    BY <2>2 DEF BumpedTo
  <2>4. /\ y \in Accelerators /\ y.n = m /\ y.AccelState = a.AccelState
        /\ y.RecoveryTried = a.RecoveryTried /\ y.cp = a.cp
    BY <1>3, <2>3, WithCounters
  <2> HIDE DEF y
  <2>5. /\ m["TemplateHardware"] = a.n["TemplateHardware"] + 1
        /\ \A c \in EngineCounters \ {"TemplateHardware"} : m[c] = a.n[c]
        /\ \A c \in EngineCounters : a.n[c] \in Nat
    BY <1>3, <2>2 DEF BumpedTo, EngineCounters
  <2>6. EngineCounted(y) /\ EngineTried(y) /\ Answered(y) /\ Templates(y) = Templates(a) + 1
    BY <1>1, <1>2, <1>5, <2>4, <2>5 DEF EngineSound, EngineCounted, EngineTried, Answered, Templates, EngineCounters
  <2> QED
    BY <1>2, <2>1, <2>6 DEF Drawn, EngineSound
<1> QED
  BY <1>2, <1>4, <1>5

LEMMA SubmitTemplateKeeps ==
  ASSUME NEW x, EngineInv(x), NEW r \in SubmitTemplate(x)
  PROVE  Drawn(x, r, 1)
<1>1. PICK p \in PrepareMmioEngine(x) : r \in IF p.ok THEN {Streamed(w) : w \in WaitFifo(p.accel)} ELSE {p}
  BY DEF SubmitTemplate
<1>2. EngineHeld(x, p) /\ EngineInv(p.accel)
  BY PrepareMmioKeeps DEF EngineHeld
<1>3. CASE p.ok
  <2>1. PICK w \in WaitFifo(p.accel) : r = Streamed(w)
    BY <1>1, <1>3
  <2>2. Drawn(p.accel, r, 1)
    BY <1>2, <2>1, StreamedKeeps
  <2> QED
    BY <1>2, <2>2 DEF Drawn, EngineHeld
<1>4. CASE ~p.ok
  BY <1>1, <1>2, <1>4, KeptDrawn
<1> QED
  BY <1>3, <1>4

(* What a hardware path ends in: submitted, or after a recovery.            *)
WayKept(x, way, n) ==
  EngineInv(way.accel) /\ Templates(way.accel) = Templates(x) + IF way.outcome = "hardware" THEN n ELSE 0

LEMMA SubmittedKeeps ==
  ASSUME NEW x, EngineInv(x), NEW outcome, NEW n \in Nat, NEW r, Drawn(x, r, IF outcome = "hardware" THEN n ELSE 0),
         NEW way \in Submitted(outcome, r), outcome \in {"hardware", "staged"}
  PROVE  WayKept(x, way, n)
<1>0. Templates(x) \in Nat
  BY DEF EngineInv, EngineSound, EngineCounted, Accelerators, Templates, EngineCounters
<1>1. CASE r.ok
  <2> DEFINE y == [r.accel EXCEPT !.Pending = "MMIO"]
  <2>1. way.outcome = outcome /\ way.accel = y
    BY <1>1 DEF Submitted, Way
  <2>2. EngineInv(r.accel) /\ r.accel \in Accelerators
    BY <1>1 DEF Drawn, EngineInv, EngineSound, EngineCounted
  <2>3. /\ y \in Accelerators /\ y.n = r.accel.n /\ y.RecoveryTried = r.accel.RecoveryTried
        /\ y.cp = r.accel.cp /\ y.AccelState = r.accel.AccelState
    BY <2>2 DEF Accelerators
  <2> HIDE DEF y
  <2>4. EngineInv(y) /\ Templates(y) = Templates(r.accel)
    BY <2>2, <2>3, KeptAside
  <2> QED
    BY <1>0, <1>1, <2>1, <2>4 DEF Drawn, WayKept
<1>2. CASE ~r.ok
  <2>1. PICK t \in RecoverEngine(r.accel) : way = Way(IF t.ok THEN "recovered" ELSE "lost", t.accel)
    BY <1>2 DEF Submitted
  <2>2. way.outcome # "hardware" /\ way.accel = t.accel
    BY <2>1 DEF Way
  <2>3. EngineHeld(r.accel, t)
    BY EngineRecoverKeeps DEF Drawn
  <2> QED
    BY <1>0, <1>2, <2>2, <2>3 DEF Drawn, EngineHeld, WayKept
<1> QED
  BY <1>1, <1>2

LEMMA HardwareWaysKeep ==
  ASSUME NEW x, EngineInv(x), NEW op, NEW way \in HardwareWays(op, x)
  PROVE  WayKept(x, way, IF op = "TEMPLATE" THEN 1 ELSE 0)
<1> DEFINE n == IF op = "TEMPLATE" THEN 1 ELSE 0
<1>1. ASSUME NEW y, EngineInv(y), NEW r \in SubmitTemplate(y), NEW v \in Submitted("hardware", r)
      PROVE  WayKept(y, v, 1)
  BY <1>1, SubmitTemplateKeeps, SubmittedKeeps
<1>2. ASSUME NEW p \in PrepareMmioEngine(x)
      PROVE  Drawn(x, p, 0) /\ EngineHeld(x, p) /\ EngineInv(p.accel)
  BY PrepareMmioKeeps, KeptDrawn DEF EngineHeld
<1>3. CASE op # "TEMPLATE"
  <2>1. PICK p \in PrepareMmioEngine(x) : way \in Submitted("hardware", p)
    BY <1>3 DEF HardwareWays
  <2>2. WayKept(x, way, 0)
    BY <1>2, <2>1, SubmittedKeeps
  <2> QED
    BY <1>3, <2>2
<1>4. CASE op = "TEMPLATE"
  <2>1. CASE \E r \in SubmitTemplate(x) : way \in Submitted("hardware", r)
    BY <1>1, <1>4, <2>1
  <2>2. CASE way \in StagedFirst(x)
    <3>1. PICK p \in PrepareMmioEngine(x) :
            way \in IF p.ok THEN Submitted("staged", p)
                    ELSE UNION {Submitted("hardware", r) : r \in SubmitTemplate(p.accel)}
      BY <2>2 DEF StagedFirst
    <3>2. CASE p.ok
      <4>1. way \in Submitted("staged", p)
        BY <3>1, <3>2
      <4>2. Drawn(x, p, IF "staged" = "hardware" THEN 1 ELSE 0)
        BY <1>2
      <4> QED
        BY <1>4, <4>1, <4>2, SubmittedKeeps
    <3>3. CASE ~p.ok
      <4>1. WayKept(p.accel, way, 1)
        BY <1>1, <1>2, <3>1, <3>3
      <4> QED
        BY <1>2, <1>4, <4>1 DEF WayKept, EngineHeld
    <3> QED
      BY <3>2, <3>3
  <2> QED
    BY <1>4, <2>1, <2>2 DEF HardwareWays
<1> QED
  BY <1>3, <1>4

LEMMA WaysKeep ==
  ASSUME NEW op, EngineInv(accel), NEW way \in Ways(op, accel)
  PROVE  /\ EngineInv(way.accel)
         /\ way.accel.n["TemplateHardware"] =
              accel.n["TemplateHardware"] + (IF op = "TEMPLATE" /\ way.outcome = "hardware" THEN 1 ELSE 0)
<1>1. Templates(accel) \in Nat
  BY DEF EngineInv, EngineSound, EngineCounted, Accelerators, Templates, EngineCounters
<1>2. ASSUME NEW r, EngineHeld(accel, r), way.accel = r.accel, way.outcome # "hardware"
      PROVE  WayKept(accel, way, 1)
  BY <1>1, <1>2 DEF EngineHeld, WayKept
<1>3. CASE op = "DRAIN"
  <2>1. PICK l \in LeaseBlocks(accel) :
          way \in IF l.ok THEN {Way("drained", l.accel)} ELSE {Way("drained", r.accel) : r \in SynchronizeEngine(l.accel)}
    BY <1>3 DEF Ways, RadeonWaitBlitter
  <2>2. EngineHeld(accel, l) /\ EngineInv(l.accel)
    BY LeaseBlocksKeeps DEF EngineHeld
  <2>3. CASE way = Way("drained", l.accel)
    <3>1. way.outcome # "hardware" /\ way.accel = l.accel
      BY <2>3 DEF Way
    <3> QED
      BY <1>2, <1>3, <2>2, <3>1 DEF WayKept, Templates
  <2>4. CASE \E r \in SynchronizeEngine(l.accel) : way = Way("drained", r.accel)
    <3>1. PICK r \in SynchronizeEngine(l.accel) : way = Way("drained", r.accel)
      BY <2>4
    <3>2. way.outcome # "hardware" /\ way.accel = r.accel
      BY <3>1 DEF Way
    <3>3. EngineHeld(accel, r)
      BY <2>2, SynchronizeKeeps, KeptThenKept
    <3> QED
      BY <1>2, <1>3, <3>2, <3>3 DEF WayKept, Templates
  <2> QED
    BY <2>1, <2>3, <2>4
<1>4. CASE way = Way("rejected", accel)
  <2>1. way.outcome # "hardware" /\ way.accel = accel
    BY <1>4 DEF Way
  <2> QED
    BY <1>1, <2>1 DEF Templates
<1>5. CASE way \in HardwareWays(op, accel)
  <2>1. WayKept(accel, way, IF op = "TEMPLATE" THEN 1 ELSE 0)
    BY <1>5, HardwareWaysKeep
  <2> QED
    BY <1>1, <2>1 DEF WayKept, Templates
<1>6. CASE way \in SoftwareWays(accel)
  <2>1. PICK all \in BOOLEAN : \E r \in PrepareSoftwareFallback(accel, all) :
          way = Way(IF r.ok THEN "software" ELSE "blocked", r.accel)
    BY <1>6 DEF SoftwareWays
  <2>2. PICK r \in PrepareSoftwareFallback(accel, all) : way = Way(IF r.ok THEN "software" ELSE "blocked", r.accel)
    BY <2>1
  <2>3. way.outcome # "hardware" /\ way.accel = r.accel
    BY <2>2 DEF Way
  <2>4. WayKept(accel, way, 1)
    BY <1>2, <2>3, FallbackKeeps
  <2> QED
    BY <1>1, <2>3, <2>4 DEF WayKept, Templates
<1> QED
  BY <1>3, <1>4, <1>5, <1>6 DEF Ways

(* The service asks only while the CP is ready, so no recovery was tried    *)
(* that has not brought it back; the engine is not UNSAFE then.             *)
ServiceKept(x, y) == EngineInv(y) /\ Templates(y) = Templates(x)

LEMMA ReadyIsSafe ==
  ASSUME NEW x, EngineInv(x), x.cp = "ready"
  PROVE  x.AccelState # "UNSAFE"
BY DEF EngineInv, EngineSound, EngineTried

LEMMA MarkedKeeps ==
  ASSUME NEW x, EngineInv(x)
  PROVE  /\ ServiceKept(x, Mark3DSubmitted(x)) /\ ServiceKept(x, Ended(x))
         /\ x.AccelState # "UNSAFE" =>
              /\ ServiceKept(x, [x EXCEPT !.LeaseActive = TRUE, !.AccelState = "FALLBACK"])
              /\ ServiceKept(x, Ended([x EXCEPT !.AccelState = IF @ = "FALLBACK" THEN "READY" ELSE @]))
<1>1. x \in Accelerators
  BY DEF EngineInv, EngineSound, EngineCounted
<1>2. ASSUME NEW y \in Accelerators, y.n = x.n, y.RecoveryTried = x.RecoveryTried, y.cp = x.cp,
             y.AccelState = "UNSAFE" <=> x.AccelState = "UNSAFE"
      PROVE  ServiceKept(x, y)
  BY <1>2, KeptAside DEF ServiceKept
<1> DEFINE Other(y) ==
      /\ y \in Accelerators /\ y.n = x.n /\ y.RecoveryTried = x.RecoveryTried /\ y.cp = x.cp
      /\ (y.AccelState = "UNSAFE" <=> x.AccelState = "UNSAFE")
<1>3. Other(Mark3DSubmitted(x)) /\ Other(Ended(x))
  BY <1>1 DEF Mark3DSubmitted, Ended, Accelerators
<1>4. ASSUME x.AccelState # "UNSAFE"
      PROVE  /\ Other([x EXCEPT !.LeaseActive = TRUE, !.AccelState = "FALLBACK"])
             /\ Other(Ended([x EXCEPT !.AccelState = IF @ = "FALLBACK" THEN "READY" ELSE @]))
  BY <1>1, <1>4 DEF Mark3DSubmitted, Ended, Accelerators
<1>5. ASSUME NEW y, Other(y)
      PROVE  ServiceKept(x, y)
  BY <1>2, <1>5
<1> HIDE DEF Other
<1> QED
  BY <1>3, <1>4, <1>5

LEMMA ServiceMoveKeeps ==
  ASSUME NEW x, EngineInv(x), x.cp = "ready",
         NEW y \in {r.accel : r \in RecoverEngine(x)} \cup EndLease(x) \cup Submit3D(x) \cup AcquireLease(x)
  PROVE  ServiceKept(x, y)
<1>1. x.AccelState # "UNSAFE"
  BY ReadyIsSafe
<1>4. ASSUME NEW z, EngineInv(z), NEW r \in RecoverEngine(z)
      PROVE  EngineHeld(z, r)
  BY <1>4, EngineRecoverKeeps DEF EngineInv
<1>5. ASSUME NEW r \in RadeonPrepare3D(x)
      PROVE  EngineHeld(x, r) /\ EngineInv(r.accel)
  BY KeptByItself, SynchronizeKeeps DEF RadeonPrepare3D, EngineHeld
<1>6. CASE y \in {r.accel : r \in RecoverEngine(x)}
  BY <1>4, <1>6 DEF ServiceKept, EngineHeld
<1>7. CASE y \in EndLease(x)
  <2>1. CASE \E r \in RecoverEngine(x) : y = Ended(r.accel)
    <3>1. PICK r \in RecoverEngine(x) : y = Ended(r.accel)
      BY <2>1
    <3>2. EngineHeld(x, r)
      BY <1>4
    <3>3. ServiceKept(r.accel, y)
      BY <3>1, <3>2, MarkedKeeps DEF EngineHeld
    <3> QED
      BY <3>2, <3>3 DEF EngineHeld, ServiceKept
  <2> QED
    BY <1>1, <1>7, <2>1, MarkedKeeps DEF EndLease
<1>8. CASE y \in Submit3D(x)
  <2>1. PICK r \in RadeonPrepare3D(x) :
          y \in IF ~r.ok THEN {r.accel}
                ELSE {t.accel : t \in RecoverEngine(r.accel)}
                     \cup (IF r.accel.cp = "ready" THEN {Mark3DSubmitted(r.accel)} ELSE {})
    BY <1>8 DEF Submit3D
  <2>2. EngineHeld(x, r) /\ EngineInv(r.accel)
    BY <1>5
  <2>3. ServiceKept(r.accel, y)
    <3>1. CASE y = r.accel
      BY <2>2, <3>1 DEF ServiceKept
    <3>2. CASE y = Mark3DSubmitted(r.accel)
      BY <2>2, <3>2, MarkedKeeps
    <3>3. CASE \E t \in RecoverEngine(r.accel) : y = t.accel
      BY <1>4, <2>2, <3>3 DEF EngineHeld, ServiceKept
    <3> QED
      BY <2>1, <3>1, <3>2, <3>3
  <2> QED
    BY <2>2, <2>3 DEF EngineHeld, ServiceKept
<1>9. CASE y \in AcquireLease(x)
  <2>1. PICK r \in RadeonPrepare3D(x) :
          y = IF r.ok /\ r.accel.cp = "ready" THEN [r.accel EXCEPT !.LeaseActive = TRUE, !.AccelState = "FALLBACK"] ELSE r.accel
    BY <1>9 DEF AcquireLease
  <2>2. EngineHeld(x, r) /\ EngineInv(r.accel)
    BY <1>5
  <2>3. ServiceKept(r.accel, y)
    <3>1. CASE r.ok /\ r.accel.cp = "ready"
      <4>1. r.accel.AccelState # "UNSAFE"
        BY <2>2, <3>1, ReadyIsSafe
      <4>2. ServiceKept(r.accel, [r.accel EXCEPT !.LeaseActive = TRUE, !.AccelState = "FALLBACK"])
        BY <2>2, <4>1, MarkedKeeps
      <4> QED
        BY <2>1, <3>1, <4>2
    <3>2. CASE ~(r.ok /\ r.accel.cp = "ready")
      BY <2>1, <2>2, <3>2 DEF ServiceKept
    <3> QED
      BY <3>1, <3>2
  <2> QED
    BY <2>2, <2>3 DEF EngineHeld, ServiceKept
<1> QED
  BY <1>6, <1>7, <1>8, <1>9

LEMMA ServiceKeeps ==
  ASSUME EngineInv(accel), ServiceUsesEngine
  PROVE  EngineInv(accel') /\ accel'.n["TemplateHardware"] = accel.n["TemplateHardware"]
<1>1. accel.cp = "ready" /\ accel' \in {r.accel : r \in RecoverEngine(accel)} \cup EndLease(accel)
                                      \cup Submit3D(accel) \cup AcquireLease(accel)
  BY DEF ServiceUsesEngine
<1>2. ServiceKept(accel, accel')
  BY <1>1, ServiceMoveKeeps
<1> QED
  BY <1>2 DEF ServiceKept, Templates

------------------------------------------------------------------------------
(* The call under way was counted when it took the board, and has not       *)
(* returned.                                                                *)
Pending == IF call = Idle THEN 0 ELSE 1
TimeSpent == Spent("FILL") + Spent("INVERT") + Spent("TEMPLATE") + Spent("COMPLETE") + Spent("DRAIN")

(* The calls that returned, numbered in their kind and within the bound.    *)
Ledger ==
  /\ done \subseteq Ops \X Outcomes \X (1 .. MaxCalls) /\ IsFiniteSet(done)
  /\ \A d \in done : d[3] <= Tally(done, {d[1]}, {d[2]})
  /\ Tally(done, Ops, Outcomes) + Pending <= MaxCalls

(* The equalities of AccountsBalance that a call under way leaves alone.    *)
Balances ==
  /\ \A op \in Ops : stats[<<"OpCalls", op>>] = Tally(done, {op}, Attributed(op))
  /\ \A op \in Ops \ {"DRAIN"} : stats[<<"OpHardware", op>>] = Tally(done, {op}, {"hardware", "staged"})
  /\ stats[C("FillCalls")] = stats[C("FillHardware")] + stats[C("FillSoftware")]
  /\ stats[C("TemplateSoftware")] = Tally(done, {"TEMPLATE"}, {"recovered", "software"})
  /\ stats[C("CompleteHardware")] = Tally(done, {"COMPLETE"}, {"hardware"})

(* Time attributed passed before the call under way took its sample.        *)
TimeBalances ==
  /\ "DRAIN" \in Ops => stats[<<"OpTicks", "DRAIN">>] = stats[C("DrainTicks")]
  /\ TimeSpent <= (IF call # Idle /\ timerbase THEN call.ticks ELSE clock.now) - clock.opened

(* A sample is no later than now, and 0 while there is no timer.            *)
ClockInv ==
  /\ clock \in [now : Int, opened : Int]
  /\ clock.now \in StartTime .. StartTime + MaxTicks /\ clock.opened \in StartTime .. clock.now
CallInv ==
  /\ call = Idle \/ (node /\ call \in [op : Ops, ticks : Int])
  /\ call.ticks \in 0 .. clock.now
  /\ call # Idle /\ ~timerbase => call.ticks = 0
TemplatesCounted == accel.n["TemplateHardware"] = Tally(done, {"TEMPLATE"}, {"hardware"})
PublishedInv ==
  /\ stats \in Stats
  /\ Ledger
  /\ stats[C("BoardLockChecks")] = Tally(done, Ops, Outcomes) + Pending
  /\ Balances
  /\ TimeBalances
  /\ TemplatesCounted

AccountsInv ==
  /\ node \in BOOLEAN /\ timerbase \in BOOLEAN
  /\ ClockInv /\ CallInv /\ EngineInv(accel)
  /\ IF node THEN PublishedInv ELSE stats = NoStats /\ done = {}

LEMMA BalancedCounters ==
  /\ \A op \in Ops : <<"OpCalls", op>> \in Balanced /\ <<"OpHardware", op>> \in Balanced /\ <<"OpTicks", op>> \in Timers
  /\ \A n \in {"BoardLockChecks", "FillCalls", "FillHardware", "FillSoftware", "TemplateSoftware", "CompleteHardware"} : C(n) \in Balanced
  /\ C("DrainTicks") \in Timers
BY DEF Balanced, Timers, C

LEMMA SpentIsNatural ==
  ASSUME stats \in Stats
  PROVE  \A op \in {"FILL", "INVERT", "TEMPLATE", "COMPLETE", "DRAIN"} : Spent(op) \in Nat
<1>1. \A op \in Ops : stats[<<"OpTicks", op>>] \in Nat
  BY NamedCounters DEF Stats
<1> QED
  BY <1>1 DEF Spent

LEMMA AccountsInitInv ==
  ASSUME AccountsInit
  PROVE  AccountsInv
<1>1. ClockInv
  BY AccountsAssumption DEF AccountsInit, ClockInv, StartTime
<1>2. CallInv
  BY DEF AccountsInit, CallInv, Idle, StartTime
<1> QED
  BY <1>1, <1>2, NoAccelSound DEF AccountsInit, AccountsInv

LEMMA OpenStatsKeeps ==
  ASSUME AccountsInv, OpenStats
  PROVE  AccountsInv'
<1>1. ClockInv'
  BY DEF AccountsInv, ClockInv, OpenStats
<1>2. CallInv'
  BY DEF AccountsInv, ClockInv, CallInv, OpenStats, Idle
<1>3. stats' \in Stats /\ \A c \in Counters : stats'[c] = 0
  BY DEF OpenStats, Stats
<1>4. \A ops, outcomes : Tally(done', ops, outcomes) = 0
  BY TallyOfNone DEF OpenStats
<1>5. Pending' = 0
  BY DEF OpenStats, Pending
<1>6. Ledger'
  <2>1. done' = {}
    BY DEF OpenStats
  <2>2. IsFiniteSet(done')
    BY <2>1, FS_EmptySet
  <2> QED
    BY <1>4, <1>5, <2>1, <2>2, AccountsAssumption DEF Ledger
<1>7. Balances'
  <2>1. \A op \in Ops : stats'[<<"OpCalls", op>>] = 0 /\ stats'[<<"OpHardware", op>>] = 0
    BY <1>3, NamedCounters
  <2>2. \A n \in {"FillCalls", "FillHardware", "FillSoftware", "TemplateSoftware", "CompleteHardware"} : stats'[C(n)] = 0
    BY <1>3, NamedCounters
  <2>3. stats'[C("FillCalls")] = stats'[C("FillHardware")] + stats'[C("FillSoftware")]
    BY <2>2
  <2>4. /\ stats'[C("TemplateSoftware")] = Tally(done', {"TEMPLATE"}, {"recovered", "software"})
        /\ stats'[C("CompleteHardware")] = Tally(done', {"COMPLETE"}, {"hardware"})
    BY <1>4, <2>2
  <2>5. /\ \A op \in Ops : stats'[<<"OpCalls", op>>] = Tally(done', {op}, Attributed(op))
        /\ \A op \in Ops \ {"DRAIN"} : stats'[<<"OpHardware", op>>] = Tally(done', {op}, {"hardware", "staged"})
    BY <1>4, <2>1
  <2>6. \A op \in Ops : Attributed(op)' = Attributed(op)
    BY DEF Attributed
  <2> QED
    BY <2>3, <2>4, <2>5, <2>6 DEF Balances
<1>8. TimeBalances'
  <2>1. \A op \in {"FILL", "INVERT", "TEMPLATE", "COMPLETE", "DRAIN"} : Spent(op)' = 0
    BY <1>3, NamedCounters DEF Spent
  <2>2. TimeSpent' = 0
    BY <2>1 DEF TimeSpent
  <2>3. clock'.now = clock'.opened /\ clock'.now \in Int
    BY DEF OpenStats, AccountsInv, ClockInv
  <2>4. call' = Idle
    BY DEF OpenStats
  <2>5. "DRAIN" \in Ops => stats'[<<"OpTicks", "DRAIN">>] = 0
    BY <1>3, NamedCounters
  <2>6. stats'[C("DrainTicks")] = 0
    BY <1>3, NamedCounters
  <2>7. TimeSpent' <= (IF call' # Idle /\ timerbase' THEN call'.ticks ELSE clock'.now) - clock'.opened
    BY <2>2, <2>3, <2>4
  <2> QED
    BY <2>5, <2>6, <2>7 DEF TimeBalances
<1>9. stats'[C("BoardLockChecks")] = Tally(done', Ops, Outcomes) + Pending'
  BY <1>3, <1>4, <1>5, NamedCounters
<1>10. EngineInv(accel') /\ accel'.n["TemplateHardware"] = 0
  BY InitializedSound DEF OpenStats
<1>11. TemplatesCounted'
  BY <1>4, <1>10 DEF TemplatesCounted
<1> QED
  BY <1>1, <1>2, <1>3, <1>6, <1>7, <1>8, <1>9, <1>10, <1>11 DEF AccountsInv, PublishedInv, OpenStats

LEMMA RadeonDebugCloseKeeps ==
  ASSUME AccountsInv, RadeonDebugClose
  PROVE  AccountsInv'
<1>1. ClockInv'
  BY DEF AccountsInv, ClockInv, RadeonDebugClose
<1>2. CallInv'
  BY DEF AccountsInv, CallInv, RadeonDebugClose
<1> QED
  BY <1>1, <1>2, NoAccelSound DEF AccountsInv, RadeonDebugClose

LEMMA TimePassesKeeps ==
  ASSUME AccountsInv, TimePasses
  PROVE  AccountsInv'
<1>1. clock' = [clock EXCEPT !.now = @ + 1]
  BY DEF TimePasses
<1>2. clock \in [now : Int, opened : Int]
  BY DEF AccountsInv, ClockInv
<1>3. clock'.now = clock.now + 1 /\ clock'.opened = clock.opened /\ clock' \in [now : Int, opened : Int]
  BY <1>1, <1>2
<1>4. ClockInv'
  BY <1>3, AccountsAssumption DEF AccountsInv, ClockInv, TimePasses, StartTime
<1>5. CallInv'
  <2>1. call.ticks \in 0 .. clock.now
    BY DEF AccountsInv, CallInv
  <2>2. call'.ticks \in 0 .. clock'.now
    BY <1>2, <1>3, <2>1 DEF TimePasses
  <2> QED
    BY <2>2 DEF AccountsInv, CallInv, TimePasses
<1>6. ASSUME node
      PROVE  PublishedInv'
  <2>1. PublishedInv
    BY <1>6 DEF AccountsInv
  <2>2. stats' = stats /\ accel' = accel /\ done' = done /\ call' = call /\ timerbase' = timerbase
    BY DEF TimePasses
  <2>3. Pending' = Pending
    BY <2>2 DEF Pending
  <2>4. Ledger' /\ Balances'
    BY <2>1, <2>2, <2>3 DEF PublishedInv, Ledger, Balances
  <2>6. TemplatesCounted'
    BY <2>1, <2>2 DEF PublishedInv, TemplatesCounted
  <2>5. TimeBalances'
    <3>1. TimeSpent' = TimeSpent
      BY <2>2 DEF TimeSpent, Spent
    <3>2. TimeSpent \in Int
      BY <2>1, SpentIsNatural DEF PublishedInv, TimeSpent
    <3>3. call.ticks \in Int
      BY DEF AccountsInv, CallInv
    <3>4. TimeBalances
      BY <2>1 DEF PublishedInv
    <3> QED
      BY <1>2, <1>3, <2>2, <3>1, <3>2, <3>3, <3>4 DEF TimeBalances
  <2> QED
    BY <2>1, <2>2, <2>3, <2>4, <2>5, <2>6 DEF PublishedInv
<1> QED
  BY <1>4, <1>5, <1>6 DEF AccountsInv, TimePasses

LEMMA EnterKeeps ==
  ASSUME AccountsInv, NEW op \in Ops, Enter(op)
  PROVE  AccountsInv'
<1>1. node /\ call = Idle /\ PublishedInv
  BY DEF Enter, AccountsInv
<1>2. PICK open \in {timerbase, TRUE} : timerbase' = open /\ call' = [op |-> op, ticks |-> Sampled(open)]
  BY DEF Enter
<1>3. node' = node /\ clock' = clock /\ accel' = accel /\ done' = done /\ timerbase' \in BOOLEAN
  BY <1>2 DEF Enter, AccountsInv
<1>4. clock.now \in Nat /\ clock.now >= StartTime /\ clock.opened \in Int
  BY AccountsAssumption DEF AccountsInv, ClockInv, StartTime
<1>5. call'.op = op /\ call'.ticks = Sampled(open) /\ call' # Idle
  <2>1. op # "none"
    BY AccountsAssumption
  <2> QED
    BY <1>2, <2>1 DEF Idle
<1>6. Sampled(open) = IF timerbase' THEN clock.now ELSE 0
  BY <1>2 DEF Sampled
<1>7. ClockInv'
  BY <1>3 DEF AccountsInv, ClockInv
<1>8. CallInv'
  <2>1. Sampled(open) \in Int /\ Sampled(open) \in 0 .. clock.now
    BY <1>4, <1>6
  <2>2. call' \in [op : Ops, ticks : Int]
    BY <1>2, <2>1
  <2> QED
    BY <1>1, <1>3, <1>5, <1>6, <2>1, <2>2 DEF CallInv
<1> DEFINE all == {C("BoardLockChecks")}
<1>9. stats \in Stats
  BY <1>1 DEF PublishedInv
<1>10. all \cap Timers = {}
  BY DEF Timers, C
<1>11. stats' = Bump(stats, all)
  BY DEF Enter
<1> HIDE DEF all
<1> DEFINE bumped == Bump(stats, all)
<1>12. Counted(stats, bumped, all)
  BY <1>9, <1>10, BumpCounts
<1> HIDE DEF bumped
<1>13. Counted(stats, stats', all)
  BY <1>11, <1>12 DEF bumped
<1>14. stats' \in Stats
  BY <1>13 DEF Counted
<1>15. /\ \A c \in Balanced \ all : stats'[c] = stats[c]
       /\ stats'[C("BoardLockChecks")] = stats[C("BoardLockChecks")] + 1
       /\ \A c \in Timers : stats'[c] = stats[c]
  BY <1>13, BalancedCounters DEF Counted, all
<1>16. Pending = 0 /\ Pending' = 1
  BY <1>1, <1>5 DEF Pending
<1>17. \A ops, outcomes : Tally(done, ops, outcomes) \in Nat
  BY <1>1, TallyIsNatural DEF PublishedInv, Ledger
<1>18. Ledger'
  <2>1. Tally(done, Ops, Outcomes) < MaxCalls
    BY DEF Enter, Times, Tally
  <2> QED
    BY <1>1, <1>3, <1>16, <1>17, <2>1, AccountsAssumption DEF PublishedInv, Ledger
<1>19. Balances'
  <2>1. \A o \in Ops : stats'[<<"OpCalls", o>>] = stats[<<"OpCalls", o>>] /\ stats'[<<"OpHardware", o>>] = stats[<<"OpHardware", o>>]
    BY <1>15, BalancedCounters DEF all, C
  <2>2. \A n \in {"FillCalls", "FillHardware", "FillSoftware", "TemplateSoftware", "CompleteHardware"} : stats'[C(n)] = stats[C(n)]
    BY <1>15, BalancedCounters DEF all, C
  <2> QED
    BY <1>1, <1>3, <2>1, <2>2 DEF PublishedInv, Balances
<1>20. TimeBalances'
  <2>1. \A o \in Ops : stats'[<<"OpTicks", o>>] = stats[<<"OpTicks", o>>]
    BY <1>15, BalancedCounters
  <2>2. stats'[C("DrainTicks")] = stats[C("DrainTicks")]
    BY <1>15, BalancedCounters
  <2>3. \A o \in {"FILL", "INVERT", "TEMPLATE", "COMPLETE", "DRAIN"} : Spent(o)' = Spent(o)
    BY <2>1 DEF Spent
  <2>4. TimeSpent' = TimeSpent
    BY <2>3 DEF TimeSpent
  <2>5. TimeSpent <= clock.now - clock.opened
    BY <1>1 DEF PublishedInv, TimeBalances
  <2>6. (IF call' # Idle /\ timerbase' THEN call'.ticks ELSE clock'.now) - clock'.opened = clock.now - clock.opened
    BY <1>3, <1>5, <1>6
  <2>7. TimeSpent' <= (IF call' # Idle /\ timerbase' THEN call'.ticks ELSE clock'.now) - clock'.opened
    BY <2>4, <2>5, <2>6
  <2>8. ("DRAIN" \in Ops => stats[<<"OpTicks", "DRAIN">>] = stats[C("DrainTicks")])
    BY <1>1 DEF PublishedInv, TimeBalances
  <2>9. ("DRAIN" \in Ops => stats'[<<"OpTicks", "DRAIN">>] = stats'[C("DrainTicks")])
    BY <2>1, <2>2, <2>8
  <2> QED
    BY <2>7, <2>9 DEF TimeBalances
<1>21. stats'[C("BoardLockChecks")] = Tally(done', Ops, Outcomes) + Pending'
  BY <1>1, <1>3, <1>15, <1>16, <1>17 DEF PublishedInv
<1> QED
  BY <1>1, <1>3, <1>7, <1>8, <1>14, <1>18, <1>19, <1>20, <1>21 DEF AccountsInv, PublishedInv, TemplatesCounted

LEMMA GainedMembers ==
  ASSUME NEW op \in Ops, NEW outcome \in Outcomes
  PROVE  /\ \A o \in Ops : <<"OpCalls", o>> \in Gained(op, outcome) <=> o = op
         /\ \A o \in Ops \ {"DRAIN"} :
              <<"OpHardware", o>> \in Gained(op, outcome) <=> o = op /\ outcome \in {"hardware", "staged"}
         /\ C("FillCalls") \in Gained(op, outcome) <=> op = "FILL"
         /\ C("FillHardware") \in Gained(op, outcome) <=> op = "FILL" /\ Drew(outcome)
         /\ C("FillSoftware") \in Gained(op, outcome) <=> op = "FILL" /\ ~Drew(outcome)
         /\ C("TemplateSoftware") \in Gained(op, outcome) <=> op = "TEMPLATE" /\ outcome \in {"recovered", "software"}
         /\ C("CompleteHardware") \in Gained(op, outcome) <=> op = "COMPLETE" /\ outcome = "hardware"
         /\ C("BoardLockChecks") \notin Gained(op, outcome)
<1>1. CASE op = "DRAIN"
  <2>1. Gained(op, outcome) = {<<"OpCalls", op>>}
    BY <1>1 DEF Gained, OpCounts
  <2> QED
    BY <1>1, <2>1 DEF C
<1>2. CASE op # "DRAIN"
  <2>1. Gained(op, outcome) = OwnCounts(op, outcome) \cup OpCounts(op, Drew(outcome))
    BY <1>2 DEF Gained
  <2>2. \A c \in OpCounts(op, Drew(outcome)) : c[1] \in {"OpCalls", "OpHardware"} /\ c[2] = op
    BY DEF OpCounts
  <2>4. \A c \in OwnCounts(op, outcome) :
          c[1] \in {"FillCalls", "FillHardware", "FillSoftware", "TemplateSoftware", "CompleteHardware"}
    BY DEF OwnCounts, C
  <2>5. /\ <<"OpCalls", op>> \in OpCounts(op, Drew(outcome))
        /\ <<"OpHardware", op>> \in OpCounts(op, Drew(outcome)) <=> outcome \in {"hardware", "staged"}
    BY DEF OpCounts, Drew
  <2>7. /\ C("FillCalls") \in OwnCounts(op, outcome) <=> op = "FILL"
        /\ C("FillHardware") \in OwnCounts(op, outcome) <=> op = "FILL" /\ Drew(outcome)
        /\ C("FillSoftware") \in OwnCounts(op, outcome) <=> op = "FILL" /\ ~Drew(outcome)
        /\ C("TemplateSoftware") \in OwnCounts(op, outcome) <=> op = "TEMPLATE" /\ outcome \in {"recovered", "software"}
        /\ C("CompleteHardware") \in OwnCounts(op, outcome) <=> op = "COMPLETE" /\ outcome = "hardware"
    <3>1. CASE op = "FILL"
      BY <3>1 DEF OwnCounts, C
    <3>2. CASE op = "TEMPLATE"
      BY <3>2 DEF OwnCounts, C, Fell
    <3>3. CASE op = "COMPLETE"
      BY <3>3 DEF OwnCounts, C
    <3>4. CASE op \notin {"FILL", "TEMPLATE", "COMPLETE"}
      BY <3>4 DEF OwnCounts
    <3> QED
      BY <3>1, <3>2, <3>3, <3>4
  <2>8. \A n : C(n)[1] = n
    BY DEF C
  <2>9. \A o \in Ops : <<"OpCalls", o>> \in Gained(op, outcome) <=> o = op
    BY <2>1, <2>2, <2>4, <2>5
  <2>10. \A o \in Ops \ {"DRAIN"} :
           <<"OpHardware", o>> \in Gained(op, outcome) <=> o = op /\ outcome \in {"hardware", "staged"}
    BY <2>1, <2>2, <2>4, <2>5
  <2>11. \A n \in {"FillCalls", "FillHardware", "FillSoftware", "TemplateSoftware", "CompleteHardware"} :
           C(n) \in Gained(op, outcome) <=> C(n) \in OwnCounts(op, outcome)
    BY <2>1, <2>2, <2>8
  <2>13. C("BoardLockChecks") \notin Gained(op, outcome)
    BY <2>1, <2>2, <2>4, <2>8
  <2> QED
    BY <2>7, <2>9, <2>10, <2>11, <2>13
<1> QED
  BY <1>1, <1>2

(* Every return path adds to the stats what Gained says and the time of the *)
(* call; a rejected FillRect, nothing.                                      *)
LEMMA LeaveCharges ==
  ASSUME AccountsInv, NEW outcome \in Outcomes, Leave(outcome)
  PROVE  /\ node /\ call # Idle /\ call.op \in Ops /\ stats \in Stats
         /\ Elapsed \in Nat
         /\ IF call.op = "FILL" /\ outcome = "rejected" THEN stats' = stats
            ELSE Charged(stats, stats', Gained(call.op, outcome), call.op, Elapsed)
<1>1. node /\ call # Idle /\ call.op \in Ops /\ stats \in Stats
  BY DEF AccountsInv, CallInv, PublishedInv, Leave
<1>2. Elapsed \in Nat
  <2>1. call.ticks \in 0 .. clock.now /\ clock.now \in Int
    BY DEF AccountsInv, CallInv, ClockInv
  <2>2. ~timerbase => call.ticks = 0
    BY <1>1 DEF AccountsInv, CallInv
  <2> QED
    BY <2>1, <2>2 DEF Elapsed, Clock
<1>4. CASE call.op = "FILL"
  <2>1. stats' = RadeonFillRect(stats, outcome)
    BY <1>4 DEF Leave
  <2>2. CASE outcome = "rejected"
    BY <1>1, <1>2, <1>4, <2>1, <2>2 DEF RadeonFillRect
  <2>3. CASE outcome # "rejected"
    <3>1. Charged(stats, RadeonFillRect(stats, outcome), Gained("FILL", outcome), "FILL", Elapsed)
      BY <1>1, <1>2, <1>4, <2>3, FillCharges
    <3> QED
      BY <1>1, <1>2, <1>4, <2>1, <2>3, <3>1
  <2> QED
    BY <2>2, <2>3
<1>5. CASE call.op = "INVERT"
  <2>1. stats' = RadeonInvertRect(stats, outcome)
    BY <1>5 DEF Leave
  <2>2. Charged(stats, RadeonInvertRect(stats, outcome), Gained("INVERT", outcome), "INVERT", Elapsed)
    BY <1>1, <1>2, <1>5, InvertCharges
  <2> QED
    BY <1>1, <1>2, <1>5, <2>1, <2>2
<1>6. CASE call.op = "TEMPLATE"
  <2>1. stats' = RadeonBlitTemplate(stats, outcome)
    BY <1>6 DEF Leave
  <2>2. Charged(stats, RadeonBlitTemplate(stats, outcome), Gained("TEMPLATE", outcome), "TEMPLATE", Elapsed)
    BY <1>1, <1>2, <1>6, TemplateCharges
  <2> QED
    BY <1>1, <1>2, <1>6, <2>1, <2>2
<1>7. CASE call.op = "COMPLETE"
  <2>1. stats' = RadeonBlitRectNoMaskComplete(stats, outcome)
    BY <1>7 DEF Leave
  <2>2. Charged(stats, RadeonBlitRectNoMaskComplete(stats, outcome), Gained("COMPLETE", outcome), "COMPLETE", Elapsed)
    BY <1>1, <1>2, <1>7, CompleteCharges
  <2> QED
    BY <1>1, <1>2, <1>7, <2>1, <2>2
<1>8. CASE call.op = "DRAIN"
  <2>1. stats' = RadeonDebugEndDrain(stats)
    BY <1>8 DEF Leave
  <2>2. stats[<<"OpTicks", "DRAIN">>] = stats[C("DrainTicks")]
    BY <1>1, <1>8 DEF AccountsInv, PublishedInv, TimeBalances
  <2>3. Charged(stats, RadeonDebugEndDrain(stats), Gained("DRAIN", outcome), "DRAIN", Elapsed)
    BY <1>1, <1>2, <1>8, <2>2, DrainCharges
  <2> QED
    BY <1>1, <1>2, <1>8, <2>1, <2>3
<1> QED
  BY <1>1, <1>4, <1>5, <1>6, <1>7, <1>8, AccountsAssumption

LEMMA LeaveKeeps ==
  ASSUME AccountsInv, NEW outcome \in Outcomes, Leave(outcome)
  PROVE  AccountsInv'
<1> DEFINE op == call.op
<1> DEFINE el == Elapsed
<1> DEFINE rejected == op = "FILL" /\ outcome = "rejected"
<1> DEFINE cs == Gained(op, outcome)
<1>1. /\ node /\ call # Idle /\ op \in Ops /\ stats \in Stats
      /\ el \in Nat
  BY LeaveCharges
<1>2. IF rejected THEN stats' = stats ELSE Charged(stats, stats', cs, op, el)
  BY LeaveCharges
<1>3. PublishedInv
  BY <1>1 DEF AccountsInv
<1>4. node' = node /\ timerbase' = timerbase /\ clock' = clock /\ call' = Idle
  BY DEF Leave
<1> DEFINE d == <<op, outcome, Tally(done, {op}, {outcome}) + 1>>
<1>5. done' = done \cup {d}
  BY DEF Leave, Times, Tally
<1>6. el = IF timerbase THEN clock.now - call.ticks ELSE 0
  <2>1. ~timerbase => call.ticks = 0
    BY <1>1 DEF AccountsInv, CallInv
  <2>2. call.ticks \in Int /\ clock.now \in Int
    BY DEF AccountsInv, CallInv, ClockInv
  <2> QED
    BY <2>1, <2>2 DEF Elapsed, Clock
<1>8. /\ \A o \in Ops : <<"OpCalls", o>> \in cs <=> o = op
      /\ \A o \in Ops \ {"DRAIN"} : <<"OpHardware", o>> \in cs <=> o = op /\ outcome \in {"hardware", "staged"}
      /\ C("FillCalls") \in cs <=> op = "FILL"
      /\ C("FillHardware") \in cs <=> op = "FILL" /\ Drew(outcome)
      /\ C("FillSoftware") \in cs <=> op = "FILL" /\ ~Drew(outcome)
      /\ C("TemplateSoftware") \in cs <=> op = "TEMPLATE" /\ outcome \in {"recovered", "software"}
      /\ C("CompleteHardware") \in cs <=> op = "COMPLETE" /\ outcome = "hardware"
      /\ C("BoardLockChecks") \notin cs
  <2> HIDE DEF op
  <2> QED
    BY <1>1, GainedMembers
<1> HIDE DEF op, el, cs, d
<1>9. IsFiniteSet(done) /\ \A e \in done : e[3] <= Tally(done, {e[1]}, {e[2]})
  BY <1>3 DEF PublishedInv, Ledger
<1>10. \A ops, outcomes : Tally(done, ops, outcomes) \in Nat
  BY <1>9, TallyIsNatural
<1>11. d[1] = op /\ d[2] = outcome /\ d[3] = Tally(done, {op}, {outcome}) + 1
  BY DEF d
<1>12. d \notin done
  <2>1. SUFFICES ASSUME d \in done
                 PROVE  FALSE
    OBVIOUS
  <2>2. d[3] <= Tally(done, {op}, {outcome})
    BY <1>9, <1>11, <2>1
  <2>3. Tally(done, {op}, {outcome}) \in Nat
    BY <1>10
  <2> QED
    BY <1>11, <2>2, <2>3
<1>13. \A ops, outcomes : Tally(done', ops, outcomes) =
         Tally(done, ops, outcomes) + (IF op \in ops /\ outcome \in outcomes THEN 1 ELSE 0)
  <2>1. \A ops, outcomes : Tally(done \cup {d}, ops, outcomes) =
          Tally(done, ops, outcomes) + (IF d[1] \in ops /\ d[2] \in outcomes THEN 1 ELSE 0)
    BY <1>9, <1>12, TallyGrows
  <2> QED
    BY <1>5, <1>11, <2>1
<1>14. Pending = 1 /\ Pending' = 0
  BY <1>1, <1>4 DEF Pending
<1>15. Ledger'
  <2>1. Tally(done, Ops, Outcomes) + 1 <= MaxCalls
    BY <1>3, <1>14 DEF PublishedInv, Ledger
  <2>2. Tally(done, {op}, {outcome}) <= Tally(done, Ops, Outcomes)
    <3>1. {op} \subseteq Ops /\ {outcome} \subseteq Outcomes
      BY <1>1
    <3> QED
      BY <1>9, <3>1, TallyOfFewer
  <2>3. Tally(done, {op}, {outcome}) \in Nat /\ Tally(done, Ops, Outcomes) \in Nat
    BY <1>10
  <2>4. d[3] \in 1 .. MaxCalls
    BY <1>11, <2>1, <2>2, <2>3, AccountsAssumption
  <2>5. d \in Ops \X Outcomes \X (1 .. MaxCalls)
    BY <1>1, <1>11, <2>4 DEF d
  <2>6. done \subseteq Ops \X Outcomes \X (1 .. MaxCalls)
    BY <1>3 DEF PublishedInv, Ledger
  <2>7. done' \subseteq Ops \X Outcomes \X (1 .. MaxCalls)
    BY <1>5, <2>5, <2>6
  <2>8. IsFiniteSet(done')
    BY <1>5, <1>9, FS_AddElement
  <2>9. ASSUME NEW e \in done'
        PROVE  e[3] <= Tally(done', {e[1]}, {e[2]})
    <3>1. CASE e \in done
      <4>1. e[3] \in Int
        BY <2>6, <3>1
      <4>2. e[3] <= Tally(done, {e[1]}, {e[2]})
        BY <1>9, <3>1
      <4>3. Tally(done, {e[1]}, {e[2]}) \in Nat
        BY <1>10
      <4>4. Tally(done', {e[1]}, {e[2]}) >= Tally(done, {e[1]}, {e[2]})
        BY <1>13, <4>3
      <4>5. Tally(done', {e[1]}, {e[2]}) \in Int
        BY <1>13, <4>3
      <4> QED
        BY <4>1, <4>2, <4>3, <4>4, <4>5
    <3>2. CASE e = d
      <4>1. Tally(done', {op}, {outcome}) = Tally(done, {op}, {outcome}) + 1
        BY <1>13
      <4> QED
        BY <1>11, <2>3, <3>2, <4>1
    <3> QED
      BY <1>5, <3>1, <3>2
  <2>10. Tally(done', Ops, Outcomes) + Pending' <= MaxCalls
    BY <1>1, <1>13, <1>14, <2>1, <2>3
  <2> QED
    BY <2>7, <2>8, <2>9, <2>10 DEF Ledger
<1>16. stats' \in Stats
  BY <1>1, <1>2 DEF Charged
<1>17. \A c \in Balanced : stats'[c] = IF ~rejected /\ c \in cs THEN stats[c] + 1 ELSE stats[c]
  BY <1>2 DEF Charged
<1>18. \A c \in Timers : stats'[c] = IF ~rejected /\ c \in TimersOf(op) THEN stats[c] + el ELSE stats[c]
  BY <1>2 DEF Charged
<1>19. rejected <=> op = "FILL" /\ outcome = "rejected"
  OBVIOUS
<1> HIDE DEF rejected
<1>20. stats'[C("BoardLockChecks")] = Tally(done', Ops, Outcomes) + Pending'
  <2>1. stats'[C("BoardLockChecks")] = stats[C("BoardLockChecks")]
    BY <1>8, <1>17, BalancedCounters
  <2>2. stats[C("BoardLockChecks")] = Tally(done, Ops, Outcomes) + 1
    BY <1>3, <1>14 DEF PublishedInv
  <2>3. Tally(done', Ops, Outcomes) = Tally(done, Ops, Outcomes) + 1 /\ Tally(done, Ops, Outcomes) \in Nat
    BY <1>1, <1>10, <1>13
  <2> QED
    BY <1>14, <2>1, <2>2, <2>3
<1>21. Balances'
  <2>0. Balances
    BY <1>3 DEF PublishedInv
  <2>t. \A c \in Balanced : stats[c] \in Nat
    BY <1>1, NamedCounters DEF Stats
  <2>1. ASSUME NEW o \in Ops
        PROVE  stats'[<<"OpCalls", o>>] = Tally(done', {o}, Attributed(o))
    <3>1. stats[<<"OpCalls", o>>] = Tally(done, {o}, Attributed(o))
      BY <2>0 DEF Balances
    <3>2. stats'[<<"OpCalls", o>>] = IF ~rejected /\ o = op THEN stats[<<"OpCalls", o>>] + 1 ELSE stats[<<"OpCalls", o>>]
      BY <1>8, <1>17, BalancedCounters
    <3>3. (op \in {o} /\ outcome \in Attributed(o)) <=> (~rejected /\ o = op)
      BY <1>19 DEF Attributed
    <3>4. Tally(done, {o}, Attributed(o)) \in Nat
      BY <1>10
    <3> QED
      BY <1>13, <3>1, <3>2, <3>3, <3>4
  <2>2. ASSUME NEW o \in Ops \ {"DRAIN"}
        PROVE  stats'[<<"OpHardware", o>>] = Tally(done', {o}, {"hardware", "staged"})
    <3>1. stats[<<"OpHardware", o>>] = Tally(done, {o}, {"hardware", "staged"})
      BY <2>0 DEF Balances
    <3>2. <<"OpHardware", o>> \in cs <=> o = op /\ outcome \in {"hardware", "staged"}
      BY <1>8
    <3>3. outcome \in {"hardware", "staged"} => ~rejected
      BY <1>19
    <3>4. stats'[<<"OpHardware", o>>] =
            IF o = op /\ outcome \in {"hardware", "staged"} THEN stats[<<"OpHardware", o>>] + 1 ELSE stats[<<"OpHardware", o>>]
      BY <1>17, <3>2, <3>3, BalancedCounters
    <3>5. Tally(done, {o}, {"hardware", "staged"}) \in Nat
      BY <1>10
    <3>6. Tally(done', {o}, {"hardware", "staged"}) = Tally(done, {o}, {"hardware", "staged"}) +
            (IF op \in {o} /\ outcome \in {"hardware", "staged"} THEN 1 ELSE 0)
      BY <1>13
    <3> QED
      BY <3>1, <3>4, <3>5, <3>6
  <2>3. stats'[C("FillCalls")] = stats'[C("FillHardware")] + stats'[C("FillSoftware")]
    <3>1. stats[C("FillCalls")] = stats[C("FillHardware")] + stats[C("FillSoftware")]
      BY <2>0 DEF Balances
    <3>2. /\ stats[C("FillCalls")] \in Nat /\ stats[C("FillHardware")] \in Nat /\ stats[C("FillSoftware")] \in Nat
      BY <2>t, BalancedCounters
    <3>3. /\ stats'[C("FillCalls")] = IF ~rejected /\ op = "FILL" THEN stats[C("FillCalls")] + 1 ELSE stats[C("FillCalls")]
          /\ stats'[C("FillHardware")] =
               IF ~rejected /\ op = "FILL" /\ Drew(outcome) THEN stats[C("FillHardware")] + 1 ELSE stats[C("FillHardware")]
          /\ stats'[C("FillSoftware")] =
               IF ~rejected /\ op = "FILL" /\ ~Drew(outcome) THEN stats[C("FillSoftware")] + 1 ELSE stats[C("FillSoftware")]
      BY <1>8, <1>17, BalancedCounters
    <3> QED
      BY <3>1, <3>2, <3>3
  <2>4. stats'[C("TemplateSoftware")] = Tally(done', {"TEMPLATE"}, {"recovered", "software"})
    <3>1. stats[C("TemplateSoftware")] = Tally(done, {"TEMPLATE"}, {"recovered", "software"})
      BY <2>0 DEF Balances
    <3>2. C("TemplateSoftware") \in Balanced /\ (C("TemplateSoftware") \in cs <=> op = "TEMPLATE" /\ outcome \in {"recovered", "software"})
      BY <1>8, BalancedCounters
    <3>3. op = "TEMPLATE" => ~rejected
      BY <1>19
    <3>4. Tally(done, {"TEMPLATE"}, {"recovered", "software"}) \in Nat
      BY <1>10
    <3>5. Tally(done', {"TEMPLATE"}, {"recovered", "software"}) = Tally(done, {"TEMPLATE"}, {"recovered", "software"}) +
            (IF op \in {"TEMPLATE"} /\ outcome \in {"recovered", "software"} THEN 1 ELSE 0)
      BY <1>13
    <3> QED
      BY <1>17, <3>1, <3>2, <3>3, <3>4, <3>5
  <2>5. stats'[C("CompleteHardware")] = Tally(done', {"COMPLETE"}, {"hardware"})
    <3>1. stats[C("CompleteHardware")] = Tally(done, {"COMPLETE"}, {"hardware"})
      BY <2>0 DEF Balances
    <3>2. C("CompleteHardware") \in Balanced /\ (C("CompleteHardware") \in cs <=> op = "COMPLETE" /\ outcome = "hardware")
      BY <1>8, BalancedCounters
    <3>3. op = "COMPLETE" => ~rejected
      BY <1>19
    <3>4. Tally(done, {"COMPLETE"}, {"hardware"}) \in Nat
      BY <1>10
    <3>5. Tally(done', {"COMPLETE"}, {"hardware"}) = Tally(done, {"COMPLETE"}, {"hardware"}) +
            (IF op \in {"COMPLETE"} /\ outcome \in {"hardware"} THEN 1 ELSE 0)
      BY <1>13
    <3> QED
      BY <1>17, <3>1, <3>2, <3>3, <3>4, <3>5
  <2>8. \A o \in Ops : Attributed(o)' = Attributed(o)
    BY DEF Attributed
  <2> QED
    BY <2>1, <2>2, <2>3, <2>4, <2>5, <2>8 DEF Balances
<1>22. TimeBalances'
  <2>0. TimeBalances
    BY <1>3 DEF PublishedInv
  <2>1. \A o \in Ops : <<"OpTicks", o>> \in TimersOf(op) <=> o = op
    BY DEF TimersOf, C
  <2>2. C("DrainTicks") \in TimersOf(op) <=> op = "DRAIN"
    BY DEF TimersOf, C
  <2>3. "DRAIN" \in Ops => stats'[<<"OpTicks", "DRAIN">>] = stats'[C("DrainTicks")]
    <3>1. "DRAIN" \in Ops => stats[<<"OpTicks", "DRAIN">>] = stats[C("DrainTicks")]
      BY <2>0 DEF TimeBalances
    <3> QED
      BY <1>18, <2>1, <2>2, <3>1, BalancedCounters
  <2>4. \A o \in Ops : stats'[<<"OpTicks", o>>] =
          IF ~rejected /\ o = op THEN stats[<<"OpTicks", o>>] + el ELSE stats[<<"OpTicks", o>>]
    BY <1>18, <2>1, BalancedCounters
  <2>5. \A o \in {"FILL", "INVERT", "TEMPLATE", "COMPLETE", "DRAIN"} :
          Spent(o)' = IF ~rejected /\ o = op THEN Spent(o) + el ELSE Spent(o)
    BY <1>1, <2>4 DEF Spent
  <2>6. \A o \in {"FILL", "INVERT", "TEMPLATE", "COMPLETE", "DRAIN"} : Spent(o) \in Nat
    BY <1>1, SpentIsNatural
  <2>7. TimeSpent' <= TimeSpent + el /\ TimeSpent' \in Int /\ TimeSpent \in Int
    <3>1. CASE rejected
      <4>1. TimeSpent' = TimeSpent
        BY <2>5, <3>1 DEF TimeSpent
      <4>2. TimeSpent \in Int
        BY <2>6 DEF TimeSpent
      <4> QED
        BY <1>1, <4>1, <4>2
    <3>2. CASE ~rejected
      <4>1. op \in {"FILL", "INVERT", "TEMPLATE", "COMPLETE", "DRAIN"}
        BY <1>1, AccountsAssumption
      <4>2. \A o \in {"FILL", "INVERT", "TEMPLATE", "COMPLETE", "DRAIN"} : Spent(o)' = Spent(o) + (IF o = op THEN el ELSE 0)
        BY <2>5, <2>6, <3>2
      <4> QED
        BY <1>1, <2>6, <4>1, <4>2 DEF TimeSpent
    <3> QED
      BY <3>1, <3>2
  <2>8. TimeSpent <= (IF timerbase THEN call.ticks ELSE clock.now) - clock.opened
    BY <1>1, <2>0 DEF TimeBalances
  <2>9. clock.now \in Int /\ clock.opened \in Int /\ call.ticks \in Int
    BY DEF AccountsInv, ClockInv, CallInv
  <2>10. TimeSpent' <= clock.now - clock.opened
    <3>1. CASE timerbase
      BY <1>1, <1>6, <2>7, <2>8, <2>9, <3>1
    <3>2. CASE ~timerbase
      BY <1>1, <1>6, <2>7, <2>8, <2>9, <3>2
    <3> QED
      BY <3>1, <3>2
  <2>11. (IF call' # Idle /\ timerbase' THEN call'.ticks ELSE clock'.now) - clock'.opened = clock.now - clock.opened
    BY <1>4
  <2> QED
    BY <2>3, <2>10, <2>11 DEF TimeBalances
<1>23. ClockInv'
  BY <1>4 DEF AccountsInv, ClockInv
<1>24. CallInv'
  BY <1>4, <1>23 DEF CallInv, ClockInv, Idle, StartTime
<1>25. PICK way \in Ways(op, accel) : way.outcome = outcome /\ accel' = way.accel
  BY DEF Leave, op
<1>26. EngineInv(accel)
  BY DEF AccountsInv
<1>27. /\ EngineInv(accel')
       /\ accel'.n["TemplateHardware"] =
            accel.n["TemplateHardware"] + (IF op = "TEMPLATE" /\ outcome = "hardware" THEN 1 ELSE 0)
  BY <1>25, <1>26, WaysKeep
<1>28. TemplatesCounted'
  BY <1>3, <1>13, <1>27 DEF PublishedInv, TemplatesCounted
<1> QED
  BY <1>1, <1>4, <1>15, <1>16, <1>20, <1>21, <1>22, <1>23, <1>24, <1>27, <1>28 DEF AccountsInv, PublishedInv

LEMMA ServiceUsesEngineKeeps ==
  ASSUME AccountsInv, ServiceUsesEngine
  PROVE  AccountsInv'
<1>1. /\ node' = node /\ timerbase' = timerbase /\ clock' = clock /\ stats' = stats
      /\ call' = call /\ done' = done
  BY DEF ServiceUsesEngine
<1>2. EngineInv(accel') /\ accel'.n["TemplateHardware"] = accel.n["TemplateHardware"]
  BY ServiceKeeps DEF AccountsInv, ServiceUsesEngine
<1>3. ClockInv' /\ CallInv'
  BY <1>1 DEF AccountsInv, ClockInv, CallInv
<1>4. node /\ PublishedInv
  BY DEF AccountsInv, ServiceUsesEngine
<1>5. Pending' = Pending /\ TimeSpent' = TimeSpent
  BY <1>1 DEF Pending, TimeSpent, Spent
<1>6. Ledger' /\ Balances' /\ TimeBalances' /\ TemplatesCounted'
  BY <1>1, <1>2, <1>4, <1>5 DEF PublishedInv, Ledger, Balances, Attributed, TimeBalances, TemplatesCounted
<1> QED
  BY <1>1, <1>2, <1>3, <1>4, <1>5, <1>6 DEF AccountsInv, PublishedInv

LEMMA AccountsStep ==
  ASSUME AccountsInv, [AccountsNext]_accountvars
  PROVE  AccountsInv'
<1>1. CASE OpenStats
  BY <1>1, OpenStatsKeeps
<1>2. CASE RadeonDebugClose
  BY <1>2, RadeonDebugCloseKeeps
<1>3. CASE TimePasses
  BY <1>3, TimePassesKeeps
<1>4. CASE \E op \in Ops : Enter(op)
  BY <1>4, EnterKeeps
<1>5. CASE \E outcome \in Outcomes : Leave(outcome)
  BY <1>5, LeaveKeeps
<1>7. CASE ServiceUsesEngine
  BY <1>7, ServiceUsesEngineKeeps
<1>6. CASE UNCHANGED accountvars
  <2>1. /\ node' = node /\ timerbase' = timerbase /\ clock' = clock /\ stats' = stats
        /\ accel' = accel /\ call' = call /\ done' = done
    BY <1>6 DEF accountvars
  <2>2. ClockInv <=> ClockInv'
    BY <2>1 DEF ClockInv
  <2>3. CallInv <=> CallInv'
    BY <2>1 DEF CallInv
  <2>4. Pending' = Pending
    BY <2>1 DEF Pending
  <2>5. TimeSpent' = TimeSpent
    BY <2>1 DEF TimeSpent, Spent
  <2>6. Ledger <=> Ledger'
    BY <2>1, <2>4 DEF Ledger
  <2>7. Balances <=> Balances'
    BY <2>1 DEF Balances, Attributed
  <2>8. TimeBalances <=> TimeBalances'
    BY <2>1, <2>5 DEF TimeBalances
  <2>9. PublishedInv <=> PublishedInv'
    BY <2>1, <2>4, <2>6, <2>7, <2>8 DEF PublishedInv, TemplatesCounted
  <2> QED
    BY <2>1, <2>2, <2>3, <2>9 DEF AccountsInv
<1> QED
  BY <1>1, <1>2, <1>3, <1>4, <1>5, <1>6, <1>7 DEF AccountsNext

LEMMA AccountsInvBalances ==
  ASSUME AccountsInv
  PROVE  AccountsBalance
<1> SUFFICES ASSUME node, call = Idle
             PROVE  AccountsBalance
  BY DEF AccountsBalance
<1>1. PublishedInv
  BY DEF AccountsInv
<1>2. Balances /\ TimeBalances
  BY <1>1 DEF PublishedInv
<1>3. \A ops, outcomes : Times(ops, outcomes) = Tally(done, ops, outcomes)
  BY DEF Times, Tally
<1>4. stats[C("BoardLockChecks")] = Times(Ops, Outcomes)
  <2>1. Tally(done, Ops, Outcomes) \in Nat
    BY <1>1, TallyIsNatural DEF PublishedInv, Ledger
  <2> QED
    BY <1>1, <1>3, <2>1 DEF PublishedInv, Pending
<1>5. Spent("FILL") + Spent("INVERT") + Spent("TEMPLATE") + Spent("COMPLETE") + Spent("DRAIN") <= clock.now - clock.opened
  BY <1>2 DEF TimeBalances, TimeSpent
<1>6. accel.n["TemplateHardware"] = Times({"TEMPLATE"}, {"hardware"})
  BY <1>1, <1>3 DEF PublishedInv, TemplatesCounted
<1>7. EngineAccounts(accel)
  BY EngineInvAccounts DEF AccountsInv
<1> QED
  BY <1>2, <1>3, <1>4, <1>5, <1>6, <1>7 DEF Balances, AccountsBalance

LEMMA AccountsInvTyped ==
  ASSUME AccountsInv
  PROVE  AccountsTypeOK
<1>1. node => stats \in [Counters -> Nat]
  BY DEF AccountsInv, PublishedInv, Stats
<1>2. done \subseteq Ops \X Outcomes \X (1 .. MaxCalls)
  BY DEF AccountsInv, PublishedInv, Ledger
<1>3. call.op \in Ops \cup {"none"} /\ call.ticks \in 0 .. clock.now
  BY DEF AccountsInv, CallInv, Idle
<1>4. accel \in Accelerators
  BY DEF AccountsInv, EngineInv, EngineSound, EngineCounted
<1> QED
  BY <1>1, <1>2, <1>3, <1>4 DEF AccountsInv, ClockInv, AccountsTypeOK

(* Between calls the counters a debug build publishes add up to what        *)
(* happened, and the time attributed is time that passed (radeon_debug.c,   *)
(* and the callbacks of radeon_accel.c that call its hooks).                *)
THEOREM AccountsStayBalanced == AccountsSpec => [](AccountsBalance /\ AccountsTypeOK)
<1>1. AccountsInit => AccountsInv
  BY AccountsInitInv
<1>2. AccountsInv /\ [AccountsNext]_accountvars => AccountsInv'
  BY AccountsStep
<1>3. AccountsInv => AccountsBalance /\ AccountsTypeOK
  BY AccountsInvBalances, AccountsInvTyped
<1> QED
  BY <1>1, <1>2, <1>3, PTL DEF AccountsSpec
==============================================================================
