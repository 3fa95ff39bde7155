-------------------------------- MODULE MCBios ---------------------------------
(* Cards that are cold or posted, and ROMs that differ from a good one in    *)
(* one respect.                                                              *)
EXTENDS Bios

Op(op) == [op |-> op, reg |-> "OTHER", and |-> {}, or |-> {}, value |-> <<0, 0>>]
Cell == Op("operand")
Entry(op, n, reg, and, or, value) ==
  <<[Op(op) EXCEPT !.reg = reg, !.and = and, !.or = or, !.value = value]>> \o [i \in 1 .. n |-> Cell]
RomEntry(op, n, and, or) == Entry(op, n, "OTHER", and, or, <<0, 0>>)
Tell(reg, value) == Entry("writeDirect", 2, reg, {}, {}, value)
EndMark == <<Op("end")>>
GoodInit == Entry("writeDirect", 2, "CRTC", {}, {"enable"}, <<0, 0>>)
            \o Entry("maskDirect", 4, "BUS", {"enable"}, {"disable"}, <<0, 0>>)
            \o Entry("maskIndexed", 4, "EXT", {}, {"disable"}, <<0, 0>>) \o RomEntry("waitMc", 1, {}, {}) \o EndMark
GoodPll == RomEntry("writePll", 4, {}, {"disable"}) \o RomEntry("powerBit", 0, {}, {})
           \o RomEntry("maskPll", 3, {"disable"}, {"enable"}) \o RomEntry("waitPll", 0, {}, {}) \o EndMark

BadTables ==
  {<<>>, EndMark, <<Cell>>, <<Op("unknown")>>, RomEntry("unknownSpecial", 1, {}, {}) \o EndMark,
   RomEntry("writeDirect", 1, {}, {"enable"}), RomEntry("maskIndexed", 3, {}, {}),
   Entry("writeDirect", 2, "CRTC2", {}, {"enable"}, <<0, 0>>) \o <<Op("unknown")>>,
   RomEntry("delay", 1, {}, {}), [i \in 1 .. 7 |-> Op("waitPll")]}

(* Tables that write what the call goes on to use, or registers that are    *)
(* not there.                                                               *)
BoldTables ==
  {Entry("writeIndexed", 2, "HOST", {}, {"enable"}, <<0, 0>>) \o Tell("memsize", <<n, 0>>) \o Tell("aperture", <<8, 0>>)
     \o Tell("agp", g) \o EndMark : n \in {0, 8, 600}, g \in {<<8, 12>>, <<4, 8>>}}
  \cup {Tell("base", <<3, 0>>) \o Tell("fb", <<2, 5>>) \o EndMark, Tell("outside", <<0, 0>>) \o EndMark,
        Entry("maskIndexed", 4, "outside", {}, {}, <<0, 0>>) \o EndMark}
  \cup {Entry("maskDirect", 4, r, {}, {b}, <<0, 0>>) \o <<last>> : r \in {"SEPROM", "VIPH", "CRTC2"}, b \in Bit,
        last \in {Op("end"), Op("unknown")}}
BoldPll == {Entry("writePll", 4, "divider", {}, {}, <<d, 0>>) \o EndMark : d \in {1, 9, 65}}

GoodImage == [signature |-> TRUE, pcir |-> TRUE, blocks |-> TRUE, device |-> TRUE, x86 |-> TRUE, sum |-> TRUE, last |-> TRUE]
GoodRom ==
  [size |-> 128, hidden |-> FALSE, images |-> <<GoodImage>>, atom |-> FALSE, revision |-> 8, directory |-> 100,
   detected |-> 0, configured |-> 32, dviAsked |-> TRUE, external |-> FALSE, connector |-> "dvi",
   dfp |-> 4, rows |-> <<5, 9, 9>>, pllInfo |-> [ref |-> 27, div |-> 12, min |-> 13, max |-> 20],
   tables |-> [asic1 |-> GoodInit, pll |-> GoodPll, asic2 |-> <<>>, asic4 |-> EndMark,
               sdram |-> RomEntry("sdram", 2, {}, {"enable"}) \o EndMark, asic3 |-> <<>>, memsize |-> <<>>, dynamic |-> <<>>]]

BiosRoms ==
  {GoodRom} \cup {[GoodRom EXCEPT !.tables[t] = cells] : t \in {"asic1", "pll", "sdram", "dynamic"}, cells \in BadTables}
  \cup {[GoodRom EXCEPT !.tables["asic2"] = cells] : cells \in BoldTables}
  \cup {[GoodRom EXCEPT !.tables["dynamic"] = cells] : cells \in BoldPll}
  \cup {[GoodRom EXCEPT !.size = s, !.hidden = h, !.revision = r] : s \in {0, 128}, h \in BOOLEAN, r \in {0, 8, 9, 17}}
  \cup {[GoodRom EXCEPT !.images = i] : i \in {<<>>, <<[GoodImage EXCEPT !.x86 = FALSE, !.last = FALSE], GoodImage>>,
          <<[GoodImage EXCEPT !.sum = FALSE]>>, <<[GoodImage EXCEPT !.signature = FALSE], GoodImage>>,
          <<[GoodImage EXCEPT !.device = FALSE], GoodImage>>}}
  \cup {[GoodRom EXCEPT !.detected = d, !.configured = c] : d \in {0, 3, 8}, c \in {0, 1, 2, 100}}
  \cup {[GoodRom EXCEPT !.pllInfo = [ref |-> f, div |-> d, min |-> a, max |-> b]] :
          f \in {0, 14}, d \in {0, 1, 6, 99}, a \in {0, 5, 52, 90}, b \in {0, 3, 60}}
  \cup {[GoodRom EXCEPT !.pllInfo = <<>>, !.dfp = d, !.rows = r] : d \in {2, 3},
          r \in {<<>>, <<0, 4>>, <<4, 3>>, <<2, 4, 6, 8, 9>>, <<7, 7>>}}
  \cup {[GoodRom EXCEPT !.dviAsked = a, !.external = e, !.connector = c, !.atom = ~a] : a, e \in BOOLEAN, c \in {"dvi", "other"}}

(* A display runs or not; the ROM's own switch and the host's path are on.  *)
AsFound(enabled) ==
  [r \in Register |-> IF r \in {"CRTC", "EXT"} THEN (IF enabled THEN {"enable"} ELSE {})
                      ELSE IF r \in {"BUS", "SEPROM"} THEN Bit ELSE IF r \in {"ROM_ADDRESS", "CRTC2"} THEN {} ELSE {"enable"}]
ACard(enabled, memsize) ==
  [regs |-> AsFound(enabled), pll |-> {"disable"}, memsize |-> memsize,
   divider |-> 7, aperture |-> 16, bar |-> 16, start |-> 0, fb |-> <<0, 0>>, base |-> 0, agp |-> <<16, 40>>]
BiosCards ==
  {[ACard(e, m) EXCEPT !.divider = d, !.regs["CRTC2"] = b] : e \in BOOLEAN, m \in {0, 2, 16, 600}, d \in {0, 1}, b \in {{}, {"enable"}}}
  \cup {[ACard(e, 16) EXCEPT !.aperture = a, !.bar = w, !.start = s, !.agp = g] :
          e \in {TRUE}, a \in {2, 12, 16, 64}, w \in {16, 32}, s \in {0, 64, 96}, g \in {<<16, 40>>, <<4, 8>>, <<112, 8>>}}

BiosSetups ==
  (BiosRoms \X {[ACard(e, m) EXCEPT !.divider = d] : e \in BOOLEAN, m \in {0, 16}, d \in {0, 7}})
  \cup ({GoodRom, [GoodRom EXCEPT !.size = 0], [GoodRom EXCEPT !.configured = 1]} \X BiosCards)
==============================================================================
