------------------------------- MODULE MCDisplay -------------------------------
(* Values for Display: an analogue and a DVI board, two modes, one doubled. *)
EXTENDS Display
OneBoard(tmds, limit) == [ref |-> 27000, div |-> 12, min |-> 200000, max |-> 400000, tmds |-> tmds,
                       limit |-> limit]
MCBoards == {OneBoard(<<>>, 400000),
             OneBoard(<<[limit |-> 4000, value |-> 1], [limit |-> 20000, value |-> 2]>>, 1000000)}
Mode(w, h, depth, ht, vt, dbl, hz) ==
  [w |-> w, h |-> h, depth |-> depth, ht |-> ht, hss |-> 16, hsw |-> 96, vt |-> vt, vss |-> 10,
   vsw |-> 2, doublescan |-> dbl, interlaced |-> FALSE, hz |-> hz]
MCTiming == [startup |-> Mode(640, 480, 8, 800, 525, FALSE, 251750),
             low |-> Mode(320, 240, 16, 480, 262, TRUE, 130000),
             high |-> Mode(800, 600, 8, 1056, 628, FALSE, 400000),
             tall |-> Mode(800, 1030, 8, 1056, 1060, TRUE, 400000)]
MCModes == {"low", "high", "tall"}
MCClocks == {130000, 1700000}
MCFormats == {0, 1, 2}
MCPannings == {[memory |-> 64, width |-> 832, x |-> 5, y |-> 1], [memory |-> 246464, width |-> 320, x |-> 0, y |-> 0]}
MCMouse == {<<-2, 3>>, <<7, -1>>}
MCColors == {7}
=============================================================================
