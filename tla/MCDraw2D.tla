------------------------------- MODULE MCDraw2D -------------------------------
(* Values for Draw2D: three bitmaps in sixteen addresses and one outside.   *)
EXTENDS Draw2D

MCPlane == 0..3
A == [memory |-> 0, pitch |-> 4]
B == [memory |-> 6, pitch |-> 4]
Narrow == [memory |-> 12, pitch |-> 2]
Outside == [memory |-> -8, pitch |-> 4]
MCRender == {A, B, Outside}
MCPairs == {<<A, B>>, <<B, A>>, <<B, Narrow>>, <<B, B>>}
MCRects == {<<0, 0, 2, 2>>, <<1, 1, 1, 2>>}
MCShifts == {<<1, 0>>, <<0, -1>>, <<-1, 1>>}
MCDrawFormats == {1, 2}
MCPens == {{0, 3}}
MCMasks == {{0, 1, 2, 3}, {3}}   \* no bitmap has the plane of the second
MCOpcodes == {6, 12}
Rows(a, b, c, d) == <<<<a, b, a, b>>, <<c, d, c, d>>>>
MCPatterns == {[size |-> 1, mode |-> "jam2", onboard |-> FALSE, rows |-> Rows(1, 0, 0, 0),
                xoff |-> 1, yoff |-> 0, fg |-> {1}, bg |-> {2}]}
MCTemplates == {[mode |-> m, onboard |-> FALSE, rows |-> Rows(1, 1, 0, 1), xoff |-> 1,
                 fg |-> {3}, bg |-> {0}] : m \in {"jam1", "jam2"}}
MCLines == {[x |-> 0, y |-> 1, dx |-> 1, dy |-> -1, jam2 |-> TRUE, solid |-> TRUE, inverse |-> FALSE,
             complement |-> FALSE, pen |-> {2}],
            [x |-> 1, y |-> 1, dx |-> -1, dy |-> 0, jam2 |-> FALSE, solid |-> TRUE, inverse |-> FALSE,
             complement |-> FALSE, pen |-> {1}]}
MCPlanars == {[planes |-> <<[kind |-> "data", onboard |-> FALSE, rows |-> Rows(1, 0, 1, 1)],
                            [kind |-> "ones", onboard |-> FALSE, rows |-> Rows(0, 0, 0, 0)],
                            [kind |-> "data", onboard |-> FALSE, rows |-> Rows(0, 1, 1, 0)]>>,
               rowBits |-> 4, rowCount |-> 2, copy |-> TRUE, x |-> 1, y |-> 0]}
MCCim == [s \in SUBSET (1..3) |-> IF s = {2} THEN {} ELSE IF s = {1, 2} THEN {0, 2} ELSE IF s = {2, 3} THEN {1} ELSE {0, 2}]
MCOpenings == {<<13, FALSE>>, <<16, TRUE>>}
===============================================================================
