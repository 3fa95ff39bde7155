------------------------------ MODULE MCRequests -------------------------------
(* Small instances of the requests: every dispatch, bitmap, info size and    *)
(* fence of small numbers, and batches that differ from a good one in one    *)
(* dword changed, left out or put in.                                        *)
EXTENDS Requests, TLC

RequestSegmentDwords == <<4, 6, 0>>
RequestSegmentGpu == <<18, 26, 0>>
RequestBefore == <<"SE_VAP_CNTL", "SE_CNTL">>
RequestAfter == <<"RB3D_CNTL">>
RequestTarget == (8 :> [width |-> 3, height |-> 2, pitch |-> 4]) @@ (16 :> [width |-> 2, height |-> 2, pitch |-> 4])
RequestMemory == [base |-> 4, size |-> 13, installed |-> 14, space |-> 12, gpu |-> 16]
RequestInfoSize == <<2, 4, 5, 7>>

Dispatches == [segment : 1 .. 4, offset : 0 .. 8, count : 0 .. 8,
               flags : {"none", "NO_FENCE", "bad"}, interface : {17, 18, 19}]

Vertex(x, y) == <<Val(x), Val(y), Val(0)>>
Good(address, width, height, pitch, vertices) ==
  <<Header("SE_VAP_CNTL"), Val(0), Header("SE_CNTL"), Val(0),
    Header("RE_WIDTH_HEIGHT"), Val(Extents(width, height)), Header("RB3D_CNTL"), Val(0),
    Header("RB3D_COLOROFFSET"), Val(address), Header("RB3D_COLORPITCH"), Val(pitch),
    Draw(3 * Len(vertices)), Val(Len(vertices))>> \o FlattenSeq(vertices)

Stock == Good(8, 3, 2, 4, <<Vertex(0, 0), Vertex(3, 0), Vertex(0, 2)>>)
Dwords == {Fill, Header("SE_CNTL"), Header("RB3D_COLOROFFSET"), Header("MC_FB_LOCATION"),
           Draw(3), Draw(9), Draw(12), Val(0), Val(1), Val(3), Val(8), Val(16), Val(-1)}
Batches ==
  {<<>>, <<Fill>>, <<Fill, Fill>>, Stock, <<Fill>> \o Stock, Stock \o <<Fill>>, Stock \o Stock,
   Good(16, 2, 2, 4, <<Vertex(0, 0), Vertex(2, 2), Vertex(1, 1)>>),
   Good(16, 3, 2, 4, <<Vertex(0, 0), Vertex(2, 2), Vertex(1, 1)>>),
   Good(8, 3, 2, 4, <<Vertex(0, 0), Vertex(1, 0), Vertex(1, 1), Vertex(0, 1)>>)}
  \cup {[Stock EXCEPT ![i] = d] : i \in DOMAIN Stock, d \in Dwords}
  \cup {RemoveAt(Stock, i) : i \in DOMAIN Stock}
  \cup {InsertAt(Stock, i, d) : i \in DOMAIN Stock, d \in Dwords}

Bitmaps == [address : {0, 3, 4, 5, 15, 16}, pitch : {0, 3, 4, 8}, width : {0, 1, 3, 4, 9, 17},
            height : {0, 1, 3, 12}, perPixel : {1, 2, 4}, format : {"CLUT", "B8G8R8A8", "planar"}]

RequestAsked ==
  [dispatch |-> Dispatches, batch |-> Batches, import |-> Bitmaps,
   info |-> [size : 0 .. 8], fence |-> [last : 0 .. 31, fence : 0 .. 31]]
RequestRewrites ==
  [dispatch |-> [segment : {1, 3}, offset : {0, 6}, count : {8}, flags : {"none"}, interface : {19}],
   batch |-> {[Stock EXCEPT ![10] = Val(99)], [Stock EXCEPT ![15] = Val(9)]}]
==============================================================================
