----------------------------- MODULE MCBatchApp -----------------------------
(***************************************************************************)
(* Streams of up to five frames: an image in a batch of one, the others in *)
(* batches of two and of three, so that the last batch may be full, partly *)
(* filled with one or two frames, or empty.  A wide frame that is shrunk,  *)
(* a tall one that is enlarged and letterboxed; blocks of two threads a    *)
(* side, so that buffers end within a block.  The network has three        *)
(* candidates and two classes: the candidates of a frame are above, at and *)
(* below the threshold in turn, the classes may be equal; frame 4 has      *)
(* three sure ones, one more than there are rows.                          *)
(***************************************************************************)
EXTENDS BatchApp

MCGeometries == {[src |-> [h |-> 2, w |-> 3], dst |-> [h |-> 2, w |-> 2]],
                 [src |-> [h |-> 2, w |-> 1], dst |-> [h |-> 3, w |-> 3]]}

MCPixel(f, y, x, c) == (f * 37 + y * 101 + x * 59 + c * 17) % 256

MCAnswer == [f \in 0 .. MaxFrames |->
               [i \in 0 .. answerSize - 1 |->
                  LET a == i \div candidates
                      c == i % candidates
                  IN  IF a < 4 THEN 10 * f + 3 * a + c
                      ELSE IF f = 4 THEN 2 + ((a + c) % 2)
                      ELSE (f + c + (IF f % 2 = 0 THEN a ELSE 0)) % 4]]
=============================================================================
