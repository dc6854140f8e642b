--------------------------- MODULE MCYoloDetection ---------------------------
(***************************************************************************)
(* Five objects for TLC.  In p1, a overlaps b and b overlaps c, the chain  *)
(* on which suppression algorithms differ; in p2, c and d overlap with the *)
(* same confidence, and e has another label; p3 has more objects than rows.*)
(* c, which is kept in p1 and p2, covers no pixel of the picture.           *)
(***************************************************************************)
EXTENDS YoloDetection

CONSTANTS p1, p2, p3, a, b, c, d, e

MCPictures == {p1, p2, p3}
MCBoxes == {a, b, c, d, e}
MCCandidates == [p \in MCPictures |-> CASE p = p1 -> {a, b, c}
                                        [] p = p2 -> {c, d, e}
                                        [] p = p3 -> {a, b, c, e}]
MCConfidence == [x \in MCBoxes |-> CASE x = a -> 3 [] x = b -> 2
                                     [] x \in {c, d} -> 1 [] x = e -> 4]
MCLabel == [x \in MCBoxes |-> IF x = e THEN "dog" ELSE "person"]
MCOverlaps == LET S == {<<a, b>>, <<b, c>>, <<c, d>>, <<d, e>>}
              IN S \cup {<<s[2], s[1]>> : s \in S}
MCEmpty == {c}
==============================================================================
