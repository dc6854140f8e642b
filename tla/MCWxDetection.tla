--------------------------- MODULE MCWxDetection ----------------------------
(***************************************************************************)
(* Six objects in three cells for TLC.  In p1 and p2, a overlaps b         *)
(* and b overlaps c: b is suppressed by a and must not suppress c.  c and  *)
(* d have the same confidence and overlap; a also overlaps d, next to b;   *)
(* e has another class and overlaps d; g passes kIgnoreThresh only.  p2    *)
(* has more objects than there are rows.                                   *)
(***************************************************************************)
EXTENDS WxDetection

CONSTANTS p1, p2, p3, a, b, c, d, e, g

MCPictures == {p1, p2, p3}
MCCells == 1 .. 3
MCBoxes == {a, b, c, d, e, g}
MCAnchors == [p \in MCPictures |-> CASE p = p1 -> << <<b, a>>, <<c>>, <<g>> >>
                                     [] p = p2 -> << <<a, e>>, <<d, c>>, <<b>> >>
                                     [] p = p3 -> << <<d, e>>, <<c>>, <<>> >>]
MCConfidence == [x \in MCBoxes |-> CASE x = a -> 4 [] x = b -> 3 [] x = e -> 5
                                     [] x \in {c, d} -> 2 [] x = g -> 1]
MCLabel == [x \in MCBoxes |-> IF x = e THEN 1 ELSE 0]
MCOverlaps == LET S == {<<a, b>>, <<b, c>>, <<c, d>>, <<d, e>>, <<a, d>>}
              IN S \cup {<<s[2], s[1]>> : s \in S} \cup {<<x, x>> : x \in MCBoxes}
=============================================================================
