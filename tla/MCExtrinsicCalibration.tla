----------------------- MODULE MCExtrinsicCalibration -----------------------
(* ExtrinsicCalibration with the cameras at the corners of a diamond, in   *)
(* centimetres, angles in tens of degrees, cosines in thousandths. Fallback*)
(* and accepted level are 15 degrees apart.                                *)
EXTENDS ExtrinsicCalibration

MCPlace == [c \in Cams |-> CASE c = "rear"  -> <<0, 0>>
                             [] c = "left"  -> <<-20, 20>>
                             [] c = "front" -> <<0, 40>>
                             [] c = "right" -> <<20, 20>>]
MCBoardAt == [b \in Boards |-> IF b = "L" THEN <<-50, 30>> ELSE <<50, 30>>]

Quarter == <<1000, 985, 940, 866, 766, 643, 500, 342, 174, 0>>
MCCos == [a \in 0..35 |-> CASE a <= 9 -> Quarter[a + 1]
                            [] a \in 10..18 -> -Quarter[19 - a]
                            [] a \in 19..27 -> -Quarter[a - 17]
                            [] OTHER -> Quarter[37 - a]]
MCSin == [a \in 0..35 |-> MCCos[(a + 27) % 36]]
MCShort == [l \in Levels \cup {None} |-> IF l = "low" THEN 1000 ELSE 966]
=============================================================================
