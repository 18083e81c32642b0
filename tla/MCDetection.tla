----------------------------- MODULE MCDetection -----------------------------
(* The boxes for TLC: two that overlap by a third, which is not too much, one  *)
(* that overlaps both too much, and one that lies apart.                       *)
EXTENDS Detection

Square(x, y, w, h) == [x |-> x, y |-> y, w |-> w, h |-> h]
MCBoxes == {Square(0, 0, 2, 2), Square(0, 1, 2, 2), Square(0, 0, 2, 3), Square(3, 5, 1, 1)}
=============================================================================
