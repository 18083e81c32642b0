------------------------------ MODULE Detection ------------------------------
(***************************************************************************)
(* The end of Detect in yolov5ncnn_jni.cpp: the proposals of the three     *)
(* strides, each above the probability threshold, are sorted               *)
(* (DescentSort) and then thinned out by nms_sorted_bboxes: in the order   *)
(* of the vector a proposal is kept unless it overlaps one that was kept.  *)
(* Boxes are on a grid of whole numbers, so that the quotient of the areas *)
(* is compared without rounding.                                           *)
(***************************************************************************)
EXTENDS DescentSort

CONSTANTS Boxes     \* the boxes that occur

\* The sides of a proposal are squares times the sides of an anchor
\* (yolov5ncnn_jni.cpp:419-420).
ASSUME BoxAssumption == Boxes \subseteq [x : Int, y : Int, w : Nat, h : Nat]

VARIABLES box,      \* the box of each proposal
          next,     \* i of nms_sorted_bboxes
          picked    \* the proposals that were kept

vars == <<faceobjects, prob, sections, box, next, picked>>

\* nms_threshold is 0.45.
ThresholdPercent == 45

Lower(a, b) == IF a < b THEN a ELSE b
Upper(a, b) == IF a > b THEN a ELSE b

\* Fault: without the test for boxes that lie apart two negative sides make an area.
intersection_area_NoTest(a, b) ==
    (Lower(a.x + a.w, b.x + b.w) - Upper(a.x, b.x))
    * (Lower(a.y + a.h, b.y + b.h) - Upper(a.y, b.y))

intersection_area(a, b) ==
    IF a.x > b.x + b.w \/ a.x + a.w < b.x \/ a.y > b.y + b.h \/ a.y + a.h < b.y
    THEN 0
    ELSE (Lower(a.x + a.w, b.x + b.w) - Upper(a.x, b.x))
         * (Lower(a.y + a.h, b.y + b.h) - Upper(a.y, b.y))

\* inter_area / union_area > nms_threshold
Suppresses(a, b) == LET inter == intersection_area(a, b)
                    IN 100 * inter > ThresholdPercent * (a.w * a.h + b.w * b.h - inter)

Init == /\ SortInit
        /\ box \in [Index -> Boxes]
        /\ next = 0
        /\ picked = {}

Sort(s) == SectionStep(s) /\ UNCHANGED <<box, next, picked>>

\* One round of nms_sorted_bboxes.
Suppress == /\ Returned
            /\ next < N
            /\ next' = next + 1
            /\ LET a == faceobjects[next]
               IN picked' = IF \E b \in picked : Suppresses(box[a], box[b])
                            THEN picked ELSE picked \cup {a}
            /\ UNCHANGED <<faceobjects, prob, sections, box>>

Next == (\E s \in sections : Sort(s)) \/ Suppress

\* OpenMP runs every section; the rest is one thread.
Spec == Init /\ [][Next]_vars /\ WF_vars(Next)

-----------------------------------------------------------------------------
(* Properties *)

\* The variables have their types; above all the vector stays an arrangement of the
\* same proposals while sections swap in it at one time (yolov5ncnn_jni.cpp:299).
TypeOK == /\ SortTypeOK
          /\ box \in [Index -> Boxes]
          /\ next \in 0 .. N
          /\ picked \subseteq Index

\* What the loop leaves behind in its own terms, whatever the boxes: kept ones do
\* not suppress each other, and one left out was suppressed by a kept one that is
\* at least as probable.
KeepsGreedily ==
    Returned /\ next = N =>
        /\ \A a, b \in picked : a # b => ~Suppresses(box[a], box[b])
        /\ \A a \in Index \ picked :
               \E b \in picked : prob[b] >= prob[a] /\ Suppresses(box[a], box[b])

Cells(b) == (b.x .. b.x + b.w - 1) \X (b.y .. b.y + b.h - 1)

\* Of two boxes too much is one: the cells they share are more than the
\* threshold's part of the cells they cover.
Overlap(a, b) == 100 * Cardinality(Cells(a) \cap Cells(b))
                 > ThresholdPercent * Cardinality(Cells(a) \cup Cells(b))

\* What Detect reports, in terms of the boxes' cells and of the probabilities
\* alone: no two reported boxes overlap too much, and each proposal left out
\* overlaps a reported one that is at least as probable (yolov5ncnn_jni.cpp:326-355).
ReportsBest ==
    next = N /\ Returned =>
        /\ \A a, b \in picked : a # b => ~Overlap(box[a], box[b])
        /\ \A a \in Index \ picked :
               \E b \in picked : prob[b] >= prob[a] /\ Overlap(box[a], box[b])

\* Detect comes to an end, although the loops' only bound is what they find in
\* the vector (yolov5ncnn_jni.cpp:290-304).
Answers == <>(Returned /\ next = N)
=============================================================================
