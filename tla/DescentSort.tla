----------------------------- MODULE DescentSort -----------------------------
(***************************************************************************)
(* qsort_descent_inplace of yolov5ncnn_jni.cpp: the proposals of the       *)
(* detector, sorted in place by falling probability.  After a call has     *)
(* partitioned its range its two recursive calls are sections of an OpenMP *)
(* parallel region: they run on one vector, without a lock, in any         *)
(* interleaving.  A section that has split has nothing left to do but to   *)
(* wait for the two, so it is dropped, and the outermost call returns when *)
(* no section is left.                                                     *)
(***************************************************************************)
EXTENDS Integers, FiniteSets

CONSTANTS N,        \* the number of proposals
          Scores    \* the probabilities that occur

ASSUME SortAssumption == N \in Nat /\ Scores \subseteq Int

VARIABLES faceobjects,  \* which proposal stands at which index of the vector
          prob,         \* the probability of each proposal
          sections      \* the calls that are running

sortVars == <<faceobjects, prob, sections>>

Index == 0 .. N - 1
Section == [left : Int, right : Int, i : Int, j : Int, p : Int,
            pc : {"pivot", "up", "down", "swap", "split"}]

\* A call with its parameters, before its first statement.
Call(left, right) == [left |-> left, right |-> right, i |-> left, j |-> right,
                      p |-> 0, pc |-> "pivot"]

ProbAt(k) == prob[faceobjects[k]]
Returned == sections = {}

SortInit == /\ faceobjects = [k \in Index |-> k]
            /\ prob \in [Index -> Scores]
            /\ sections = IF N = 0 THEN {} ELSE {Call(0, N - 1)}

Become(s, t) == sections' = (sections \ {s}) \cup {t}

\* float p = faceobjects[(left + right) / 2].prob
Pivot(s) == /\ s.pc = "pivot"
            /\ Become(s, [s EXCEPT !.p = ProbAt((s.left + s.right) \div 2), !.pc = "up"])
            /\ UNCHANGED <<faceobjects, prob>>

\* Fault: the scan does not stop at the pivot's equals.
Up_NotStrict(s) == /\ s.pc = "up"
                   /\ Become(s, IF ProbAt(s.i) >= s.p THEN [s EXCEPT !.i = s.i + 1]
                                                      ELSE [s EXCEPT !.pc = "down"])
                   /\ UNCHANGED <<faceobjects, prob>>

\* while (faceobjects[i].prob > p) i++
Up(s) == /\ s.pc = "up"
         /\ Become(s, IF ProbAt(s.i) > s.p THEN [s EXCEPT !.i = s.i + 1]
                                           ELSE [s EXCEPT !.pc = "down"])
         /\ UNCHANGED <<faceobjects, prob>>

\* while (faceobjects[j].prob < p) j--
Down(s) == /\ s.pc = "down"
           /\ Become(s, IF ProbAt(s.j) < s.p THEN [s EXCEPT !.j = s.j - 1]
                                             ELSE [s EXCEPT !.pc = "swap"])
           /\ UNCHANGED <<faceobjects, prob>>

\* Fault: std::swap is one assignment.
Swap_OneWay(s) == /\ s.pc = "swap"
                  /\ IF s.i <= s.j
                     THEN /\ faceobjects' = [faceobjects EXCEPT ![s.i] = faceobjects[s.j]]
                          /\ Become(s, [s EXCEPT !.i = s.i + 1, !.j = s.j - 1,
                                                 !.pc = IF s.i + 1 <= s.j - 1 THEN "up" ELSE "split"])
                     ELSE /\ Become(s, [s EXCEPT !.pc = "split"])
                          /\ UNCHANGED faceobjects
                  /\ UNCHANGED prob

\* Fault: the two indices stand still when they meet.
Swap_NotAtOne(s) == /\ s.pc = "swap"
                    /\ IF s.i < s.j
                       THEN /\ faceobjects' = [faceobjects EXCEPT ![s.i] = faceobjects[s.j],
                                                                  ![s.j] = faceobjects[s.i]]
                            /\ Become(s, [s EXCEPT !.i = s.i + 1, !.j = s.j - 1,
                                              !.pc = IF s.i + 1 <= s.j - 1 THEN "up" ELSE "split"])
                       ELSE /\ Become(s, [s EXCEPT !.pc = IF s.i <= s.j THEN "up" ELSE "split"])
                            /\ UNCHANGED faceobjects
                    /\ UNCHANGED prob

\* The end of the loop body: the two have met, or the vector's two places
\* change hands; then the loop's condition again.
Swap(s) == /\ s.pc = "swap"
           /\ IF s.i <= s.j
              THEN /\ faceobjects' = [faceobjects EXCEPT ![s.i] = faceobjects[s.j],
                                                         ![s.j] = faceobjects[s.i]]
                   /\ Become(s, [s EXCEPT !.i = s.i + 1, !.j = s.j - 1,
                                          !.pc = IF s.i + 1 <= s.j - 1 THEN "up" ELSE "split"])
              ELSE /\ Become(s, [s EXCEPT !.pc = "split"])
                   /\ UNCHANGED faceobjects
           /\ UNCHANGED prob

\* Fault: the second section is left out.
Children_LeftOnly(s) == {c \in {Call(s.left, s.j)} : c.left < c.right}

\* The parallel region: one section for each part that has two elements.
Children(s) == {c \in {Call(s.left, s.j), Call(s.i, s.right)} : c.left < c.right}

Split(s) == /\ s.pc = "split"
            /\ sections' = (sections \ {s}) \cup Children(s)
            /\ UNCHANGED <<faceobjects, prob>>

SectionStep(s) == Pivot(s) \/ Up(s) \/ Down(s) \/ Swap(s) \/ Split(s)
SortNext == \E s \in sections : SectionStep(s)
SortSpec == SortInit /\ [][SortNext]_sortVars

-----------------------------------------------------------------------------
(* Properties *)

\* The variables have their types, and the vector holds each proposal once.
SortTypeOK == /\ faceobjects \in [Index -> Index]
              /\ prob \in [Index -> Scores]
              /\ sections \subseteq Section
              /\ \A k, l \in Index : faceobjects[k] = faceobjects[l] => k = l

\* The index at which a running call reads or writes next is one of its own
\* range, although neither inner loop looks at the range's ends, and the ranges
\* of two sections that run at one time have no index in common
\* (yolov5ncnn_jni.cpp:291-309: no lock, no bound in the inner loops).
SectionsApart ==
    /\ \A s \in sections :
           /\ 0 <= s.left /\ s.left <= s.right /\ s.right < N
           /\ s.pc = "up" => s.i \in s.left .. s.right
           /\ s.pc = "down" => s.j \in s.left .. s.right
           /\ s.pc = "swap" /\ s.i <= s.j => {s.i, s.j} \subseteq s.left .. s.right
    /\ \A s, t \in sections : s # t => s.right < t.left \/ t.right < s.left

\* When the outermost call returns, the probabilities fall from each index to
\* the next (nms_sorted_bboxes relies on it).
SortedOnReturn == Returned => \A k, l \in Index : k < l => ProbAt(k) >= ProbAt(l)
=============================================================================
