--------------------------- MODULE DetectionProofs ---------------------------
(***************************************************************************)
(* Detect, for every number of proposals, all probabilities and all boxes. *)
(* The sections of the parallel quicksort keep to ranges that lie apart,   *)
(* no inner loop leaves its range, and the vector is sorted when the       *)
(* outermost call returns, in every interleaving; what Detect reports then *)
(* is what a greedy choice by probability keeps.                           *)
(***************************************************************************)
EXTENDS Detection, FiniteSetTheorems, TLAPS

(* The quicksort *)


\* What a running call knows of its range: the part left of i is at least the
\* pivot, the part right of j at most, and each inner loop has a sentinel ahead
\* of it that stops it before the range ends.
LocalInv(s) ==
    /\ 0 <= s.left /\ s.left <= s.right /\ s.right < N
    /\ s.left <= s.i /\ s.i <= s.right + 1 /\ s.left - 1 <= s.j /\ s.j <= s.right
    /\ s.pc = "pivot" => s.i = s.left /\ s.j = s.right
    /\ s.pc # "pivot" => /\ \A k \in Index : s.left <= k /\ k < s.i => ProbAt(k) >= s.p
                         /\ \A k \in Index : s.j < k /\ k <= s.right => ProbAt(k) <= s.p
    /\ s.pc = "up" => \E k \in Index : s.i <= k /\ k <= s.right /\ ProbAt(k) <= s.p
    /\ s.pc \in {"up", "down"} => \E k \in Index : s.left <= k /\ k <= s.j /\ ProbAt(k) >= s.p
    /\ s.pc \in {"down", "swap"} => s.i <= s.right /\ ProbAt(s.i) <= s.p
    /\ s.pc = "swap" => s.left <= s.j /\ ProbAt(s.j) >= s.p
    /\ s.pc = "split" => s.j < s.i

Apart == \A s, t \in sections : s # t => s.right < t.left \/ t.right < s.left

\* Two places out of order are still in the range of one call.
Ordered == \A k, l \in Index :
               k < l => \/ ProbAt(k) >= ProbAt(l)
                        \/ \E s \in sections : s.left <= k /\ l <= s.right

IInv == SortTypeOK /\ (\A s \in sections : LocalInv(s)) /\ Apart /\ Ordered

LEMMA ProbType == SortTypeOK => \A k \in Index : ProbAt(k) \in Int
BY SortAssumption DEF SortTypeOK, ProbAt

LEMMA InitInv == SortInit => IInv
<1> SUFFICES ASSUME SortInit PROVE IInv
    OBVIOUS
<1>1. sections \subseteq Section
    BY SortAssumption DEF SortInit, Section, Call
<1>2. SortTypeOK
    BY <1>1 DEF SortInit, SortTypeOK
<1>3. \A s \in sections : LocalInv(s)
    BY SortAssumption DEF SortInit, Call, LocalInv
<1>4. Apart
    BY DEF SortInit, Apart
<1>5. Ordered
  <2> SUFFICES ASSUME NEW k \in Index, NEW l \in Index, k < l
               PROVE  \E s \in sections : s.left <= k /\ l <= s.right
      BY DEF Ordered
  <2>1. N # 0 /\ sections = {Call(0, N - 1)}
      BY SortAssumption DEF SortInit, Index
  <2> QED
      BY <2>1, SortAssumption DEF Call, Index
<1> QED
    BY <1>2, <1>3, <1>4, <1>5 DEF IInv

\* A step inside a call's loop: the call keeps its range and moves proposals
\* within it only.
LEMMA LoopStep ==
    ASSUME IInv, NEW s \in sections, NEW t \in Section,
           Become(s, t), t.left = s.left, t.right = s.right,
           SortTypeOK', prob' = prob, LocalInv(t)',
           \A k \in Index : k < s.left \/ s.right < k => faceobjects'[k] = faceobjects[k],
           \A k \in Index : s.left <= k /\ k <= s.right =>
               \E l \in Index : s.left <= l /\ l <= s.right /\ faceobjects'[k] = faceobjects[l]
    PROVE  IInv'
<1>1. ASSUME NEW u \in sections, u # s PROVE LocalInv(u)'
  <2>1. LocalInv(u) /\ (u.right < s.left \/ s.right < u.left)
      BY <1>1 DEF IInv, Apart
  <2>2. u \in Section /\ s \in Section
      BY DEF IInv, SortTypeOK
  <2>3. \A k \in Index : u.left <= k /\ k <= u.right => ProbAt(k)' = ProbAt(k)
      BY <2>1, <2>2 DEF ProbAt, Index, Section
  <2>4. 0 <= u.left /\ u.left <= u.right /\ u.right < N /\ u.left <= u.i /\ u.j <= u.right
      BY <2>1 DEF LocalInv
  <2>5. \A k \in Int : u.left <= k /\ k <= u.right => k \in Index
      BY <2>4, <2>2, SortAssumption DEF Index, Section
  <2>6. u.pc # "pivot" =>
            /\ \A k \in Index : u.left <= k /\ k < u.i => ProbAt(k)' >= u.p
            /\ \A k \in Index : u.j < k /\ k <= u.right => ProbAt(k)' <= u.p
      BY <2>1, <2>2, <2>3 DEF LocalInv, Section, Index
  <2>7. u.pc = "up" => \E k \in Index : u.i <= k /\ k <= u.right /\ ProbAt(k)' <= u.p
      BY <2>1, <2>2, <2>3 DEF LocalInv, Section, Index
  <2>8. u.pc \in {"up", "down"} =>
            \E k \in Index : u.left <= k /\ k <= u.j /\ ProbAt(k)' >= u.p
      BY <2>1, <2>2, <2>3 DEF LocalInv, Section, Index
  <2>9. u.pc \in {"down", "swap"} => u.i <= u.right /\ ProbAt(u.i)' <= u.p
      BY <2>1, <2>2, <2>3, <2>5 DEF LocalInv, Section
  <2>10. u.pc = "swap" => u.left <= u.j /\ ProbAt(u.j)' >= u.p
      BY <2>1, <2>2, <2>3, <2>5 DEF LocalInv, Section
  <2>11. u.i <= u.right + 1 /\ u.left - 1 <= u.j
      BY <2>1 DEF LocalInv
  <2>12. (u.pc = "pivot" => u.i = u.left /\ u.j = u.right) /\ (u.pc = "split" => u.j < u.i)
      BY <2>1 DEF LocalInv
  <2> QED
      BY <2>4, <2>6, <2>7, <2>8, <2>9, <2>10, <2>11, <2>12 DEF LocalInv
<1>2. \A u \in sections' : LocalInv(u)'
    BY <1>1 DEF Become
<1>3. Apart'
    BY DEF Apart, Become, IInv
<1>4. Ordered'
  <2> SUFFICES ASSUME NEW k \in Index, NEW l \in Index, k < l,
                      ~ \E u \in sections' : u.left <= k /\ l <= u.right
               PROVE  ProbAt(k)' >= ProbAt(l)'
      BY DEF Ordered
  <2>1. s \in Section /\ LocalInv(s)
      BY DEF IInv, SortTypeOK
  <2>2. ~ \E u \in sections : u.left <= k /\ l <= u.right
      BY DEF Become
  <2>3. PICK k0 \in Index : /\ faceobjects'[k] = faceobjects[k0]
                            /\ \/ k0 = k /\ (k < s.left \/ s.right < k)
                               \/ /\ s.left <= k0 /\ k0 <= s.right
                                  /\ s.left <= k /\ k <= s.right
      BY <2>1 DEF Section, Index
  <2>4. PICK l0 \in Index : /\ faceobjects'[l] = faceobjects[l0]
                            /\ \/ l0 = l /\ (l < s.left \/ s.right < l)
                               \/ /\ s.left <= l0 /\ l0 <= s.right
                                  /\ s.left <= l /\ l <= s.right
      BY <2>1 DEF Section, Index
  <2>5. k0 < l0
      BY <2>1, <2>2, <2>3, <2>4 DEF Section, Index
  <2>6. ~ \E u \in sections : u.left <= k0 /\ l0 <= u.right
    <3> SUFFICES ASSUME NEW u \in sections, u.left <= k0, l0 <= u.right PROVE FALSE
        OBVIOUS
    <3>1. CASE u = s
        BY <3>1, <2>1, <2>2, <2>3, <2>4 DEF Section, Index
    <3>2. CASE u # s
      <4>1. u \in Section /\ (u.right < s.left \/ s.right < u.left) /\ u.left <= u.right
          BY <3>2 DEF IInv, Apart, SortTypeOK, LocalInv
      <4> QED
          BY <4>1, <2>1, <2>2, <2>3, <2>4 DEF Section, Index
    <3> QED
        BY <3>1, <3>2
  <2>7. ProbAt(k0) >= ProbAt(l0)
      BY <2>5, <2>6 DEF IInv, Ordered
  <2> QED
      BY <2>3, <2>4, <2>7 DEF ProbAt
<1> QED
    BY <1>2, <1>3, <1>4 DEF IInv

LEMMA PivotStep == ASSUME IInv, NEW s \in sections, Pivot(s) PROVE IInv'
<1>1. s \in Section /\ LocalInv(s) /\ s.pc = "pivot" /\ UNCHANGED <<faceobjects, prob>>
    BY DEF IInv, SortTypeOK, Pivot
<1>2. PICK m \in Index : m = (s.left + s.right) \div 2 /\ s.left <= m /\ m <= s.right
    BY <1>1, SortAssumption DEF LocalInv, Section, Index
<1>3. ProbAt(m) \in Int
    BY <1>2, ProbType DEF IInv
<1>4. PICK t : t = [s EXCEPT !.p = ProbAt(m), !.pc = "up"]
    OBVIOUS
<1>5. /\ t \in Section /\ t.left = s.left /\ t.right = s.right /\ t.i = s.i /\ t.j = s.j
      /\ t.pc = "up" /\ t.p = ProbAt(m)
    BY <1>1, <1>3, <1>4 DEF Section
<1>6. Become(s, t)
    BY <1>2, <1>4 DEF Pivot
<1>7. SortTypeOK'
    BY <1>1, <1>5, <1>6 DEF IInv, SortTypeOK, Become
<1>8. \A k \in Index : ProbAt(k)' = ProbAt(k)
    BY <1>1 DEF ProbAt
<1>9. LocalInv(t)'
  <2>1. s.i = s.left /\ s.j = s.right /\ 0 <= s.left /\ s.left <= s.right /\ s.right < N
      BY <1>1 DEF LocalInv
  <2>2. s.left \in Int /\ s.right \in Int
      BY <1>1 DEF Section
  <2> QED
      BY <1>2, <1>3, <1>5, <1>8, <2>1, <2>2 DEF LocalInv, Index
<1> QED
    BY <1>1, <1>5, <1>6, <1>7, <1>9, LoopStep

LEMMA UpStep == ASSUME IInv, NEW s \in sections, Up(s) PROVE IInv'
<1>1. s \in Section /\ LocalInv(s) /\ s.pc = "up" /\ UNCHANGED <<faceobjects, prob>>
    BY DEF IInv, SortTypeOK, Up
<1>2. PICK t : t = IF ProbAt(s.i) > s.p THEN [s EXCEPT !.i = s.i + 1] ELSE [s EXCEPT !.pc = "down"]
    OBVIOUS
<1>3. /\ t \in Section /\ t.left = s.left /\ t.right = s.right /\ t.j = s.j /\ t.p = s.p
      /\ ProbAt(s.i) > s.p => t.i = s.i + 1 /\ t.pc = "up"
      /\ ~(ProbAt(s.i) > s.p) => t.i = s.i /\ t.pc = "down"
    BY <1>1, <1>2 DEF Section
<1>4. Become(s, t)
    BY <1>2 DEF Up
<1>5. SortTypeOK'
    BY <1>1, <1>3, <1>4 DEF IInv, SortTypeOK, Become
<1>6. PICK k \in Index : s.i <= k /\ k <= s.right /\ ProbAt(k) <= s.p
    BY <1>1 DEF LocalInv
<1>7. s.i \in Index /\ (\A l \in Index : ProbAt(l) \in Int) /\ s.p \in Int
    BY <1>1, <1>6, ProbType, SortAssumption DEF LocalInv, Section, Index, IInv
<1>8. ProbAt(s.i) > s.p => s.i + 1 <= k
    BY <1>1, <1>6, <1>7 DEF Section, Index
<1>9. \A l \in Index : ProbAt(l)' = ProbAt(l)
    BY <1>1 DEF ProbAt
<1>10. LocalInv(t)'
  <2>1. CASE ProbAt(s.i) > s.p
      BY <2>1, <1>1, <1>3, <1>6, <1>7, <1>8, <1>9 DEF LocalInv, Section, Index
  <2>2. CASE ~(ProbAt(s.i) > s.p)
      BY <2>2, <1>1, <1>3, <1>6, <1>7, <1>9 DEF LocalInv, Section, Index
  <2> QED
      BY <2>1, <2>2
<1> QED
    BY <1>1, <1>3, <1>4, <1>5, <1>10, LoopStep

LEMMA DownStep == ASSUME IInv, NEW s \in sections, Down(s) PROVE IInv'
<1>1. s \in Section /\ LocalInv(s) /\ s.pc = "down" /\ UNCHANGED <<faceobjects, prob>>
    BY DEF IInv, SortTypeOK, Down
<1>2. PICK t : t = IF ProbAt(s.j) < s.p THEN [s EXCEPT !.j = s.j - 1] ELSE [s EXCEPT !.pc = "swap"]
    OBVIOUS
<1>3. /\ t \in Section /\ t.left = s.left /\ t.right = s.right /\ t.i = s.i /\ t.p = s.p
      /\ ProbAt(s.j) < s.p => t.j = s.j - 1 /\ t.pc = "down"
      /\ ~(ProbAt(s.j) < s.p) => t.j = s.j /\ t.pc = "swap"
    BY <1>1, <1>2 DEF Section
<1>4. Become(s, t)
    BY <1>2 DEF Down
<1>5. SortTypeOK'
    BY <1>1, <1>3, <1>4 DEF IInv, SortTypeOK, Become
<1>6. PICK k \in Index : s.left <= k /\ k <= s.j /\ ProbAt(k) >= s.p
    BY <1>1 DEF LocalInv
<1>7. s.j \in Index /\ s.i \in Index /\ (\A l \in Index : ProbAt(l) \in Int) /\ s.p \in Int
    BY <1>1, <1>6, ProbType, SortAssumption DEF LocalInv, Section, Index, IInv
<1>8. ProbAt(s.j) < s.p => k <= s.j - 1
    BY <1>1, <1>6, <1>7 DEF Section, Index
<1>9. \A l \in Index : ProbAt(l)' = ProbAt(l)
    BY <1>1 DEF ProbAt
<1>10. LocalInv(t)'
  <2>1. CASE ProbAt(s.j) < s.p
      BY <2>1, <1>1, <1>3, <1>6, <1>7, <1>8, <1>9 DEF LocalInv, Section, Index
  <2>2. CASE ~(ProbAt(s.j) < s.p)
      BY <2>2, <1>1, <1>3, <1>6, <1>7, <1>9 DEF LocalInv, Section, Index
  <2> QED
      BY <2>1, <2>2
<1> QED
    BY <1>1, <1>3, <1>4, <1>5, <1>10, LoopStep

LEMMA SwapStep == ASSUME IInv, NEW s \in sections, Swap(s) PROVE IInv'
<1>1. s \in Section /\ LocalInv(s) /\ s.pc = "swap" /\ prob' = prob
    BY DEF IInv, SortTypeOK, Swap
<1>2. /\ s.i \in Index /\ s.j \in Index /\ s.left <= s.i /\ s.i <= s.right
      /\ s.left <= s.j /\ s.j <= s.right /\ s.left \in Index /\ s.right \in Index
    BY <1>1, SortAssumption DEF LocalInv, Section, Index
<1>3. CASE s.i > s.j
  <2>0. PICK t : t = [s EXCEPT !.pc = "split"]
      OBVIOUS
  <2>1. t \in Section /\ t.left = s.left /\ t.right = s.right /\ t.i = s.i /\ t.j = s.j
        /\ t.p = s.p /\ t.pc = "split"
      BY <1>1, <2>0 DEF Section
  <2>2. Become(s, t) /\ faceobjects' = faceobjects
      BY <1>1, <1>2, <1>3, <2>0 DEF Swap, Index
  <2>3. SortTypeOK'
      BY <1>1, <2>1, <2>2 DEF IInv, SortTypeOK, Become
  <2>4. \A l \in Index : ProbAt(l)' = ProbAt(l)
      BY <1>1, <2>2 DEF ProbAt
  <2>5. LocalInv(t)'
      BY <1>1, <1>2, <1>3, <2>1, <2>4 DEF LocalInv, Section
  <2> QED
      BY <1>1, <2>1, <2>2, <2>3, <2>5, LoopStep
<1>4. CASE s.i <= s.j
  <2>a. PICK q : q = IF s.i + 1 <= s.j - 1 THEN "up" ELSE "split"
      OBVIOUS
  <2>0. PICK t : t = [s EXCEPT !.i = s.i + 1, !.j = s.j - 1, !.pc = q]
      OBVIOUS
  <2>1. /\ t \in Section /\ t.left = s.left /\ t.right = s.right
        /\ t.i = s.i + 1 /\ t.j = s.j - 1 /\ t.p = s.p
        /\ s.i + 1 <= s.j - 1 => t.pc = "up"
        /\ ~(s.i + 1 <= s.j - 1) => t.pc = "split"
    <3>1. q \in {"up", "split"} /\ s.i + 1 \in Int /\ s.j - 1 \in Int
        BY <1>1, <2>a DEF Section
    <3>2. /\ t \in Section /\ t.left = s.left /\ t.right = s.right
          /\ t.i = s.i + 1 /\ t.j = s.j - 1 /\ t.p = s.p /\ t.pc = q
        BY <1>1, <2>0, <3>1 DEF Section
    <3> QED
        BY <2>a, <3>2
  <2>2. Become(s, t)
      BY <1>4, <2>a, <2>0 DEF Swap
  <2>3. faceobjects' = [faceobjects EXCEPT ![s.i] = faceobjects[s.j], ![s.j] = faceobjects[s.i]]
      BY <1>4 DEF Swap
  <2>4. faceobjects \in [Index -> Index]
      BY DEF IInv, SortTypeOK
  <2>5. \A k \in Index : faceobjects'[k] = IF k = s.j THEN faceobjects[s.i]
                                            ELSE IF k = s.i THEN faceobjects[s.j]
                                            ELSE faceobjects[k]
      BY <1>2, <2>3, <2>4
  <2>6. faceobjects' \in [Index -> Index]
      BY <1>2, <2>3, <2>4
  <2>7. \A k, l \in Index : faceobjects'[k] = faceobjects'[l] => k = l
      BY <1>2, <2>5 DEF IInv, SortTypeOK
  <2>8. SortTypeOK'
      BY <1>1, <2>1, <2>2, <2>6, <2>7 DEF IInv, SortTypeOK, Become
  <2>9. /\ ProbAt(s.i)' = ProbAt(s.j) /\ ProbAt(s.j)' = ProbAt(s.i)
        /\ \A k \in Index \ {s.i, s.j} : ProbAt(k)' = ProbAt(k)
      BY <1>1, <1>2, <2>5 DEF ProbAt
  <2>10. LocalInv(t)'
    <3>1. ProbAt(s.i) <= s.p /\ ProbAt(s.j) >= s.p
        BY <1>1 DEF LocalInv
    <3>2. \A k \in Index : s.left <= k /\ k < s.i + 1 => ProbAt(k)' >= s.p
        BY <1>1, <1>2, <1>4, <2>9, <3>1 DEF LocalInv, Section, Index
    <3>3. \A k \in Index : s.j - 1 < k /\ k <= s.right => ProbAt(k)' <= s.p
        BY <1>1, <1>2, <1>4, <2>9, <3>1 DEF LocalInv, Section, Index
    <3>4. t.pc = "up" => /\ s.i + 1 <= s.j /\ s.j <= s.right /\ ProbAt(s.j)' <= s.p
                         /\ s.left <= s.i /\ s.i <= s.j - 1 /\ ProbAt(s.i)' >= s.p
        BY <1>1, <1>2, <2>1, <2>9, <3>1 DEF Section, Index
    <3>5. 0 <= s.left /\ s.left <= s.right /\ s.right < N
        BY <1>1 DEF LocalInv
    <3>6. t.pc \in {"up", "split"} /\ (t.pc = "split" => s.j - 1 < s.i + 1)
        BY <1>1, <2>1 DEF Section
    <3> QED
        BY <1>1, <1>2, <2>1, <3>2, <3>3, <3>4, <3>5, <3>6 DEF LocalInv, Section, Index
  <2>11. \A k \in Index : k < s.left \/ s.right < k => faceobjects'[k] = faceobjects[k]
      BY <1>1, <1>2, <2>5 DEF Section, Index
  <2>12. \A k \in Index : s.left <= k /\ k <= s.right =>
             \E l \in Index : s.left <= l /\ l <= s.right /\ faceobjects'[k] = faceobjects[l]
      BY <1>2, <2>5
  <2> QED
      BY <1>1, <2>1, <2>2, <2>8, <2>10, <2>11, <2>12, LoopStep
<1> QED
    BY <1>2, <1>3, <1>4 DEF Index

LEMMA SplitStep == ASSUME IInv, NEW s \in sections, Split(s) PROVE IInv'
<1>1. s \in Section /\ LocalInv(s) /\ s.pc = "split" /\ UNCHANGED <<faceobjects, prob>>
      /\ sections' = (sections \ {s}) \cup Children(s)
    BY DEF IInv, SortTypeOK, Split
<1>2. \A k \in Index : ProbAt(k)' = ProbAt(k)
    BY <1>1 DEF ProbAt
<1>3. /\ Call(s.left, s.j) \in Section /\ Call(s.i, s.right) \in Section
      /\ Call(s.left, s.j).left = s.left /\ Call(s.left, s.j).right = s.j
      /\ Call(s.i, s.right).left = s.i /\ Call(s.i, s.right).right = s.right
    BY <1>1 DEF Call, Section
<1>4. \A c \in Children(s) : /\ c \in Section /\ c.left < c.right
                             /\ \/ c.left = s.left /\ c.right = s.j
                                \/ c.left = s.i /\ c.right = s.right
                             /\ c.pc = "pivot" /\ c.i = c.left /\ c.j = c.right
  <2> SUFFICES ASSUME NEW c \in Children(s)
               PROVE  /\ c \in Section /\ c.left < c.right
                      /\ \/ c.left = s.left /\ c.right = s.j
                         \/ c.left = s.i /\ c.right = s.right
                      /\ c.pc = "pivot" /\ c.i = c.left /\ c.j = c.right
      OBVIOUS
  <2>1. c.left < c.right /\ (c = Call(s.left, s.j) \/ c = Call(s.i, s.right))
      BY DEF Children
  <2> QED
      BY <1>3, <2>1 DEF Call
<1>5. /\ 0 <= s.left /\ s.left <= s.right /\ s.right < N /\ s.j < s.i
      /\ s.left <= s.i /\ s.i <= s.right + 1 /\ s.left - 1 <= s.j /\ s.j <= s.right
    BY <1>1 DEF LocalInv
<1>6. SortTypeOK'
    BY <1>1, <1>4 DEF IInv, SortTypeOK
<1>7. \A c \in Children(s) : LocalInv(c)' /\ s.left <= c.left /\ c.right <= s.right
  <2> SUFFICES ASSUME NEW c \in Children(s)
               PROVE  LocalInv(c)' /\ s.left <= c.left /\ c.right <= s.right
      OBVIOUS
  <2>1. /\ s.left \in Int /\ s.right \in Int /\ s.i \in Int /\ s.j \in Int
        /\ c.left \in Int /\ c.right \in Int /\ N \in Int
      BY <1>1, <1>4, SortAssumption DEF Section
  <2>2. s.left <= c.left /\ c.right <= s.right /\ c.left < c.right
      BY <1>4, <1>5, <2>1
  <2>3. c.pc = "pivot" /\ c.i = c.left /\ c.j = c.right
      BY <1>4
  <2> QED
      BY <1>5, <2>1, <2>2, <2>3 DEF LocalInv
<1>8. \A u \in sections : LocalInv(u)'
  <2> SUFFICES ASSUME NEW u \in sections PROVE LocalInv(u)'
      OBVIOUS
  <2>1. LocalInv(u) /\ u \in Section
      BY DEF IInv, SortTypeOK
  <2>2. (u.i \in Index => ProbAt(u.i)' = ProbAt(u.i)) /\ (u.j \in Index => ProbAt(u.j)' = ProbAt(u.j))
      BY <1>2
  <2> QED
      BY <1>2, <2>1, <2>2, SortAssumption DEF LocalInv, Section, Index
<1>9. Apart'
  <2> SUFFICES ASSUME NEW u \in sections', NEW v \in sections', u # v
               PROVE  u.right < v.left \/ v.right < u.left
      BY DEF Apart
  <2>1. u \in Section /\ v \in Section
      BY <1>6 DEF SortTypeOK
  <2>2. \A w \in sections : w # s => w \in Section /\ (w.right < s.left \/ s.right < w.left)
      BY DEF IInv, Apart, SortTypeOK
  <2>3. CASE u \in Children(s) /\ v \in Children(s)
    <3>1. {u, v} = {Call(s.left, s.j), Call(s.i, s.right)}
        BY <2>3 DEF Children
    <3> QED
        BY <3>1, <1>3, <1>5, <1>1 DEF Section
  <2>4. CASE u \in Children(s) /\ v \in sections \ {s}
      BY <2>4, <2>1, <2>2, <1>1, <1>7 DEF Section
  <2>5. CASE v \in Children(s) /\ u \in sections \ {s}
      BY <2>5, <2>1, <2>2, <1>1, <1>7 DEF Section
  <2>6. CASE u \in sections \ {s} /\ v \in sections \ {s}
      BY <2>6 DEF IInv, Apart
  <2> QED
      BY <1>1, <2>3, <2>4, <2>5, <2>6
<1>10. Ordered'
  <2> SUFFICES ASSUME NEW k \in Index, NEW l \in Index, k < l,
                      ~(ProbAt(k) >= ProbAt(l))
               PROVE  \E u \in sections' : u.left <= k /\ l <= u.right
      BY <1>2 DEF Ordered
  <2>1. PICK u \in sections : u.left <= k /\ l <= u.right
      BY DEF IInv, Ordered
  <2>2. CASE u # s
      BY <2>1, <2>2, <1>1
  <2>3. CASE u = s
    <3>1. ProbAt(k) \in Int /\ ProbAt(l) \in Int /\ s.p \in Int
        BY <1>1, ProbType DEF IInv, Section
    <3>2. ~(k < s.i /\ s.j < l)
      <4> SUFFICES ASSUME k < s.i, s.j < l PROVE FALSE
          OBVIOUS
      <4>1. ProbAt(k) >= s.p /\ ProbAt(l) <= s.p
          BY <2>1, <2>3, <1>1 DEF LocalInv
      <4> QED
          BY <4>1, <3>1
    <3>3. CASE l <= s.j
      <4>1. Call(s.left, s.j) \in Children(s)
          BY <3>3, <2>1, <2>3, <1>1, <1>3 DEF Children, Section, Index
      <4> QED
          BY <4>1, <3>3, <2>1, <2>3, <1>1, <1>3
    <3>4. CASE s.i <= k
      <4>1. Call(s.i, s.right) \in Children(s)
          BY <3>4, <2>1, <2>3, <1>1, <1>3 DEF Children, Section, Index
      <4> QED
          BY <4>1, <3>4, <2>1, <2>3, <1>1, <1>3
    <3> QED
        BY <3>2, <3>3, <3>4, <1>1 DEF Section, Index
  <2> QED
      BY <2>2, <2>3
<1> QED
    BY <1>1, <1>6, <1>7, <1>8, <1>9, <1>10 DEF IInv

LEMMA InductiveStep == IInv /\ [SortNext]_sortVars => IInv'
<1> SUFFICES ASSUME IInv, [SortNext]_sortVars PROVE IInv'
    OBVIOUS
<1>1. CASE SortNext
  <2>1. PICK s \in sections : SectionStep(s)
      BY <1>1 DEF SortNext
  <2> QED
      BY <2>1, PivotStep, UpStep, DownStep, SwapStep, SplitStep DEF SectionStep
<1>2. CASE UNCHANGED sortVars
    BY <1>2 DEF sortVars, IInv, SortTypeOK, LocalInv, Apart, Ordered, ProbAt
<1> QED
    BY <1>1, <1>2

LEMMA Inductive == SortSpec => []IInv
BY InitInv, InductiveStep, PTL DEF SortSpec

\* The vector stays a permutation of the proposals, in every state of the sort.
THEOREM SortTypeCorrect == SortSpec => []SortTypeOK
<1>1. IInv => SortTypeOK
    BY DEF IInv
<1> QED
    BY <1>1, Inductive, PTL

LEMMA RangesApart == IInv => SectionsApart
<1>1. ASSUME IInv PROVE SectionsApart
  <2> SUFFICES ASSUME NEW s \in sections
               PROVE  /\ 0 <= s.left /\ s.left <= s.right /\ s.right < N
                      /\ s.pc = "up" => s.i \in s.left .. s.right
                      /\ s.pc = "down" => s.j \in s.left .. s.right
                      /\ s.pc = "swap" /\ s.i <= s.j => {s.i, s.j} \subseteq s.left .. s.right
      BY <1>1 DEF SectionsApart, IInv, Apart
  <2>1. s \in Section /\ LocalInv(s)
      BY <1>1 DEF IInv, SortTypeOK
  <2>2. s.pc = "up" => s.i <= s.right
      BY <2>1 DEF LocalInv, Section, Index
  <2>3. s.pc = "down" => s.left <= s.j
      BY <2>1 DEF LocalInv, Section, Index
  <2>4. s.pc = "swap" => s.left <= s.j /\ s.i <= s.right
      BY <2>1 DEF LocalInv
  <2> QED
      BY <2>1, <2>2, <2>3, <2>4 DEF LocalInv, Section
<1> QED
    BY <1>1

LEMMA NothingOutOfOrder == IInv => SortedOnReturn
BY DEF IInv, Ordered, SortedOnReturn, Returned

\* No inner loop leaves the range of its call, and sections that run at one
\* time have no index in common.
THEOREM NoSharedIndex == SortSpec => []SectionsApart
BY RangesApart, Inductive, PTL

\* The vector is sorted when the outermost call returns.
THEOREM Sorts == SortSpec => []SortedOnReturn
BY NothingOutOfOrder, Inductive, PTL

-----------------------------------------------------------------------------
(* The suppression *)

\* Of the places the loop has passed, each proposal was kept or suppressed by
\* one kept before it; a permutation's every proposal stands at some place.
LoopInv ==
    /\ box \in [Index -> Boxes]
    /\ next \in 0 .. N
    /\ next # 0 => Returned
    /\ \A a \in picked : \E k \in Index : k < next /\ faceobjects[k] = a
    /\ \A a, b \in picked : a # b => ~Suppresses(box[a], box[b])
    /\ \A k \in Index : k < next /\ faceobjects[k] \notin picked =>
           \E b \in picked : prob[b] >= ProbAt(k) /\ Suppresses(box[faceobjects[k]], box[b])

\* Too much overlap does not depend on which of the two is named first.
LEMMA SuppressesSymmetric ==
    ASSUME NEW a \in Boxes, NEW b \in Boxes
    PROVE  Suppresses(a, b) <=> Suppresses(b, a)
<1>1. /\ a.x \in Int /\ a.y \in Int /\ a.w \in Int /\ a.h \in Int
      /\ b.x \in Int /\ b.y \in Int /\ b.w \in Int /\ b.h \in Int
    BY BoxAssumption
<1>3. /\ a.x + a.w \in Int /\ b.x + b.w \in Int /\ a.y + a.h \in Int /\ b.y + b.h \in Int
    BY <1>1
<1> DEFINE w == Lower(a.x + a.w, b.x + b.w) - Upper(a.x, b.x)
           h == Lower(a.y + a.h, b.y + b.h) - Upper(a.y, b.y)
<1>4. w \in Int /\ h \in Int
    BY <1>1, <1>3 DEF Lower, Upper
<1>5. /\ w = Lower(b.x + b.w, a.x + a.w) - Upper(b.x, a.x)
      /\ h = Lower(b.y + b.h, a.y + a.h) - Upper(b.y, a.y)
    BY <1>1, <1>3 DEF Lower, Upper
<1> DEFINE far == a.x > b.x + b.w \/ a.x + a.w < b.x \/ a.y > b.y + b.h \/ a.y + a.h < b.y
<1>6. far <=> (b.x > a.x + a.w \/ b.x + b.w < a.x \/ b.y > a.y + a.h \/ b.y + b.h < a.y)
    BY <1>1
<1>7. (far => intersection_area(a, b) = 0) /\ (~far => intersection_area(a, b) = w * h)
    BY Zenon DEF intersection_area
<1>8. (far => intersection_area(b, a) = 0) /\ (~far => intersection_area(b, a) = w * h)
    BY <1>5, <1>6, Zenon DEF intersection_area
<1> HIDE DEF far, w, h
<1>9. PICK m, n, inter \in Int : /\ m = a.w * a.h /\ n = b.w * b.h
                                /\ inter = intersection_area(a, b)
    BY <1>1, <1>4, <1>7
<1>10. Suppresses(a, b) <=> 100 * inter > ThresholdPercent * (m + n - inter)
    BY <1>9, Zenon DEF Suppresses
<1>11. Suppresses(b, a) <=> 100 * inter > ThresholdPercent * (n + m - inter)
    BY <1>7, <1>8, <1>9, Zenon DEF Suppresses
<1>12. m + n - inter = n + m - inter
    BY <1>9
<1> QED
    BY <1>10, <1>11, <1>12, Zenon

LEMMA LoopInit == Init => LoopInv
BY SortAssumption DEF Init, LoopInv, Index

LEMMA SuppressStep == IInv /\ LoopInv /\ Suppress => LoopInv'
<1> SUFFICES ASSUME IInv, LoopInv, Suppress PROVE LoopInv'
    OBVIOUS
<1> DEFINE a == faceobjects[next]
           hit == \E b \in picked : Suppresses(box[a], box[b])
<1>1. /\ next \in Index /\ next' = next + 1 /\ next + 1 \in 0 .. N
      /\ faceobjects' = faceobjects /\ prob' = prob /\ box' = box /\ sections' = sections
      /\ picked' = IF hit THEN picked ELSE picked \cup {a}
      /\ box \in [Index -> Boxes] /\ Returned
    BY SortAssumption DEF Suppress, LoopInv, Index
<1>2. a \in Index /\ (\A k \in Index : faceobjects[k] \in Index)
    BY <1>1 DEF IInv, SortTypeOK
<1>3. picked \subseteq Index
    BY <1>2 DEF LoopInv
<1>4. \A k \in Index : ProbAt(k) \in Int /\ prob[k] \in Int
    BY ProbType, SortAssumption DEF IInv, SortTypeOK
<1>5. \A k \in Index : k < next + 1 <=> k < next \/ k = next
    BY <1>1 DEF Index
<1>6. \A c \in picked' : \E k \in Index : k < next' /\ faceobjects'[k] = c
  <2>1. \A c \in picked : \E k \in Index : k < next' /\ faceobjects'[k] = c
      BY <1>1, <1>5 DEF LoopInv
  <2>2. \E k \in Index : k < next' /\ faceobjects'[k] = a
      BY <1>1, <1>5
  <2> QED
      BY <1>1, <2>1, <2>2
<1>7. \A c, d \in picked' : c # d => ~Suppresses(box'[c], box'[d])
  <2>1. CASE hit
      BY <2>1, <1>1 DEF LoopInv
  <2>2. CASE ~hit
    <3>1. \A d \in picked : ~Suppresses(box[a], box[d]) /\ ~Suppresses(box[d], box[a])
        BY <2>2, <1>1, <1>2, <1>3, SuppressesSymmetric
    <3>2. \A c, d \in picked : c # d => ~Suppresses(box[c], box[d])
        BY DEF LoopInv
    <3>3. picked' = picked \cup {a}
        BY <2>2, <1>1
    <3> QED
        BY <3>1, <3>2, <3>3, <1>1
  <2> QED
      BY <2>1, <2>2
<1>8. \A k \in Index : k < next' /\ faceobjects'[k] \notin picked' =>
          \E b \in picked' : prob'[b] >= ProbAt(k)' /\ Suppresses(box'[faceobjects'[k]], box'[b])
  <2> SUFFICES ASSUME NEW k \in Index, k < next + 1, faceobjects[k] \notin picked'
               PROVE  \E b \in picked' : prob[b] >= ProbAt(k) /\ Suppresses(box[faceobjects[k]], box[b])
      BY <1>1 DEF ProbAt
  <2>1. picked \subseteq picked'
      BY <1>1
  <2>2. CASE k < next
      BY <2>1, <2>2 DEF LoopInv
  <2>3. CASE k = next
    <3>1. hit
        BY <2>3, <1>1
    <3>2. PICK b \in picked : Suppresses(box[a], box[b])
        BY <3>1
    <3>3. PICK l \in Index : l < next /\ faceobjects[l] = b
        BY DEF LoopInv
    <3>4. ProbAt(l) >= ProbAt(k)
        BY <3>3, <2>3, <1>1 DEF IInv, Ordered, Returned
    <3> QED
        BY <2>1, <2>3, <3>2, <3>3, <3>4 DEF ProbAt
  <2> QED
      BY <2>2, <2>3, <1>5
<1>9. Returned'
    BY <1>1 DEF Returned
<1> QED
    BY <1>1, <1>6, <1>7, <1>8, <1>9 DEF LoopInv, Suppresses

LEMMA SortKeepsLoop == ASSUME IInv, LoopInv, NEW s \in sections, Sort(s) PROVE LoopInv'
<1>1. next = 0 /\ picked = {} /\ next' = 0 /\ picked' = {} /\ box' = box
    BY DEF LoopInv, Sort, Returned, Index
<1>2. ~(\E k \in Index : k < 0)
    BY SortAssumption DEF Index
<1> QED
    BY <1>1, <1>2, SortAssumption DEF LoopInv

LEMMA DetectInductive == Spec => [](IInv /\ LoopInv)
<1>1. Init => IInv /\ LoopInv
    BY InitInv, LoopInit DEF Init
<1>2. IInv /\ LoopInv /\ [Next]_vars => (IInv /\ LoopInv)'
  <2> SUFFICES ASSUME IInv, LoopInv, [Next]_vars PROVE (IInv /\ LoopInv)'
      OBVIOUS
  <2>1. ASSUME NEW s \in sections, Sort(s) PROVE (IInv /\ LoopInv)'
    <3>1. SortNext
        BY <2>1 DEF Sort, SortNext
    <3> QED
        BY <2>1, <3>1, SortKeepsLoop, InductiveStep
  <2>2. CASE Suppress
    <3>1. UNCHANGED sortVars
        BY <2>2 DEF Suppress, sortVars
    <3> QED
        BY <2>2, <3>1, SuppressStep, InductiveStep
  <2>3. CASE UNCHANGED vars
    <3>1. UNCHANGED sortVars
        BY <2>3 DEF vars, sortVars
    <3>2. LoopInv'
        BY <2>3 DEF vars, LoopInv, Returned, ProbAt, Suppresses
    <3> QED
        BY <3>1, <3>2, InductiveStep
  <2> QED
      BY <2>1, <2>2, <2>3 DEF Next
<1> QED
    BY <1>1, <1>2, PTL DEF Spec

\* The variables of Detect have their types; the vector is a permutation.
THEOREM TypeCorrect == Spec => []TypeOK
<1>1. IInv /\ LoopInv => TypeOK
    BY DEF IInv, LoopInv, TypeOK, SortTypeOK
<1> QED
    BY <1>1, DetectInductive, PTL

\* The sort does in Detect what it does alone: its sections never share an index,
\* and the suppression starts on a sorted vector.
THEOREM SortsInDetect == Spec => [](SectionsApart /\ SortedOnReturn)
<1>1. IInv /\ LoopInv => SectionsApart /\ SortedOnReturn
    BY RangesApart, NothingOutOfOrder
<1> QED
    BY <1>1, DetectInductive, PTL

\* The report is the greedy choice by probability.
THEOREM GreedyReport == Spec => []KeepsGreedily
<1>1. ASSUME IInv, LoopInv PROVE KeepsGreedily
  <2> SUFFICES ASSUME next = N
               PROVE  /\ \A a, b \in picked : a # b => ~Suppresses(box[a], box[b])
                      /\ \A a \in Index \ picked :
                             \E b \in picked : prob[b] >= prob[a] /\ Suppresses(box[a], box[b])
      BY DEF KeepsGreedily
  <2>1. \A a \in Index : \E k \in Index : faceobjects[k] = a
    <3>1. IsFiniteSet(Index)
        BY SortAssumption, FS_Interval DEF Index
    <3>2. faceobjects \in Injection(Index, Index)
        BY <1>1 DEF IInv, SortTypeOK, Injection, IsInjective
    <3>3. faceobjects \in Surjection(Index, Index)
        BY <3>1, <3>2, FS_Injection
    <3> QED
        BY <3>3 DEF Surjection
  <2>2. \A a, b \in picked : a # b => ~Suppresses(box[a], box[b])
      BY <1>1 DEF LoopInv
  <2>3. ASSUME NEW a \in Index \ picked
        PROVE  \E b \in picked : prob[b] >= prob[a] /\ Suppresses(box[a], box[b])
    <3>1. PICK k \in Index : faceobjects[k] = a
        BY <2>1
    <3>2. k < next
        BY SortAssumption DEF Index
    <3> QED
        BY <1>1, <3>1, <3>2 DEF LoopInv, ProbAt
  <2> QED
      BY <2>2, <2>3
<1> QED
    BY <1>1, DetectInductive, PTL

-----------------------------------------------------------------------------
(* Areas are counts of cells *)

Area(b) == b.w * b.h

\* The whole numbers that two half-open stretches share.
LEMMA SharedStretch ==
    ASSUME NEW p \in Int, NEW m \in Nat, NEW q \in Int, NEW n \in Nat
    PROVE  LET lo == Upper(p, q)
               hi == Lower(p + m, q + n)
           IN  /\ (p .. p + m - 1) \cap (q .. q + n - 1) = lo .. hi - 1
               /\ lo \in Int /\ hi \in Int
               /\ hi < lo <=> (p > q + n \/ p + m < q)
BY DEF Upper, Lower

\* How many whole numbers a stretch holds.
LEMMA StretchCount ==
    ASSUME NEW lo \in Int, NEW hi \in Int
    PROVE  /\ IsFiniteSet(lo .. hi - 1)
           /\ Cardinality(lo .. hi - 1) = IF hi < lo THEN 0 ELSE hi - lo
<1>1. /\ IsFiniteSet(lo .. hi - 1)
      /\ Cardinality(lo .. hi - 1) = IF lo > hi - 1 THEN 0 ELSE (hi - 1) - lo + 1
    BY FS_Interval
<1> QED
    BY <1>1

\* The same for one that starts at p and is m long.
LEMMA SideCount ==
    ASSUME NEW p \in Int, NEW m \in Nat
    PROVE  IsFiniteSet(p .. p + m - 1) /\ Cardinality(p .. p + m - 1) = m
<1>1. p + m \in Int /\ ~(p + m < p) /\ (p + m) - p = m
    OBVIOUS
<1>2. PICK hi \in Int : hi = p + m
    BY <1>1
<1>3. IsFiniteSet(p .. hi - 1) /\ Cardinality(p .. hi - 1) = IF hi < p THEN 0 ELSE hi - p
    BY StretchCount
<1> QED
    BY <1>1, <1>2, <1>3

\* A box covers as many cells as its area.
LEMMA CellCount ==
    ASSUME NEW b \in Boxes
    PROVE  IsFiniteSet(Cells(b)) /\ Cardinality(Cells(b)) = Area(b)
<1>1. b.x \in Int /\ b.y \in Int /\ b.w \in Nat /\ b.h \in Nat
    BY BoxAssumption
<1> DEFINE X == b.x .. b.x + b.w - 1
           Y == b.y .. b.y + b.h - 1
<1>2. IsFiniteSet(X) /\ Cardinality(X) = b.w
    BY <1>1, SideCount, Zenon
<1>3. IsFiniteSet(Y) /\ Cardinality(Y) = b.h
    BY <1>1, SideCount, Zenon
<1>4. Cells(b) = X \X Y
    BY DEF Cells
<1> HIDE DEF X, Y
<1> QED
    BY <1>2, <1>3, <1>4, FS_Product DEF Area

\* Two boxes share as many cells as intersection_area says.
LEMMA SharedCells ==
    ASSUME NEW a \in Boxes, NEW b \in Boxes
    PROVE  Cardinality(Cells(a) \cap Cells(b)) = intersection_area(a, b)
<1>1. /\ a.x \in Int /\ a.y \in Int /\ a.w \in Nat /\ a.h \in Nat
      /\ b.x \in Int /\ b.y \in Int /\ b.w \in Nat /\ b.h \in Nat
    BY BoxAssumption
<1> DEFINE left == Upper(a.x, b.x)
           right == Lower(a.x + a.w, b.x + b.w)
           top == Upper(a.y, b.y)
           bottom == Lower(a.y + a.h, b.y + b.h)
           apartX == a.x > b.x + b.w \/ a.x + a.w < b.x
           apartY == a.y > b.y + b.h \/ a.y + a.h < b.y
           X == left .. right - 1
           Y == top .. bottom - 1
<1>2. /\ (a.x .. a.x + a.w - 1) \cap (b.x .. b.x + b.w - 1) = X
      /\ left \in Int /\ right \in Int /\ (right < left <=> apartX)
    BY <1>1, SharedStretch
<1>3. /\ (a.y .. a.y + a.h - 1) \cap (b.y .. b.y + b.h - 1) = Y
      /\ top \in Int /\ bottom \in Int /\ (bottom < top <=> apartY)
    BY <1>1, SharedStretch
<1>4. Cells(a) \cap Cells(b) = X \X Y
  <2> DEFINE XA == a.x .. a.x + a.w - 1
             XB == b.x .. b.x + b.w - 1
             YA == a.y .. a.y + a.h - 1
             YB == b.y .. b.y + b.h - 1
  <2>1. Cells(a) = XA \X YA /\ Cells(b) = XB \X YB
      BY DEF Cells
  <2>2. XA \cap XB = X /\ YA \cap YB = Y
      BY <1>2, <1>3
  <2> HIDE DEF XA, XB, YA, YB, X, Y
  <2>3. (XA \X YA) \cap (XB \X YB) = (XA \cap XB) \X (YA \cap YB)
      OBVIOUS
  <2> QED
      BY <2>1, <2>2, <2>3
<1>5. IsFiniteSet(X) /\ Cardinality(X) = IF right < left THEN 0 ELSE right - left
    BY <1>2, StretchCount
<1>6. IsFiniteSet(Y) /\ Cardinality(Y) = IF bottom < top THEN 0 ELSE bottom - top
    BY <1>3, StretchCount
<1>7. intersection_area(a, b) = IF apartX \/ apartY THEN 0
                                ELSE (right - left) * (bottom - top)
    BY Zenon DEF intersection_area
<1> HIDE DEF X, Y, left, right, top, bottom, apartX, apartY
<1>8. Cardinality(X \X Y) = Cardinality(X) * Cardinality(Y)
    BY <1>5, <1>6, FS_Product
<1>9. CASE apartX
  <2>1. Cardinality(X) = 0
      BY <1>2, <1>5, <1>9
  <2>2. Cardinality(Y) \in Nat
      BY <1>6, FS_CardinalityType
  <2> QED
      BY <1>4, <1>7, <1>8, <1>9, <2>1, <2>2
<1>10. CASE apartY
  <2>1. Cardinality(Y) = 0
      BY <1>3, <1>6, <1>10
  <2>2. Cardinality(X) \in Nat
      BY <1>5, FS_CardinalityType
  <2> QED
      BY <1>4, <1>7, <1>8, <1>10, <2>1, <2>2
<1>11. CASE ~apartX /\ ~apartY
  <2>1. Cardinality(X) = right - left /\ Cardinality(Y) = bottom - top
      BY <1>2, <1>3, <1>5, <1>6, <1>11
  <2> QED
      BY <1>4, <1>7, <1>8, <1>11, <2>1
<1> QED
    BY <1>9, <1>10, <1>11

\* The quotient of the areas that nms_sorted_bboxes compares is the share of the
\* cells two boxes have in common.
LEMMA SuppressesOverlap ==
    ASSUME NEW a \in Boxes, NEW b \in Boxes
    PROVE  Suppresses(a, b) <=> Overlap(a, b)
<1> DEFINE both == Cardinality(Cells(a) \cap Cells(b))
           all == Cardinality(Cells(a) \cup Cells(b))
<1>1. all = Area(a) + Area(b) - both
    BY CellCount, FS_Union
<1>2. both = intersection_area(a, b)
    BY SharedCells
<1>3. Overlap(a, b) <=> 100 * both > ThresholdPercent * all
    BY Zenon DEF Overlap
<1>4. Suppresses(a, b) <=>
        100 * intersection_area(a, b)
          > ThresholdPercent * (Area(a) + Area(b) - intersection_area(a, b))
    BY Zenon DEF Suppresses, Area
<1> HIDE DEF both, all
<1> QED
    BY <1>1, <1>2, <1>3, <1>4, Zenon

\* What Detect reports is free of overlap, and a proposal left out overlaps a
\* reported one that is at least as probable: for every number of proposals, all
\* probabilities and all boxes.
THEOREM BestReport == Spec => []ReportsBest
<1>1. ASSUME TypeOK, KeepsGreedily PROVE ReportsBest
  <2>1. \A a, b \in Index : Suppresses(box[a], box[b]) <=> Overlap(box[a], box[b])
      BY <1>1, SuppressesOverlap DEF TypeOK
  <2>2. picked \subseteq Index
      BY <1>1 DEF TypeOK
  <2> QED
      BY <1>1, <2>1, <2>2 DEF KeepsGreedily, ReportsBest
<1> QED
    BY <1>1, TypeCorrect, GreedyReport, PTL

-----------------------------------------------------------------------------
(* The sort comes to an end *)

\* Before its first swap a call has the pivot between i and j, which stops both;
\* after it both have left their end of the range, so that neither part that the
\* call goes on with is as long as its own range.
Turned(s) == s.pc # "pivot" =>
    \/ s.left < s.i /\ s.j < s.right
    \/ /\ s.pc # "split"
       /\ \E k \in Index : s.i <= k /\ k <= s.j /\ ProbAt(k) = s.p

TurnInv == \A s \in sections : Turned(s)

Phase == [pc \in {"pivot", "up", "down", "swap", "split"} |->
              IF pc = "pivot" THEN 4 ELSE IF pc = "up" THEN 3 ELSE IF pc = "down" THEN 2
              ELSE IF pc = "swap" THEN 1 ELSE 0]

\* What a call has left to do itself: i has that far to go, and j.
Rest(s) == 4 * (s.right + 1 - s.i) + (s.j + 1 - s.left) + Phase[s.pc]

\* A piece of work: a range, and a number for each thing to be done on it.
Most == 5 * N + 4
Pieces == (Index \X Index) \X (0 .. Most)

\* A piece waits for a call if it is the call's own, or of a range strictly inside.
Waits(s, a, b, n) == \/ a = s.left /\ b = s.right /\ n <= Rest(s)
                     \/ s.left <= a /\ a < b /\ b <= s.right /\ ~(a = s.left /\ b = s.right)

Work == {piece \in Pieces : \E s \in sections : Waits(s, piece[1][1], piece[1][2], piece[2])}

\* The work of the sort and the rounds of the suppression that are left.
Remaining == Cardinality(Work) + (N - next)

LEMMA RestBound ==
    ASSUME NEW s \in Section, LocalInv(s)
    PROVE  Rest(s) \in 0 .. Most
<1>1. /\ s.left \in Int /\ s.right \in Int /\ s.i \in Int /\ s.j \in Int
      /\ s.pc \in {"pivot", "up", "down", "swap", "split"}
    BY DEF Section
<1>2. /\ 0 <= s.left /\ s.left <= s.right /\ s.right < N
      /\ s.left <= s.i /\ s.i <= s.right + 1 /\ s.left - 1 <= s.j /\ s.j <= s.right
    BY DEF LocalInv
<1>3. Phase[s.pc] \in 0 .. 4
    BY <1>1 DEF Phase
<1>4. PICK phase \in 0 .. 4 : phase = Phase[s.pc]
    BY <1>3
<1> QED
    BY <1>1, <1>2, <1>4, SortAssumption DEF Rest, Most

\* A piece of a call's own range waits for no other call.
LEMMA OwnPiece ==
    ASSUME IInv, NEW s \in sections
    PROVE  /\ <<<<s.left, s.right>>, Rest(s)>> \in Work
           /\ \A u \in sections : u # s => ~Waits(u, s.left, s.right, Rest(s))
<1>1. s \in Section /\ LocalInv(s)
    BY DEF IInv, SortTypeOK
<1>2. s.left \in Index /\ s.right \in Index /\ Rest(s) \in 0 .. Most /\ s.left <= s.right
    BY <1>1, RestBound, SortAssumption DEF LocalInv, Section, Index
<1>3. Waits(s, s.left, s.right, Rest(s))
    BY <1>2 DEF Waits
<1>4. <<<<s.left, s.right>>, Rest(s)>> \in Work
    BY <1>2, <1>3 DEF Work, Pieces
<1>5. ASSUME NEW u \in sections, u # s PROVE ~Waits(u, s.left, s.right, Rest(s))
  <2>1. u \in Section /\ LocalInv(u) /\ (u.right < s.left \/ s.right < u.left)
      BY <1>5 DEF IInv, Apart, SortTypeOK
  <2>2. u.left \in Int /\ u.right \in Int /\ u.left <= u.right
      BY <2>1 DEF LocalInv, Section
  <2> QED
      BY <1>2, <2>1, <2>2 DEF Waits, Index
<1> QED
    BY <1>4, <1>5

\* A call that becomes others leaves less work if what waits for them waited for
\* it, and the last piece of its own does not.
LEMMA Shrinks ==
    ASSUME IInv, NEW s \in sections, NEW S, sections' = (sections \ {s}) \cup S,
           \A t \in S : \A a, b \in Index : \A n \in 0 .. Most :
               Waits(t, a, b, n) => Waits(s, a, b, n),
           \A t \in S : ~Waits(t, s.left, s.right, Rest(s))
    PROVE  Work' \subseteq Work /\ Work' # Work
<1>1. Work' = {piece \in Pieces : \E t \in sections' : Waits(t, piece[1][1], piece[1][2], piece[2])}
    BY DEF Work
<1>2. ASSUME NEW piece \in Work' PROVE piece \in Work
  <2>1. piece \in Pieces /\ piece[1][1] \in Index /\ piece[1][2] \in Index /\ piece[2] \in 0 .. Most
      BY <1>1 DEF Pieces
  <2>2. PICK t \in sections' : Waits(t, piece[1][1], piece[1][2], piece[2])
      BY <1>1
  <2>3. \E u \in sections : Waits(u, piece[1][1], piece[1][2], piece[2])
      BY <2>1, <2>2
  <2> QED
      BY <2>1, <2>3 DEF Work
<1>3. <<<<s.left, s.right>>, Rest(s)>> \notin Work'
  <2> DEFINE own == <<<<s.left, s.right>>, Rest(s)>>
  <2>1. own[1][1] = s.left /\ own[1][2] = s.right /\ own[2] = Rest(s)
      OBVIOUS
  <2>2. \A t \in sections' : ~Waits(t, s.left, s.right, Rest(s))
      BY OwnPiece
  <2> HIDE DEF own
  <2> QED
      BY <1>1, <2>1, <2>2 DEF own
<1> QED
    BY <1>2, <1>3, OwnPiece

LEMMA TurnInit == SortInit => TurnInv
BY DEF SortInit, TurnInv, Turned, Call

\* A step inside a call's loop.
LEMMA LoopDescends ==
    ASSUME IInv, TurnInv, NEW s \in sections, NEW t \in Section,
           Become(s, t), t.left = s.left, t.right = s.right, Rest(t) < Rest(s),
           prob' = prob, Turned(t)',
           \A k \in Index : k < s.left \/ s.right < k => faceobjects'[k] = faceobjects[k]
    PROVE  TurnInv' /\ Work' \subseteq Work /\ Work' # Work
<1>1. ASSUME NEW u \in sections, u # s PROVE Turned(u)'
  <2>1. /\ LocalInv(u) /\ LocalInv(s) /\ u \in Section /\ s \in Section /\ Turned(u)
        /\ (u.right < s.left \/ s.right < u.left)
      BY <1>1 DEF IInv, Apart, SortTypeOK, TurnInv
  <2>2. CASE u.pc # "pivot" /\ ~(u.left < u.i /\ u.j < u.right)
    <3>1. PICK k \in Index : u.i <= k /\ k <= u.j /\ ProbAt(k) = u.p
        BY <2>1, <2>2 DEF Turned
    <3>2. k < s.left \/ s.right < k
        BY <3>1, <2>1 DEF LocalInv, Section, Index
    <3>3. ProbAt(k)' = ProbAt(k)
        BY <3>2 DEF ProbAt
    <3> QED
        BY <3>1, <3>3, <2>1, <2>2 DEF Turned
  <2> QED
      BY <2>1, <2>2 DEF Turned
<1>2. TurnInv'
    BY <1>1 DEF TurnInv, Become
<1>3. Rest(s) \in Int /\ Rest(t) \in Int
  <2>1. s \in Section /\ Phase[s.pc] \in Int /\ Phase[t.pc] \in Int
      BY DEF IInv, SortTypeOK, Phase, Section
  <2> QED
      BY <2>1 DEF Rest, Section
<1>4. \A r \in {t} : \A a, b \in Index : \A n \in 0 .. Most : Waits(r, a, b, n) => Waits(s, a, b, n)
  <2>1. Most \in Int
      BY SortAssumption DEF Most
  <2>2. \A n \in 0 .. Most : n <= Rest(t) => n <= Rest(s)
      BY <1>3, <2>1
  <2> QED
      BY <2>2 DEF Waits
<1>5. \A r \in {t} : ~Waits(r, s.left, s.right, Rest(s))
    BY <1>3 DEF Waits
<1>6. sections' = (sections \ {s}) \cup {t}
    BY DEF Become
<1>7. PICK S : S = {t}
    OBVIOUS
<1>8. Work' \subseteq Work /\ Work' # Work
  <2>1. sections' = (sections \ {s}) \cup S
      BY <1>6, <1>7
  <2>2. \A r \in S : \A a, b \in Index : \A n \in 0 .. Most :
            Waits(r, a, b, n) => Waits(s, a, b, n)
      BY <1>4, <1>7
  <2>3. \A r \in S : ~Waits(r, s.left, s.right, Rest(s))
      BY <1>5, <1>7
  <2> QED
      BY ONLY <2>1, <2>2, <2>3, Shrinks, IInv, s \in sections, Zenon
<1> QED
    BY <1>2, <1>8

LEMMA PivotDescends ==
    ASSUME IInv, TurnInv, NEW s \in sections, Pivot(s)
    PROVE  TurnInv' /\ Work' \subseteq Work /\ Work' # Work
<1>1. s \in Section /\ LocalInv(s) /\ s.pc = "pivot" /\ UNCHANGED <<faceobjects, prob>>
    BY DEF IInv, SortTypeOK, Pivot
<1>2. PICK m \in Index : m = (s.left + s.right) \div 2 /\ s.left <= m /\ m <= s.right
    BY <1>1, SortAssumption DEF LocalInv, Section, Index
<1>3. ProbAt(m) \in Int
    BY <1>2, ProbType DEF IInv
<1>4. PICK t : t = [s EXCEPT !.p = ProbAt(m), !.pc = "up"]
    OBVIOUS
<1>5. /\ t \in Section /\ t.left = s.left /\ t.right = s.right /\ t.i = s.i /\ t.j = s.j
      /\ t.pc = "up" /\ t.p = ProbAt(m)
    BY <1>1, <1>3, <1>4 DEF Section
<1>6. Become(s, t)
    BY <1>2, <1>4 DEF Pivot
<1>7. Rest(t) < Rest(s)
    BY <1>1, <1>5 DEF Rest, Phase, Section
<1>8. Turned(t)'
  <2>1. t.i <= m /\ m <= t.j /\ ProbAt(m)' = t.p
      BY <1>1, <1>2, <1>5 DEF LocalInv, ProbAt
  <2> QED
      BY <1>5, <2>1 DEF Turned, Index
<1> QED
    BY <1>1, <1>5, <1>6, <1>7, <1>8, LoopDescends

LEMMA UpDescends ==
    ASSUME IInv, TurnInv, NEW s \in sections, Up(s)
    PROVE  TurnInv' /\ Work' \subseteq Work /\ Work' # Work
<1>1. /\ s \in Section /\ LocalInv(s) /\ s.pc = "up" /\ UNCHANGED <<faceobjects, prob>>
      /\ Turned(s)
    BY DEF IInv, SortTypeOK, Up, TurnInv
<1>2. PICK t : t = IF ProbAt(s.i) > s.p THEN [s EXCEPT !.i = s.i + 1] ELSE [s EXCEPT !.pc = "down"]
    OBVIOUS
<1>3. /\ t \in Section /\ t.left = s.left /\ t.right = s.right /\ t.j = s.j /\ t.p = s.p
      /\ ProbAt(s.i) > s.p => t.i = s.i + 1 /\ t.pc = "up"
      /\ ~(ProbAt(s.i) > s.p) => t.i = s.i /\ t.pc = "down"
    BY <1>1, <1>2 DEF Section
<1>4. Become(s, t)
    BY <1>2 DEF Up
<1>5. Rest(t) < Rest(s)
    BY <1>1, <1>3 DEF Rest, Phase, Section
<1>6. Turned(t)'
  <2>1. CASE s.left < s.i /\ s.j < s.right
      BY <1>1, <1>3, <2>1 DEF Turned, Section
  <2>2. CASE ~(s.left < s.i /\ s.j < s.right)
    <3>1. PICK k \in Index : s.i <= k /\ k <= s.j /\ ProbAt(k) = s.p
        BY <1>1, <2>2 DEF Turned
    <3>2. ProbAt(k)' = ProbAt(k)
        BY <1>1 DEF ProbAt
    <3>3. k = s.i => ~(ProbAt(s.i) > s.p)
        BY <1>1, <3>1 DEF Section
    <3>4. t.i <= k
        BY <1>1, <1>3, <3>1, <3>3 DEF Section, Index
    <3> QED
        BY <1>3, <3>1, <3>2, <3>4 DEF Turned
  <2> QED
      BY <2>1, <2>2
<1> QED
    BY <1>1, <1>3, <1>4, <1>5, <1>6, LoopDescends

LEMMA DownDescends ==
    ASSUME IInv, TurnInv, NEW s \in sections, Down(s)
    PROVE  TurnInv' /\ Work' \subseteq Work /\ Work' # Work
<1>1. /\ s \in Section /\ LocalInv(s) /\ s.pc = "down" /\ UNCHANGED <<faceobjects, prob>>
      /\ Turned(s)
    BY DEF IInv, SortTypeOK, Down, TurnInv
<1>2. PICK t : t = IF ProbAt(s.j) < s.p THEN [s EXCEPT !.j = s.j - 1] ELSE [s EXCEPT !.pc = "swap"]
    OBVIOUS
<1>3. /\ t \in Section /\ t.left = s.left /\ t.right = s.right /\ t.i = s.i /\ t.p = s.p
      /\ ProbAt(s.j) < s.p => t.j = s.j - 1 /\ t.pc = "down"
      /\ ~(ProbAt(s.j) < s.p) => t.j = s.j /\ t.pc = "swap"
    BY <1>1, <1>2 DEF Section
<1>4. Become(s, t)
    BY <1>2 DEF Down
<1>5. Rest(t) < Rest(s)
    BY <1>1, <1>3 DEF Rest, Phase, Section
<1>6. Turned(t)'
  <2>1. CASE s.left < s.i /\ s.j < s.right
      BY <1>1, <1>3, <2>1 DEF Turned, Section
  <2>2. CASE ~(s.left < s.i /\ s.j < s.right)
    <3>1. PICK k \in Index : s.i <= k /\ k <= s.j /\ ProbAt(k) = s.p
        BY <1>1, <2>2 DEF Turned
    <3>2. ProbAt(k)' = ProbAt(k)
        BY <1>1 DEF ProbAt
    <3>3. k = s.j => ~(ProbAt(s.j) < s.p)
        BY <1>1, <3>1 DEF Section
    <3>4. k <= t.j
        BY <1>1, <1>3, <3>1, <3>3 DEF Section, Index
    <3> QED
        BY <1>3, <3>1, <3>2, <3>4 DEF Turned
  <2> QED
      BY <2>1, <2>2
<1> QED
    BY <1>1, <1>3, <1>4, <1>5, <1>6, LoopDescends

LEMMA SwapDescends ==
    ASSUME IInv, TurnInv, NEW s \in sections, Swap(s)
    PROVE  TurnInv' /\ Work' \subseteq Work /\ Work' # Work
<1>1. s \in Section /\ LocalInv(s) /\ s.pc = "swap" /\ prob' = prob /\ Turned(s)
    BY DEF IInv, SortTypeOK, Swap, TurnInv
<1>2. /\ s.i \in Int /\ s.j \in Int /\ s.left \in Int /\ s.right \in Int
      /\ s.left <= s.i /\ s.i <= s.right /\ s.left <= s.j /\ s.j <= s.right
    BY <1>1 DEF LocalInv, Section
<1>3. CASE s.i > s.j
  <2>0. PICK t : t = [s EXCEPT !.pc = "split"]
      OBVIOUS
  <2>1. t \in Section /\ t.left = s.left /\ t.right = s.right /\ t.i = s.i /\ t.j = s.j
        /\ t.p = s.p /\ t.pc = "split"
      BY <1>1, <2>0 DEF Section
  <2>2. Become(s, t) /\ faceobjects' = faceobjects
      BY <1>1, <1>2, <1>3, <2>0 DEF Swap
  <2>3. Rest(t) < Rest(s)
      BY <1>1, <1>2, <2>1 DEF Rest, Phase
  <2>4. s.left < s.i /\ s.j < s.right
      BY <1>1, <1>2, <1>3 DEF Turned, Index
  <2>5. Turned(t)'
      BY <2>1, <2>4 DEF Turned
  <2> QED
      BY <1>1, <2>1, <2>2, <2>3, <2>5, LoopDescends
<1>4. CASE s.i <= s.j
  <2>a. PICK q : q = IF s.i + 1 <= s.j - 1 THEN "up" ELSE "split"
      OBVIOUS
  <2>0. PICK t : t = [s EXCEPT !.i = s.i + 1, !.j = s.j - 1, !.pc = q]
      OBVIOUS
  <2>1. /\ t \in Section /\ t.left = s.left /\ t.right = s.right
        /\ t.i = s.i + 1 /\ t.j = s.j - 1 /\ t.p = s.p /\ t.pc = q
    <3>1. q \in {"up", "split"} /\ s.i + 1 \in Int /\ s.j - 1 \in Int
        BY <1>2, <2>a
    <3> QED
        BY <1>1, <2>0, <3>1 DEF Section
  <2>2. Become(s, t)
      BY <1>4, <2>a, <2>0 DEF Swap
  <2>3. Phase[q] \in 0 .. 3 /\ Phase[s.pc] = 1
      BY <1>1, <2>a DEF Phase
  <2>4. Rest(t) < Rest(s)
      BY <1>2, <2>1, <2>3 DEF Rest
  <2>5. Turned(t)'
      BY <1>2, <2>1 DEF Turned
  <2>6. \A k \in Index : k < s.left \/ s.right < k => faceobjects'[k] = faceobjects[k]
    <3>1. faceobjects' = [faceobjects EXCEPT ![s.i] = faceobjects[s.j], ![s.j] = faceobjects[s.i]]
        BY <1>4 DEF Swap
    <3>2. faceobjects \in [Index -> Index]
        BY DEF IInv, SortTypeOK
    <3>3. \A k \in Index : k < s.left \/ s.right < k => k # s.i /\ k # s.j
        BY <1>2 DEF Index
    <3> QED
        BY <3>1, <3>2, <3>3
  <2> QED
      BY <1>1, <2>1, <2>2, <2>4, <2>5, <2>6, LoopDescends
<1> QED
    BY <1>2, <1>3, <1>4

LEMMA SplitDescends ==
    ASSUME IInv, TurnInv, NEW s \in sections, Split(s)
    PROVE  TurnInv' /\ Work' \subseteq Work /\ Work' # Work
<1>1. /\ s \in Section /\ LocalInv(s) /\ s.pc = "split" /\ UNCHANGED <<faceobjects, prob>>
      /\ sections' = (sections \ {s}) \cup Children(s) /\ Turned(s)
    BY DEF IInv, SortTypeOK, Split, TurnInv
<1>2. /\ s.left \in Int /\ s.right \in Int /\ s.i \in Int /\ s.j \in Int
      /\ s.left < s.i /\ s.j < s.right /\ s.left <= s.right
    BY <1>1 DEF Turned, LocalInv, Section
<1>3. ASSUME NEW c \in Children(s)
      PROVE  /\ c.left \in Int /\ c.right \in Int /\ c.left < c.right
             /\ s.left <= c.left /\ c.right <= s.right
             /\ s.left < c.left \/ c.right < s.right
             /\ c.pc = "pivot"
  <2>1. c.left < c.right /\ (c = Call(s.left, s.j) \/ c = Call(s.i, s.right))
      BY <1>3 DEF Children
  <2> QED
      BY <2>1, <1>2 DEF Call
<1>4. TurnInv'
  <2>1. ASSUME NEW u \in sections PROVE Turned(u)'
    <3>1. \A k \in Index : ProbAt(k)' = ProbAt(k)
        BY <1>1 DEF ProbAt
    <3> QED
        BY <3>1 DEF TurnInv, Turned
  <2> QED
      BY <1>1, <1>3, <2>1 DEF TurnInv, Turned
<1>5. \A c \in Children(s) : \A a, b \in Index : \A n \in 0 .. Most :
          Waits(c, a, b, n) => Waits(s, a, b, n)
  <2> SUFFICES ASSUME NEW c \in Children(s), NEW a \in Index, NEW b \in Index,
                      NEW n \in 0 .. Most, Waits(c, a, b, n)
               PROVE  Waits(s, a, b, n)
      OBVIOUS
  <2>1. s.left <= a /\ a < b /\ b <= s.right /\ ~(a = s.left /\ b = s.right)
      BY <1>2, <1>3 DEF Waits, Index
  <2> QED
      BY <2>1 DEF Waits
<1>6. \A c \in Children(s) : ~Waits(c, s.left, s.right, Rest(s))
  <2> SUFFICES ASSUME NEW c \in Children(s), Waits(c, s.left, s.right, Rest(s)) PROVE FALSE
      OBVIOUS
  <2>1. c.left <= s.left /\ s.right <= c.right
      BY <1>3 DEF Waits
  <2> QED
      BY <1>2, <1>3, <2>1
<1> QED
    BY <1>1, <1>4, <1>5, <1>6, Shrinks

LEMMA SortDescends ==
    ASSUME IInv, TurnInv, NEW s \in sections, SectionStep(s)
    PROVE  TurnInv' /\ Work' \subseteq Work /\ Work' # Work
BY PivotDescends, UpDescends, DownDescends, SwapDescends, SplitDescends DEF SectionStep

\* There are finitely many pieces.
LEMMA PieceCount ==
    /\ IsFiniteSet(Pieces)
    /\ Cardinality(Pieces) = (N * N) * (5 * N + 5)
<1>1. IsFiniteSet(Index) /\ Cardinality(Index) = N
  <2>1. N - 1 \in Int /\ (0 > N - 1 <=> N = 0) /\ (N - 1) - 0 + 1 = N
      BY SortAssumption
  <2> QED
      BY <2>1, FS_Interval DEF Index
<1>2. IsFiniteSet(Index \X Index) /\ Cardinality(Index \X Index) = N * N
    BY <1>1, FS_Product
<1>3. IsFiniteSet(0 .. Most) /\ Cardinality(0 .. Most) = 5 * N + 5
  <2>1. Most \in Int /\ ~(0 > Most) /\ Most - 0 + 1 = 5 * N + 5
      BY SortAssumption DEF Most
  <2> QED
      BY <2>1, FS_Interval
<1>4. PICK A : A = Index \X Index
    OBVIOUS
<1>5. PICK B : B = 0 .. Most
    OBVIOUS
<1>6. IsFiniteSet(A \X B) /\ Cardinality(A \X B) = Cardinality(A) * Cardinality(B)
    BY <1>2, <1>3, <1>4, <1>5, FS_Product, Zenon
<1>7. Pieces = A \X B
    BY <1>4, <1>5, Zenon DEF Pieces
<1> QED
    BY <1>2, <1>3, <1>4, <1>5, <1>6, <1>7, Zenon

LEMMA WorkCount == IsFiniteSet(Work) /\ Cardinality(Work) \in Nat
BY PieceCount, FS_Subset, FS_CardinalityType DEF Work

\* Every step of Detect leaves less to do than there was, in every interleaving of
\* the sections; and what there is to do at any time is bounded by the number of
\* proposals, and nothing just when the report is ready.  None of the loops has another
\* bound (yolov5ncnn_jni.cpp:290-304).
THEOREM SortEnds == Spec => /\ [](Remaining \in 0 .. (N * N) * (5 * N + 5) + N)
                            /\ [](Remaining = 0 <=> Returned /\ next = N)
                            /\ [][Remaining' < Remaining]_vars
<1>1. Init => IInv /\ LoopInv /\ TurnInv
    BY InitInv, LoopInit, TurnInit DEF Init
<1>2. ASSUME IInv, LoopInv, TurnInv, Next PROVE TurnInv' /\ Remaining' < Remaining
  <2>0. next \in Int /\ N \in Int
      BY <1>2, SortAssumption DEF LoopInv
  <2>1. ASSUME NEW s \in sections, Sort(s) PROVE TurnInv' /\ Remaining' < Remaining
    <3>1. TurnInv' /\ Work' \subseteq Work /\ Work' # Work /\ next' = next
        BY <1>2, <2>1, SortDescends DEF Sort
    <3>2. Cardinality(Work') <= Cardinality(Work) /\ Cardinality(Work') # Cardinality(Work)
        BY <3>1, WorkCount, FS_Subset
    <3>3. Cardinality(Work') \in Nat /\ Cardinality(Work) \in Nat
        BY <3>1, WorkCount, FS_Subset, FS_CardinalityType
    <3>4. PICK m, n \in Nat : m = Cardinality(Work') /\ n = Cardinality(Work)
        BY <3>3
    <3>5. m < n
        BY <3>2, <3>4
    <3>6. Remaining' = m + (N - next) /\ Remaining = n + (N - next)
        BY <3>1, <3>4 DEF Remaining
    <3> QED
        BY <2>0, <3>1, <3>4, <3>5, <3>6
  <2>2. CASE Suppress
    <3>1. Work' = Work /\ next' = next + 1 /\ TurnInv'
        BY <1>2, <2>2 DEF Suppress, Work, TurnInv, Turned, ProbAt
    <3>2. PICK n \in Nat : n = Cardinality(Work)
        BY WorkCount
    <3>3. Remaining' = n + (N - (next + 1)) /\ Remaining = n + (N - next)
        BY <3>1, <3>2 DEF Remaining
    <3> QED
        BY <2>0, <3>1, <3>2, <3>3
  <2> QED
      BY <1>2, <2>1, <2>2 DEF Next
<1>3. TurnInv /\ UNCHANGED vars => TurnInv'
    BY DEF vars, TurnInv, Turned, ProbAt
<1>4. LoopInv => Remaining \in 0 .. (N * N) * (5 * N + 5) + N
  <2> SUFFICES ASSUME LoopInv PROVE Remaining \in 0 .. (N * N) * (5 * N + 5) + N
      OBVIOUS
  <2>1. Cardinality(Work) <= Cardinality(Pieces)
      BY PieceCount, FS_Subset DEF Work
  <2>2. PICK m \in Nat : m = Cardinality(Work)
      BY WorkCount
  <2>3. PICK most \in Nat : most = (N * N) * (5 * N + 5)
      BY SortAssumption
  <2>4. m <= most /\ next \in 0 .. N /\ Remaining = m + (N - next)
      BY <2>1, <2>2, <2>3, PieceCount DEF LoopInv, Remaining
  <2> QED
      BY <2>2, <2>3, <2>4, SortAssumption
<1>5. IInv /\ LoopInv => (Remaining = 0 <=> Returned /\ next = N)
  <2> SUFFICES ASSUME IInv, LoopInv PROVE Remaining = 0 <=> Returned /\ next = N
      OBVIOUS
  <2>1. Returned <=> Work = {}
      BY OwnPiece DEF Returned, Work
  <2>2. Work = {} <=> Cardinality(Work) = 0
      BY WorkCount, FS_EmptySet
  <2>3. PICK m \in Nat : m = Cardinality(Work)
      BY WorkCount
  <2>4. next \in 0 .. N /\ Remaining = m + (N - next)
      BY <2>3 DEF LoopInv, Remaining
  <2> QED
      BY <2>1, <2>2, <2>3, <2>4, SortAssumption
<1> QED
    BY <1>1, <1>2, <1>3, <1>4, <1>5, DetectInductive, PTL DEF Spec

=============================================================================
