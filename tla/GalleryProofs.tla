---------------------------- MODULE GalleryProofs ----------------------------
(***************************************************************************)
(* The lists stay inside their bounds, the dialog removes what was seen    *)
(* and a countdown ends with its video, for any number of files and of     *)
(* presses of play.                                                        *)
(***************************************************************************)
EXTENDS Gallery, FiniteSetTheorems, SequenceTheorems, TLAPS

Sel == Selected(fileList, selectIndex)

\* The list names no file twice and, until the system takes files, only files that
\* are there: a list made anew is then no shorter than the old one.
ListInv ==
    /\ \A i, j \in DOMAIN fileList : fileList[i] = fileList[j] => i = j
    /\ screen = "list" => selectIndex < Len(fileList)
    /\ screen = "closed" => selectIndex = 0 /\ fileList = <<>>
    /\ ~trimmed => \A i \in DOMAIN fileList : fileList[i] \in disk
    /\ screen = "crashed" => trimmed

\* But for the lost ones only the countdown in the field can be running, and only
\* while the videoView is seen.
TimerInv == timers \subseteq lost \cup (IF videoView = "gone" THEN {} ELSE {timer})

\* The newest picture asked for is the selected one, and with none on its way the
\* view shows the selected one or nothing, unless that one was not compressed.
SeenInv ==
    /\ kind = "video" => compress = <<>>
    /\ screen = "closed" => ~dialog
    /\ screen = "list" =>
           IF compress = <<>> THEN missed \/ imageView \in {0, Sel} ELSE Last(compress) = Sel
    /\ screen = "list" /\ dialog /\ promised # 0 =>
           compress = <<>> /\ (missed \/ promised = Sel)

IInv == TypeOK /\ ListInv /\ SeenInv

-----------------------------------------------------------------------------
(* The listing *)

\* Of k files in order of age the n-th is the one that n of them are not older
\* than: the ranks of d's files are exactly 1 .. Cardinality(d).
LEMMA Ranks ==
    ASSUME NEW d \in SUBSET Nat, IsFiniteSet(d)
    PROVE  /\ Cardinality(d) \in Nat
           /\ \A k \in 1 .. Cardinality(d) :
                  \E f \in d : Cardinality({g \in d : g >= f}) = k
<1> DEFINE Up(f) == {g \in d : g >= f}
           rank == [f \in d |-> Cardinality(Up(f))]
           n == Cardinality(d)
<1>1. n \in Nat
    BY FS_CardinalityType
<1>2. ASSUME NEW f \in d
      PROVE  IsFiniteSet(Up(f)) /\ Cardinality(Up(f)) \in 1 .. n
  <2>1. Up(f) \in SUBSET d /\ f \in Up(f)
      OBVIOUS
  <2>2. IsFiniteSet(Up(f)) /\ Cardinality(Up(f)) <= n
      BY <2>1, FS_Subset
  <2>3. Cardinality(Up(f)) \in Nat /\ Cardinality(Up(f)) # 0
      BY <2>1, <2>2, FS_CardinalityType, FS_EmptySet
  <2> QED
      BY <1>1, <2>2, <2>3
<1>3. ASSUME NEW f \in d, NEW g \in d, f < g
      PROVE  Cardinality(Up(f)) # Cardinality(Up(g))
  <2>0. \A x \in d : x \in Nat
      OBVIOUS
  <2>1. Up(g) \in SUBSET Up(f) /\ f \in Up(f) /\ f \notin Up(g)
    <3>1. f \in Nat /\ g \in Nat /\ f < g
        BY <1>3, <2>0
    <3>2. \A x \in d : x >= g => x >= f
        BY <2>0, <3>1
    <3>3. f >= f /\ ~(f >= g)
        BY <3>1
    <3> QED
        BY <3>2, <3>3
  <2> HIDE DEF Up
  <2>2. Up(f) # Up(g)
      BY <2>1
  <2> QED
      BY <1>2, <2>1, <2>2, FS_Subset
<1>4. rank \in Injection(d, 1 .. n)
  <2>1. rank \in [d -> 1 .. n]
      BY <1>2
  <2>2. ASSUME NEW f \in d, NEW g \in d, rank[f] = rank[g] PROVE f = g
    <3>1. f \in Nat /\ g \in Nat
        OBVIOUS
    <3>2. Cardinality(Up(f)) = Cardinality(Up(g))
        BY <2>2
    <3> HIDE DEF Up, rank
    <3>3. ~(f < g) /\ ~(g < f)
        BY <1>3, <3>2
    <3> QED
        BY <3>1, <3>3
  <2> HIDE DEF rank
  <2> QED
      BY <2>1, <2>2 DEF Injection, IsInjective
<1>5. IsFiniteSet(1 .. n) /\ Cardinality(1 .. n) = n
    BY <1>1, FS_Interval
<1>6. rank \in Surjection(d, 1 .. n)
  <2> HIDE DEF rank
  <2> QED
      BY <1>4, <1>5, FS_Injection
<1>7. ASSUME NEW k \in 1 .. n PROVE \E f \in d : Cardinality(Up(f)) = k
  <2>1. PICK f \in d : rank[f] = k
    <3> HIDE DEF rank
    <3> QED
        BY <1>6 DEF Surjection
  <2> QED
      BY <2>1
<1> QED
    BY <1>1, <1>7

\* A list made of a directory names every place's file once, and has a place for
\* every file.
LEMMA NewestLists ==
    ASSUME NEW d \in SUBSET Nat, IsFiniteSet(d)
    PROVE  /\ Newest(d) \in Seq(d)
           /\ Len(Newest(d)) = Cardinality(d)
           /\ \A i, j \in DOMAIN Newest(d) : Newest(d)[i] = Newest(d)[j] => i = j
<1> DEFINE n == Cardinality(d)
           At(k) == CHOOSE f \in d : Cardinality({g \in d : g >= f}) = k
<1>1. n \in Nat
    BY Ranks
<1>2. ASSUME NEW k \in 1 .. n
      PROVE  At(k) \in d /\ Cardinality({g \in d : g >= At(k)}) = k
    BY Ranks
<1>3. Newest(d) = [k \in 1 .. n |-> At(k)]
    BY DEF Newest
<1> HIDE DEF At
<1>4. Newest(d) \in [1 .. n -> d] /\ \A k \in 1 .. n : Newest(d)[k] = At(k)
    BY <1>2, <1>3
<1>5. Newest(d) \in Seq(d) /\ Len(Newest(d)) = n /\ DOMAIN Newest(d) = 1 .. n
    BY <1>1, <1>4
<1>6. ASSUME NEW i \in 1 .. n, NEW j \in 1 .. n, At(i) = At(j) PROVE i = j
    BY <1>2, <1>6
<1> QED
    BY <1>4, <1>5, <1>6

-----------------------------------------------------------------------------
(* Lists and what is shown *)

LEMMA ItemsOf ==
    ASSUME NEW S, NEW q \in Seq(S)
    PROVE  Len(q) \in Nat /\ \A i \in 1 .. Len(q) : q[i] \in S
OBVIOUS

LEMMA SeqOfSubset ==
    ASSUME NEW T, NEW S \in SUBSET T, NEW q \in Seq(S)
    PROVE  q \in Seq(T)
OBVIOUS

LEMMA SelectedIn ==
    ASSUME NEW S, NEW l \in Seq(S), NEW i \in Nat, i < Len(l)
    PROVE  Selected(l, i) \in S
<1>1. Len(l) \in Nat /\ \A k \in 1 .. Len(l) : l[k] \in S
    BY ItemsOf
<1>2. i + 1 \in 1 .. Len(l)
    BY <1>1
<1> QED
    BY <1>1, <1>2 DEF Selected

LEMMA Removal ==
    ASSUME NEW S, NEW l \in Seq(S), NEW k \in 1 .. Len(l)
    PROVE  /\ RemoveAt(l, k) \in Seq(S)
           /\ Len(RemoveAt(l, k)) = Len(l) - 1
           /\ \A i \in 1 .. Len(l) - 1 :
                  RemoveAt(l, k)[i] = IF i < k THEN l[i] ELSE l[i + 1]
<1>1. Len(l) \in Nat /\ \A i \in 1 .. Len(l) : l[i] \in S
    BY ItemsOf
<1> DEFINE a == SubSeq(l, 1, k - 1)
           b == SubSeq(l, k + 1, Len(l))
<1>2. a \in Seq(S) /\ Len(a) = k - 1 /\ \A i \in 1 .. k - 1 : a[i] = l[i]
    BY <1>1, SubSeqProperties
<1>3. b \in Seq(S) /\ Len(b) = Len(l) - k /\ \A i \in 1 .. Len(l) - k : b[i] = l[k + i]
    BY <1>1, SubSeqProperties
<1>4. RemoveAt(l, k) = a \o b
    BY DEF RemoveAt
<1> HIDE DEF a, b
<1>5. /\ a \o b \in Seq(S) /\ Len(a \o b) = Len(l) - 1
      /\ \A i \in 1 .. Len(l) - 1 :
             (a \o b)[i] = IF i < k THEN a[i] ELSE b[i - (k - 1)]
    BY <1>1, <1>2, <1>3, ConcatProperties
<1>6. ASSUME NEW i \in 1 .. Len(l) - 1
      PROVE  (a \o b)[i] = IF i < k THEN l[i] ELSE l[i + 1]
  <2>1. (a \o b)[i] = IF i < k THEN a[i] ELSE b[i - (k - 1)]
      BY <1>5
  <2>2. CASE i < k
    <3>1. i \in 1 .. k - 1
        BY <1>1, <2>2
    <3> QED
        BY <1>2, <2>1, <2>2, <3>1
  <2>3. CASE ~(i < k)
    <3>1. i - (k - 1) \in 1 .. Len(l) - k /\ k + (i - (k - 1)) = i + 1
        BY <1>1, <2>3
    <3> QED
        BY <1>3, <2>1, <2>3, <3>1
  <2> QED
      BY <2>2, <2>3
<1> QED
    BY <1>4, <1>5, <1>6

LEMMA OldestDone ==
    ASSUME NEW S, NEW q \in Seq(S), q # <<>>
    PROVE  /\ Tail(q) \in Seq(S) /\ Head(q) \in S
           /\ Tail(q) = <<>> => Head(q) = Last(q)
           /\ Tail(q) # <<>> => Last(Tail(q)) = Last(q)
<1>1. /\ Head(q) \in S /\ Tail(q) \in Seq(S) /\ Len(Tail(q)) = Len(q) - 1
      /\ \A i \in 1 .. Len(Tail(q)) : Tail(q)[i] = q[i + 1]
      /\ Len(q) \in Nat /\ Len(q) # 0 /\ Head(q) = q[1]
    BY HeadTailProperties, EmptySeq
<1>2. Tail(q) = <<>> <=> Len(Tail(q)) = 0
    BY <1>1, EmptySeq
<1>3. Tail(q) = <<>> => Head(q) = q[Len(q)]
    BY <1>1, <1>2
<1>4. Tail(q) # <<>> => Tail(q)[Len(Tail(q))] = q[Len(q)]
    BY <1>1, <1>2
<1> QED
    BY <1>1, <1>3, <1>4 DEF Last

\* A picture is asked for last, a video is in the view or nothing is.
LEMMA ShowMoves ==
    ASSUME TypeOK, NEW f \in 1 .. made, Show(f), kind = "video" => compress = <<>>
    PROVE  /\ imageView' \in 0 .. made /\ compress' \in Seq(1 .. made) /\ missed' = missed
           /\ kind = "video" => compress' = <<>>
           /\ IF compress' = <<>> THEN imageView' \in {0, f} ELSE Last(compress') = f
<1>1. imageView \in 0 .. made /\ compress \in Seq(1 .. made)
    BY DEF TypeOK
<1>2. CASE kind = "picture" /\ compress' = Append(compress, f) /\ UNCHANGED <<imageView, missed>>
  <2>1. /\ Append(compress, f) \in Seq(1 .. made)
        /\ Len(Append(compress, f)) = Len(compress) + 1 /\ Len(compress) \in Nat
        /\ Append(compress, f)[Len(compress) + 1] = f
      BY <1>1
  <2>2. compress' # <<>> /\ Last(compress') = f
      BY <1>2, <2>1 DEF Last
  <2> QED
      BY <1>1, <1>2, <2>1, <2>2
<1>3. CASE /\ kind = "video" /\ imageView' \in {0, f} \cap ({0} \cup disk)
           /\ UNCHANGED <<compress, missed>>
  <2>1. imageView' \in {0, f} /\ 0 \in 0 .. made /\ f \in 0 .. made
      BY <1>3 DEF TypeOK
  <2>2. compress' = compress /\ compress = <<>>
      BY <1>3
  <2> QED
      BY <1>1, <1>3, <2>1, <2>2
<1> QED
    BY <1>2, <1>3 DEF Show

\* A refill of the list stays inside it with the old index, unless files were
\* taken, and shows what is selected now.
LEMMA Refill ==
    ASSUME TypeOK, ListInv, screen \in {"list", "closed"}, getFileList,
           UNCHANGED <<kind, files, selectIndex>>
    PROVE  /\ ListInv'
           /\ screen' \in {"list", "empty", "crashed"} /\ fileList' \in Seq(1 .. made)
           /\ screen' = "list" => /\ Selected(fileList', selectIndex) \in 1 .. made
                                  /\ Show(Selected(fileList', selectIndex))
           /\ screen' # "list" => UNCHANGED shown
<1> DEFINE l == IF disk = {} THEN fileList ELSE Newest(disk)
<1>1. /\ disk \in SUBSET (1 .. made) /\ made \in Nat /\ fileList \in Seq(1 .. made)
      /\ selectIndex \in Nat /\ trimmed \in BOOLEAN
    BY GalleryAssumption DEF TypeOK
<1>2. UNCHANGED <<disk, made, trimmed, selectIndex>>
    BY DEF files
<1>3. disk \in SUBSET Nat /\ IsFiniteSet(disk)
  <2>1. IsFiniteSet(1 .. made)
      BY <1>1, FS_Interval
  <2>2. \A f \in 1 .. made : f \in Nat
      BY <1>1
  <2>3. IsFiniteSet(disk)
      BY <1>1, <2>1, FS_Subset
  <2> QED
      BY <1>1, <2>2, <2>3
<1>4. /\ Newest(disk) \in Seq(disk) /\ Len(Newest(disk)) = Cardinality(disk)
      /\ \A i, j \in DOMAIN Newest(disk) : Newest(disk)[i] = Newest(disk)[j] => i = j
      /\ Cardinality(disk) \in Nat
    BY <1>3, NewestLists, FS_CardinalityType
<1>5. l \in Seq(1 .. made) /\ \A i, j \in DOMAIN l : l[i] = l[j] => i = j
  <2>1. \A i, j \in DOMAIN fileList : fileList[i] = fileList[j] => i = j
      BY DEF ListInv
  <2>2. Newest(disk) \in Seq(1 .. made)
    <3>1. \A q \in Seq(disk) : q \in Seq(1 .. made)
        BY <1>1, SeqOfSubset
    <3> QED
        BY <1>4, <3>1
  <2> QED
      BY <1>1, <1>4, <2>1, <2>2
<1>6. ~trimmed => \A i \in DOMAIN l : l[i] \in disk
  <2>1. ~trimmed => \A i \in DOMAIN fileList : fileList[i] \in disk
      BY DEF ListInv
  <2>2. \A i \in DOMAIN Newest(disk) : Newest(disk)[i] \in disk
      BY <1>4
  <2> QED
      BY <2>1, <2>2
<1>7. ~trimmed => Len(fileList) <= Len(l)
  <2> SUFFICES ASSUME ~trimmed, disk # {} PROVE Len(fileList) <= Cardinality(disk)
      BY <1>1, <1>4
  <2>1. fileList \in Injection(1 .. Len(fileList), disk)
    <3>1. /\ fileList \in [1 .. Len(fileList) -> disk]
          /\ \A i, j \in 1 .. Len(fileList) : fileList[i] = fileList[j] => i = j
        BY <1>1 DEF ListInv
    <3> QED
        BY <3>1 DEF Injection, IsInjective
  <2>2. Cardinality(1 .. Len(fileList)) = Len(fileList)
    <3>1. Len(fileList) \in Nat
        BY <1>1
    <3>2. \A n \in Nat : Cardinality(1 .. n) = n
        BY FS_Interval
    <3> QED
        BY <3>1, <3>2
  <2> QED
      BY <1>3, <2>1, <2>2, FS_Injection
<1>8. ~trimmed /\ l # <<>> => selectIndex < Len(l)
  <2>1. CASE screen = "list"
    <3>1. selectIndex < Len(fileList)
        BY <2>1 DEF ListInv
    <3> QED
        BY <1>1, <1>5, <1>7, <3>1
  <2>2. CASE screen = "closed"
    <3>1. selectIndex = 0
        BY <2>2 DEF ListInv
    <3> QED
        BY <1>5, <3>1
  <2> QED
      BY <2>1, <2>2
<1>9. /\ fileList' = l
      /\ IF l = <<>> THEN screen' = "empty" /\ UNCHANGED shown
         ELSE IF selectIndex < Len(l) THEN screen' = "list" /\ Show(Selected(l, selectIndex))
         ELSE screen' = "crashed" /\ UNCHANGED shown
    BY DEF getFileList
<1> HIDE DEF l
<1>10. ListInv'
    BY <1>1, <1>2, <1>5, <1>6, <1>8, <1>9 DEF ListInv
<1>11. selectIndex < Len(l) => Selected(l, selectIndex) \in 1 .. made
    BY <1>1, <1>5 DEF Selected
<1> QED
    BY <1>5, <1>9, <1>10, <1>11

-----------------------------------------------------------------------------
(* Steps *)

LEMMA OpenKeeps == IInv /\ Open => IInv'
<1> SUFFICES ASSUME IInv, Open PROVE IInv'
    OBVIOUS
<1>1. TypeOK /\ ListInv /\ SeenInv
    BY DEF IInv
<1>2. /\ screen = "closed" /\ getFileList
      /\ UNCHANGED <<kind, files, selectIndex, dialog, promised, video>>
    BY DEF Open
<1>3. /\ ListInv'
      /\ screen' \in {"list", "empty", "crashed"} /\ fileList' \in Seq(1 .. made)
      /\ screen' = "list" => /\ Selected(fileList', selectIndex) \in 1 .. made
                             /\ Show(Selected(fileList', selectIndex))
      /\ screen' # "list" => UNCHANGED shown
    BY <1>1, <1>2, Refill
<1>4. UNCHANGED <<disk, made, trimmed, videoView, timers, timer, lost>>
    BY <1>2 DEF files, video
<1>5. kind = "video" => compress = <<>>
    BY <1>1 DEF SeenInv
<1>6. /\ imageView' \in 0 .. made /\ compress' \in Seq(1 .. made) /\ missed' = missed
      /\ kind = "video" => compress' = <<>>
      /\ screen' = "list" =>
             IF compress' = <<>> THEN imageView' \in {0, Selected(fileList', selectIndex)}
             ELSE Last(compress') = Selected(fileList', selectIndex)
  <2>1. CASE screen' = "list"
    <3>1. PICK f \in 1 .. made : f = Selected(fileList', selectIndex) /\ Show(f)
        BY <1>3, <2>1
    <3> QED
        BY <1>1, <1>5, <3>1, ShowMoves
  <2>2. CASE screen' # "list"
      BY <1>1, <1>3, <1>5, <2>2 DEF shown, TypeOK
  <2> QED
      BY <2>1, <2>2
<1>7. TypeOK'
    BY <1>1, <1>2, <1>3, <1>4, <1>6 DEF TypeOK
<1>8. ~dialog
    BY <1>1, <1>2 DEF SeenInv
<1>9. SeenInv'
    BY <1>2, <1>3, <1>6, <1>8 DEF SeenInv, Sel, Selected
<1> QED
    BY <1>3, <1>7, <1>9 DEF IInv

LEMMA RefreshKeeps == IInv /\ Refresh => IInv'
<1> SUFFICES ASSUME IInv, Refresh PROVE IInv'
    OBVIOUS
<1>1. TypeOK /\ ListInv /\ SeenInv
    BY DEF IInv
<1>2. /\ screen = "list" /\ getFileList /\ promised' = 0
      /\ videoView' \in {videoView, "plays"}
      /\ UNCHANGED <<kind, files, selectIndex, dialog, timers, timer, lost>>
    BY DEF Refresh
<1>3. /\ ListInv'
      /\ screen' \in {"list", "empty", "crashed"} /\ fileList' \in Seq(1 .. made)
      /\ screen' = "list" => /\ Selected(fileList', selectIndex) \in 1 .. made
                             /\ Show(Selected(fileList', selectIndex))
      /\ screen' # "list" => UNCHANGED shown
    BY <1>1, <1>2, Refill
<1>4. UNCHANGED <<disk, made, trimmed, timers, timer, lost>>
    BY <1>2 DEF files
<1>5. kind = "video" => compress = <<>>
    BY <1>1 DEF SeenInv
<1>6. /\ imageView' \in 0 .. made /\ compress' \in Seq(1 .. made) /\ missed' = missed
      /\ kind = "video" => compress' = <<>>
      /\ screen' = "list" =>
             IF compress' = <<>> THEN imageView' \in {0, Selected(fileList', selectIndex)}
             ELSE Last(compress') = Selected(fileList', selectIndex)
  <2>1. CASE screen' = "list"
    <3>1. PICK f \in 1 .. made : f = Selected(fileList', selectIndex) /\ Show(f)
        BY <1>3, <2>1
    <3> QED
        BY <1>1, <1>5, <3>1, ShowMoves
  <2>2. CASE screen' # "list"
      BY <1>1, <1>3, <1>5, <2>2 DEF shown, TypeOK
  <2> QED
      BY <2>1, <2>2
<1>7. TypeOK'
  <2>1. promised' \in 0 .. made
      BY <1>1, <1>2, GalleryAssumption DEF TypeOK
  <2> QED
      BY <1>1, <1>2, <1>3, <1>4, <1>6, <2>1 DEF TypeOK
<1>8. SeenInv'
    BY <1>2, <1>3, <1>6 DEF SeenInv, Sel, Selected
<1> QED
    BY <1>3, <1>7, <1>8 DEF IInv

LEMMA SelectKeeps == ASSUME NEW i \in 0 .. MaxFiles PROVE IInv /\ backPosition(i) => IInv'
<1> SUFFICES ASSUME IInv, backPosition(i) PROVE IInv'
    OBVIOUS
<1>1. TypeOK /\ ListInv /\ SeenInv
    BY DEF IInv
<1>2. /\ screen = "list" /\ ~dialog /\ i < Len(fileList) /\ selectIndex' = i
      /\ Show(Selected(fileList, i)) /\ videoView' = "gone" /\ timers' = timers \ {timer}
      /\ UNCHANGED <<kind, disk, made, trimmed, screen, fileList, dialog, promised, timer, lost>>
    BY DEF backPosition, files
<1>3. fileList \in Seq(1 .. made) /\ i \in Nat
    BY <1>1 DEF TypeOK
<1>4. Selected(fileList, i) \in 1 .. made
    BY <1>2, <1>3, SelectedIn
<1>5. kind = "video" => compress = <<>>
    BY <1>1 DEF SeenInv
<1>6. /\ imageView' \in 0 .. made /\ compress' \in Seq(1 .. made) /\ missed' = missed
      /\ kind = "video" => compress' = <<>>
      /\ IF compress' = <<>> THEN imageView' \in {0, Selected(fileList, i)}
         ELSE Last(compress') = Selected(fileList, i)
    BY <1>1, <1>2, <1>4, <1>5, ShowMoves
<1>7. TypeOK'
    BY <1>1, <1>2, <1>6 DEF TypeOK
<1>8. ListInv'
    BY <1>1, <1>2 DEF ListInv
<1>9. SeenInv'
    BY <1>2, <1>6 DEF SeenInv, Sel
<1> QED
    BY <1>7, <1>8, <1>9 DEF IInv

LEMMA RemoveKeeps == IInv /\ btnRemoveSure => IInv'
<1> SUFFICES ASSUME IInv, btnRemoveSure PROVE IInv'
    OBVIOUS
<1>1. TypeOK /\ ListInv /\ SeenInv
    BY DEF IInv
<1>2. /\ dialog /\ screen = "list" /\ dialog' = FALSE /\ promised' = 0
      /\ disk' \in {disk, disk \ {Selected(fileList, selectIndex)}}
      /\ fileList' = RemoveAt(fileList, selectIndex + 1)
      /\ UNCHANGED <<kind, made, trimmed, videoView, timers, timer, lost>>
    BY DEF btnRemoveSure, video
<1>3. fileList \in Seq(1 .. made) /\ selectIndex \in Nat /\ selectIndex < Len(fileList)
    BY <1>1, <1>2, GalleryAssumption DEF TypeOK, ListInv
<1>4. PICK k \in 1 .. Len(fileList) : k = selectIndex + 1
    BY <1>3
<1>5. /\ fileList' \in Seq(1 .. made) /\ Len(fileList') = Len(fileList) - 1
      /\ \A j \in 1 .. Len(fileList) - 1 :
             fileList'[j] = IF j < k THEN fileList[j] ELSE fileList[j + 1]
    BY <1>2, <1>3, <1>4, Removal
<1>6. /\ \A m, n \in 1 .. Len(fileList) : fileList[m] = fileList[n] => m = n
      /\ ~trimmed => \A m \in 1 .. Len(fileList) : fileList[m] \in disk
    BY <1>1, <1>3 DEF ListInv
<1>7. \A m, n \in DOMAIN fileList' : fileList'[m] = fileList'[n] => m = n
    BY <1>3, <1>4, <1>5, <1>6
<1>8. ASSUME ~trimmed', NEW m \in DOMAIN fileList' PROVE fileList'[m] \in disk'
  <2>1. Selected(fileList, selectIndex) = fileList[k] /\ ~trimmed
      BY <1>2, <1>4, <1>8 DEF Selected
  <2>2. PICK n \in 1 .. Len(fileList) : fileList'[m] = fileList[n] /\ n # k
    <3>1. m \in 1 .. Len(fileList) - 1 /\ Len(fileList) \in Nat
        BY <1>3, <1>5
    <3>2. fileList'[m] = IF m < k THEN fileList[m] ELSE fileList[m + 1]
        BY <1>5, <3>1
    <3>3. /\ m < k => m \in 1 .. Len(fileList) /\ m # k
          /\ ~(m < k) => m + 1 \in 1 .. Len(fileList) /\ m + 1 # k
        BY <3>1
    <3> QED
        BY <3>2, <3>3
  <2>3. fileList[n] \in disk /\ fileList[n] # fileList[k]
      BY <1>6, <2>1, <2>2
  <2> QED
      BY <1>2, <2>1, <2>2, <2>3
<1>9. kind = "video" => compress = <<>>
    BY <1>1 DEF SeenInv
<1>10. disk' \subseteq 1 .. made /\ promised' \in 0 .. made
  <2>1. 0 \in 0 .. made
      BY <1>1, GalleryAssumption DEF TypeOK
  <2> QED
      BY <1>1, <1>2, <2>1 DEF TypeOK
<1>11. CASE selectIndex = 0 /\ Len(fileList) = 1 /\ screen' = "empty" /\ UNCHANGED <<selectIndex, shown>>
  <2>1. TypeOK'
    <3>1. UNCHANGED <<selectIndex, imageView, compress, missed>>
        BY <1>11 DEF shown
    <3> QED
        BY <1>1, <1>2, <1>5, <1>10, <1>11, <3>1 DEF TypeOK
  <2>2. ListInv'
      BY <1>1, <1>2, <1>7, <1>8, <1>11 DEF ListInv
  <2>3. SeenInv'
      BY <1>2, <1>9, <1>11 DEF SeenInv, shown
  <2> QED
      BY <2>1, <2>2, <2>3 DEF IInv
<1>12. ASSUME NEW i \in Nat, selectIndex' = i, i <= selectIndex, i < Len(fileList'),
              Show(Selected(fileList', i)), UNCHANGED screen
       PROVE  IInv'
  <2>1. Selected(fileList', i) \in 1 .. made
      BY <1>5, <1>12, SelectedIn
  <2>2. /\ imageView' \in 0 .. made /\ compress' \in Seq(1 .. made) /\ missed' = missed
        /\ kind = "video" => compress' = <<>>
        /\ IF compress' = <<>> THEN imageView' \in {0, Selected(fileList', i)}
           ELSE Last(compress') = Selected(fileList', i)
    <3>1. PICK f \in 1 .. made : f = Selected(fileList', i) /\ Show(f)
        BY <1>12, <2>1
    <3> QED
        BY <1>1, <1>9, <3>1, ShowMoves
  <2>3. TypeOK'
    <3>1. selectIndex' \in 0 .. MaxFiles
        BY <1>1, <1>3, <1>12, GalleryAssumption DEF TypeOK
    <3> QED
        BY <1>1, <1>2, <1>5, <1>10, <1>12, <2>2, <3>1 DEF TypeOK
  <2>4. ListInv'
      BY <1>2, <1>7, <1>8, <1>12 DEF ListInv
  <2>5. SeenInv'
      BY <1>2, <1>12, <2>2 DEF SeenInv, Sel, Selected
  <2> QED
      BY <2>3, <2>4, <2>5 DEF IInv
<1>13. CASE /\ selectIndex = 0 /\ Len(fileList) > 1
            /\ Show(Selected(fileList', 0)) /\ UNCHANGED <<screen, selectIndex>>
    BY <1>3, <1>5, <1>12, <1>13
<1>14. CASE /\ selectIndex > 0 /\ selectIndex' = selectIndex - 1
            /\ Show(Selected(fileList', selectIndex - 1)) /\ UNCHANGED screen
  <2>1. PICK i \in Nat : i = selectIndex - 1
      BY <1>3, <1>14
  <2> QED
      BY <1>3, <1>5, <1>12, <1>14, <2>1
<1> QED
    BY <1>11, <1>13, <1>14 DEF btnRemoveSure

\* A picture is done or failed.
LEMMA ResultKeeps == IInv /\ (onSuccess \/ onCompressError) => IInv'
<1> SUFFICES ASSUME IInv, onSuccess \/ onCompressError PROVE IInv'
    OBVIOUS
<1>1. TypeOK /\ ListInv /\ SeenInv
    BY DEF IInv
<1>2. /\ compress # <<>> /\ compress' = Tail(compress)
      /\ \/ imageView' \in {0, Head(compress)} /\ missed' = FALSE
         \/ UNCHANGED imageView /\ missed' = TRUE
      /\ UNCHANGED <<kind, disk, made, trimmed, screen, fileList, selectIndex, dialog, promised>>
      /\ UNCHANGED <<videoView, timers, timer, lost>>
    BY DEF onSuccess, onCompressError, files, list, video
<1>3. compress \in Seq(1 .. made) /\ made \in Nat /\ imageView \in 0 .. made
    BY <1>1, GalleryAssumption DEF TypeOK
<1>4. /\ Tail(compress) \in Seq(1 .. made) /\ Head(compress) \in 1 .. made
      /\ Tail(compress) = <<>> => Head(compress) = Last(compress)
      /\ Tail(compress) # <<>> => Last(Tail(compress)) = Last(compress)
    BY <1>2, <1>3, OldestDone
<1>5. imageView' \in 0 .. made /\ missed' \in BOOLEAN
  <2>1. 0 \in 0 .. made /\ Head(compress) \in 0 .. made
      BY <1>3, <1>4
  <2>2. imageView' \in {0, Head(compress), imageView}
      BY <1>2
  <2>3. missed' = FALSE \/ missed' = TRUE
      BY <1>2
  <2> QED
      BY <1>3, <2>1, <2>2, <2>3
<1>6. TypeOK'
    BY <1>1, <1>2, <1>4, <1>5 DEF TypeOK
<1>7. ListInv'
    BY <1>1, <1>2 DEF ListInv
<1>8. Sel' = Sel
    BY <1>2 DEF Sel
<1>9. screen = "list" => Last(compress) = Sel /\ ~(dialog /\ promised # 0)
    BY <1>1, <1>2 DEF SeenInv
<1>10. screen = "list" =>
           IF compress' = <<>> THEN missed' \/ imageView' \in {0, Sel} ELSE Last(compress') = Sel
    BY <1>2, <1>4, <1>9
<1>11. SeenInv'
  <2>1. kind = "video" => compress' = <<>>
      BY <1>1, <1>2 DEF SeenInv
  <2>2. screen = "closed" => ~dialog
      BY <1>1 DEF SeenInv
  <2> QED
      BY <1>2, <1>8, <1>9, <1>10, <2>1, <2>2 DEF SeenInv
<1> QED
    BY <1>6, <1>7, <1>11 DEF IInv

\* The directory changes under the activity.
LEMMA DiskKeeps == IInv /\ (Save \/ \E f \in disk : Trim(f)) => IInv'
<1> SUFFICES ASSUME IInv, Save \/ \E f \in disk : Trim(f) PROVE IInv'
    OBVIOUS
<1>1. TypeOK /\ ListInv /\ SeenInv
    BY DEF IInv
<1>2. /\ UNCHANGED <<kind, screen, fileList, selectIndex, imageView, compress, missed, dialog, promised>>
      /\ UNCHANGED <<videoView, timers, timer, lost>>
    BY DEF Save, Trim, list, shown, video
<1>3. /\ made' \in 0 .. MaxFiles /\ made <= made' /\ disk' \subseteq 1 .. made'
      /\ trimmed' \in BOOLEAN /\ (~trimmed' => ~trimmed /\ disk \subseteq disk')
      /\ (trimmed => trimmed')
  <2>1. /\ made \in 0 .. MaxFiles /\ MaxFiles \in Nat /\ disk \subseteq 1 .. made
        /\ trimmed \in BOOLEAN
      BY <1>1, GalleryAssumption DEF TypeOK
  <2>2. CASE Save
    <3>1. made < MaxFiles /\ made' = made + 1 /\ disk' = disk \cup {made + 1} /\ trimmed' = trimmed
        BY <2>2 DEF Save
    <3>2. 1 .. made \subseteq 1 .. made' /\ made + 1 \in 1 .. made'
        BY <2>1, <3>1
    <3> QED
        BY <2>1, <3>1, <3>2
  <2>3. ASSUME NEW f \in disk, Trim(f)
        PROVE  made' = made /\ disk' \subseteq disk /\ trimmed' = TRUE
      BY <2>3 DEF Trim
  <2>4. CASE \E f \in disk : Trim(f)
    <3>1. made' = made /\ disk' \subseteq disk /\ trimmed' = TRUE
        BY <2>3, <2>4
    <3>2. made <= made' /\ made' \in 0 .. MaxFiles /\ disk' \subseteq 1 .. made'
        BY <2>1, <3>1
    <3> QED
        BY <3>1, <3>2
  <2> QED
      BY <2>2, <2>4
<1>4. made \in Nat /\ made' \in Nat /\ 1 .. made \subseteq 1 .. made' /\ 0 .. made \subseteq 0 .. made'
    BY <1>1, <1>3, GalleryAssumption DEF TypeOK
<1>5. \A q \in Seq(1 .. made) : q \in Seq(1 .. made')
    BY <1>4, SeqOfSubset
<1>6. TypeOK'
    BY <1>1, <1>2, <1>3, <1>4, <1>5 DEF TypeOK
<1>7. ListInv'
    BY <1>1, <1>2, <1>3 DEF ListInv
<1>8. SeenInv'
    BY <1>1, <1>2, <1>3 DEF SeenInv, Sel, Selected
<1> QED
    BY <1>6, <1>7, <1>8 DEF IInv

LEMMA BackKeeps == IInv /\ Back => IInv'
<1> SUFFICES ASSUME IInv, Back PROVE IInv'
    OBVIOUS
<1>1. TypeOK /\ ListInv /\ SeenInv
    BY DEF IInv
<1>2. /\ ~dialog /\ screen' = "closed" /\ fileList' = <<>> /\ selectIndex' = 0
      /\ imageView' = 0 /\ compress' = <<>> /\ missed' = FALSE
      /\ videoView' = "gone" /\ timer' = 0 /\ lost' = timers
      /\ UNCHANGED <<kind, disk, made, trimmed, dialog, promised, timers>>
    BY DEF Back, files
<1>3. 0 \in 0 .. made /\ 0 \in 0 .. MaxFiles /\ 0 \in 0 .. MaxTimers /\ <<>> \in Seq(1 .. made)
    BY <1>1, GalleryAssumption DEF TypeOK
<1>4. TypeOK'
    BY <1>1, <1>2, <1>3 DEF TypeOK
<1>5. ListInv'
    BY <1>1, <1>2 DEF ListInv
<1>6. SeenInv'
    BY <1>2 DEF SeenInv
<1> QED
    BY <1>4, <1>5, <1>6 DEF IInv

LEMMA DialogKeeps == IInv /\ (LongClick \/ btnRemoveCancel) => IInv'
<1> SUFFICES ASSUME IInv, LongClick \/ btnRemoveCancel PROVE IInv'
    OBVIOUS
<1>1. TypeOK /\ ListInv /\ SeenInv
    BY DEF IInv
<1>2. /\ UNCHANGED <<kind, disk, made, trimmed, screen, fileList, selectIndex, imageView, compress, missed>>
      /\ UNCHANGED <<videoView, timers, timer, lost>>
    BY DEF LongClick, btnRemoveCancel, files, list, shown, video
<1>3. /\ screen = "list" /\ dialog' \in BOOLEAN
      /\ promised' = (IF dialog' /\ compress = <<>> THEN imageView ELSE 0)
    BY DEF LongClick, btnRemoveCancel
<1>4. promised' \in 0 .. made
    BY <1>1, <1>3, GalleryAssumption DEF TypeOK
<1>5. TypeOK'
    BY <1>1, <1>2, <1>3, <1>4 DEF TypeOK
<1>6. ListInv'
    BY <1>1, <1>2 DEF ListInv
<1>7. SeenInv'
    BY <1>1, <1>2, <1>3 DEF SeenInv, Sel
<1> QED
    BY <1>5, <1>6, <1>7 DEF IInv

LEMMA PlayKeeps == IInv /\ (ivStart \/ onCompletion \/ onError) => IInv'
<1> SUFFICES ASSUME IInv, ivStart \/ onCompletion \/ onError PROVE IInv'
    OBVIOUS
<1>1. TypeOK /\ ListInv /\ SeenInv
    BY DEF IInv
<1>2. UNCHANGED <<kind, disk, made, trimmed, screen, fileList, selectIndex, imageView, compress,
                  missed, dialog, promised>>
    BY DEF ivStart, onCompletion, onError, files, list, shown
<1>3. /\ timer' \in 0 .. MaxTimers /\ timers' \subseteq 1 .. MaxTimers /\ lost' \subseteq 1 .. MaxTimers
      /\ videoView' \in {"gone", "plays", "failed"}
  <2>1. timer \in 0 .. MaxTimers /\ timers \subseteq 1 .. MaxTimers /\ lost \subseteq 1 .. MaxTimers
      BY <1>1 DEF TypeOK
  <2>2. CASE ivStart
      BY <2>1, <2>2 DEF ivStart
  <2>3. CASE onError
      BY <2>1, <2>3 DEF onError
  <2>4. CASE onCompletion
      BY <2>1, <2>4 DEF onCompletion
  <2> QED
      BY <2>2, <2>3, <2>4
<1>4. TypeOK'
    BY <1>1, <1>2, <1>3 DEF TypeOK
<1>5. ListInv'
    BY <1>1, <1>2 DEF ListInv
<1>6. SeenInv'
    BY <1>1, <1>2 DEF SeenInv, Sel
<1> QED
    BY <1>4, <1>5, <1>6 DEF IInv

LEMMA InitInv == Init => IInv
<1> SUFFICES ASSUME Init PROVE IInv
    OBVIOUS
<1>1. TypeOK
  <2>1. made \in 0 .. MaxFiles /\ 0 \in 0 .. made /\ 0 \in 0 .. MaxFiles /\ 0 \in 0 .. MaxTimers
      BY GalleryAssumption DEF Init
  <2>2. <<>> \in Seq(1 .. made)
      OBVIOUS
  <2> QED
      BY <2>1, <2>2 DEF Init, TypeOK
<1>2. ListInv
    BY DEF Init, ListInv
<1>3. SeenInv
    BY DEF Init, SeenInv
<1> QED
    BY <1>1, <1>2, <1>3 DEF IInv

LEMMA Inductive == Spec => []IInv
<1>1. IInv /\ [Next]_vars => IInv'
  <2> SUFFICES ASSUME IInv, [Next]_vars PROVE IInv'
      OBVIOUS
  <2>1. CASE UNCHANGED vars
    <3>1. /\ UNCHANGED <<kind, disk, made, trimmed, screen, fileList, selectIndex, imageView>>
          /\ UNCHANGED <<compress, missed, dialog, promised, videoView, timers, timer, lost>>
        BY <2>1 DEF vars, files, list, shown, video
    <3> QED
        BY <3>1 DEF IInv, TypeOK, ListInv, SeenInv, Sel
  <2> QED
      BY <2>1, DiskKeeps, OpenKeeps, BackKeeps, RefreshKeeps, SelectKeeps, DialogKeeps,
         RemoveKeeps, ResultKeeps, PlayKeeps DEF Next
<1> QED
    BY <1>1, InitInv, PTL DEF Spec

LEMMA TimersKept == Spec => []TimerInv
<1>1. Init => TimerInv
    BY DEF Init, TimerInv
<1>2. TimerInv /\ [Next]_vars => TimerInv'
  <2> SUFFICES ASSUME TimerInv, [Next]_vars PROVE TimerInv'
      OBVIOUS
  <2>1. CASE UNCHANGED <<videoView, timers, timer, lost>>
      BY <2>1 DEF TimerInv
  <2>2. CASE Back
      BY <2>2 DEF Back, TimerInv
  <2>3. CASE \E i \in 0 .. MaxFiles : backPosition(i)
      BY <2>3 DEF backPosition, TimerInv
  <2>4. CASE ivStart
      BY <2>4 DEF ivStart, TimerInv
  <2>5. CASE onCompletion \/ onError
      BY <2>5 DEF onCompletion, onError, TimerInv
  <2>7. CASE Refresh
      BY <2>7 DEF Refresh, TimerInv
  <2>6. CASE \/ Save \/ (\E f \in disk : Trim(f)) \/ Open \/ LongClick
             \/ btnRemoveCancel \/ btnRemoveSure \/ onSuccess \/ onCompressError
             \/ UNCHANGED vars
      BY <2>1, <2>6 DEF Save, Trim, Open, LongClick, btnRemoveCancel, btnRemoveSure,
                        onSuccess, onCompressError, vars, video
  <2> QED
      BY <2>2, <2>3, <2>4, <2>5, <2>6, <2>7 DEF Next
<1> QED
    BY <1>1, <1>2, PTL DEF Spec

-----------------------------------------------------------------------------
(* Theorems *)

\* Every variable of the two activities has its type.
THEOREM TypeCorrect == Spec => []TypeOK
<1>1. IInv => TypeOK
    BY DEF IInv
<1> QED
    BY <1>1, Inductive, PTL

\* No order of saving, selecting, removing and refreshing brings the list out of
\* its bounds; only files that the system took can.
THEOREM StaysInBounds == Spec => []CrashNeedsTrim
<1>1. IInv => CrashNeedsTrim
    BY DEF IInv, ListInv, CrashNeedsTrim
<1> QED
    BY <1>1, Inductive, PTL

\* What was in the view when the dialog opened is the file that goes from the list,
\* and no other goes from the disk, if the last picture got to the view.
THEOREM RemovesShown == Spec => RemovesWhatIsSeen
<1>1. ASSUME IInv, btnRemoveSure, promised # 0, ~missed
      PROVE  disk \ disk' \subseteq {promised} /\ promised \notin Range(fileList')
  <2>1. /\ promised = Selected(fileList, selectIndex)
        /\ disk' \in {disk, disk \ {promised}} /\ fileList' = RemoveAt(fileList, selectIndex + 1)
      BY <1>1 DEF IInv, SeenInv, btnRemoveSure, Sel
  <2>2. fileList \in Seq(1 .. made) /\ selectIndex \in Nat /\ selectIndex < Len(fileList)
      BY <1>1, GalleryAssumption DEF IInv, TypeOK, ListInv, btnRemoveSure
  <2>3. PICK k \in 1 .. Len(fileList) : k = selectIndex + 1
      BY <2>2
  <2>4. /\ fileList' \in Seq(1 .. made) /\ Len(fileList') = Len(fileList) - 1
        /\ \A j \in 1 .. Len(fileList) - 1 :
               fileList'[j] = IF j < k THEN fileList[j] ELSE fileList[j + 1]
      BY <2>1, <2>2, <2>3, Removal
  <2>5. promised = fileList[k] /\ \A m, n \in 1 .. Len(fileList) : fileList[m] = fileList[n] => m = n
      BY <1>1, <2>1, <2>2, <2>3 DEF IInv, ListInv, Selected
  <2>6. \A j \in DOMAIN fileList' : fileList'[j] # promised
      BY <2>2, <2>4, <2>5
  <2> QED
      BY <2>1, <2>6 DEF Range
<1>2. IInv /\ [Next]_vars =>
          [btnRemoveSure /\ promised # 0 /\ ~missed
             => disk \ disk' \subseteq {promised} /\ promised \notin Range(fileList')]_vars
    BY <1>1
<1> QED
    BY <1>2, Inductive, PTL DEF Spec, RemovesWhatIsSeen

\* A countdown that nothing lost ends with the video it counts for.
THEOREM CountdownEnds == Spec => []CountdownStops
<1>1. TimerInv => CountdownStops
    BY DEF TimerInv, CountdownStops
<1> QED
    BY <1>1, TimersKept, PTL
=============================================================================
