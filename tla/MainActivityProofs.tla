-------------------------- MODULE MainActivityProofs --------------------------
(***************************************************************************)
(* Theorems about the two halves of what MainActivity does with the link:  *)
(* the framing that turns chunks into messages (MessageStream), for any    *)
(* messages the robot can send and any bounds, and the conversation those  *)
(* messages make up (Session), for any groups, values and bounds.          *)
(***************************************************************************)
EXTENDS MessageStream, Session, Integers, SequenceTheorems, WellFoundedInduction, TLAPS

-----------------------------------------------------------------------------
(* The framing *)

Cell == [byte : 0..255, conn : Nat, frame : Nat, at : Nat]

StreamTypes ==
  /\ sent \in Seq(Seq(Messages)) /\ Conn \in Nat /\ Conn # 0
  /\ wire \in Seq(Cell) /\ firstData \in Seq(Cell) /\ accepted \in Seq(Seq(Cell))

\* Cells w of connection c are what is left of its frames fs: cells of one frame
\* stand as far apart as in it, and a frame goes on until its end.
Fits(w, c, fs) ==
  /\ \A i \in 1..Len(w) :
       /\ w[i].frame \in 1..Len(fs) /\ w[i].at \in 1..Len(fs[w[i].frame])
       /\ w[i] = CellsOf(fs[w[i].frame], c, w[i].frame)[w[i].at]
  /\ \A i, j \in 1..Len(w) : w[i].frame = w[j].frame => w[i].at + j = w[j].at + i
  /\ \A i \in 1..Len(w) : w[i].at < Len(fs[w[i].frame]) =>
       i < Len(w) /\ w[i + 1].frame = w[i].frame
  /\ \A i \in 1..Len(w) : i < Len(w) /\ w[i + 1].at > 1 => w[i].frame = w[i + 1].frame

WireInv == Fits(wire, Conn, sent[Conn])

\* Of the frame that is being read firstData holds what has been read, unless
\* the frame was badly cut.
PartInv ==
  wire # <<>> /\ wire[1].at > 1 /\ <<Conn, wire[1].frame>> \notin spoilt =>
    firstData = SubSeq(Cells(Conn, wire[1].frame), 1, wire[1].at - 1)

\* firstData is of one connection, and as long as that is an earlier one the next
\* byte read starts a frame.
OriginInv ==
  /\ NoMixedConnections
  /\ firstData # <<>> /\ wire # <<>> /\ firstData[1].conn # Conn => wire[1].at = 1

StreamInv == StreamTypes /\ StreamTypeOK /\ WireInv /\ PartInv /\ OriginInv /\ CleanFramesArrive

\* Induction, as a fact about sets: the smallest number that is left out has
\* its predecessor in.
LEMMA Counting ==
  ASSUME NEW n \in Nat, NEW S, n > 0 => 1 \in S,
         \A i \in 1..n : i \in S /\ i < n => i + 1 \in S
  PROVE  1..n \subseteq S
<1> DEFINE T == (1..n) \ S
           R == {ss \in Nat \X Nat : ss[1] < ss[2]}
<1> SUFFICES ASSUME T # {} PROVE FALSE
  OBVIOUS
<1>1. IsWellFoundedOn(R, Nat)
  BY NatLessThanWellFounded DEF OpToRel
<1>2. \E x \in T : \A y \in T : <<y, x>> \notin R
  <2>1. T \subseteq Nat
    OBVIOUS
  <2> HIDE DEF T, R
  <2> QED BY <1>1, <2>1, WFMin
<1>3. PICK x \in T : \A y \in T : <<y, x>> \notin R
  BY <1>2
<1>4. \A y \in T : x <= y
  <2>1. \A y \in T : y \in Nat /\ x \in Nat
    OBVIOUS
  <2>2. \A y \in T : ~(y < x)
    BY <1>3, <2>1
  <2> QED BY <2>1, <2>2
<1>5. x # 1 /\ x \in 1..n
  OBVIOUS
<1>6. x - 1 \in 1..n /\ x - 1 < n /\ (x - 1) + 1 = x
  BY <1>5
<1>7. x - 1 \in S
  BY <1>4, <1>6
<1> QED BY <1>6, <1>7

LEMMA MessageShape ==
  ASSUME NEW m \in Messages
  PROVE  /\ m \in Seq(0..255) /\ Len(m) \in Nat /\ Len(m) > 2
         /\ m[1] = 177 /\ m[Len(m) - 1] = 13 /\ m[Len(m)] = 10
         /\ analysisAccepts(m)
<1>1. m \in Seq(0..255) /\ analysisAccepts(m) /\ endsWith0D0A(m)
  BY MessageAssumption
<1>2. Len(m) \in Nat /\ m[1] = 177 /\ m[2] \in 1..4 /\ Len(m) = MessageLength[m[2]]
  BY <1>1 DEF analysisAccepts, HasKindAndLength
<1>3. Len(m) > 2
  BY <1>2 DEF MessageLength
<1> QED BY <1>1, <1>2, <1>3 DEF endsWith0D0A

LEMMA CellsShape ==
  ASSUME NEW m \in Messages, NEW c \in Nat, NEW k \in Nat
  PROVE  /\ CellsOf(m, c, k) \in Seq(Cell) /\ Len(CellsOf(m, c, k)) = Len(m)
         /\ \A i \in 1..Len(m) : CellsOf(m, c, k)[i] = [byte |-> m[i], conn |-> c, frame |-> k, at |-> i]
         /\ \A i \in 1..Len(m) : /\ CellsOf(m, c, k)[i].byte = m[i] /\ CellsOf(m, c, k)[i].conn = c
                                 /\ CellsOf(m, c, k)[i].frame = k /\ CellsOf(m, c, k)[i].at = i
         /\ Bytes(CellsOf(m, c, k)) = m
<1>1. m \in Seq(0..255) /\ Len(m) \in Nat /\ DOMAIN m = 1..Len(m)
  BY MessageShape
<1> DEFINE q == CellsOf(m, c, k)
<1>2. \A i \in 1..Len(m) : [byte |-> m[i], conn |-> c, frame |-> k, at |-> i] \in Cell
  BY <1>1 DEF Cell
<1>3. q = [i \in 1..Len(m) |-> [byte |-> m[i], conn |-> c, frame |-> k, at |-> i]]
  BY <1>1 DEF CellsOf
<1>4. q \in Seq(Cell) /\ Len(q) = Len(m) /\ DOMAIN q = 1..Len(m)
  BY <1>1, <1>2, <1>3
<1>5. \A i \in 1..Len(m) : q[i].byte = m[i] /\ q[i].conn = c /\ q[i].frame = k /\ q[i].at = i
  BY <1>3
<1>6. Bytes(q) = m
  <2> HIDE DEF q
  <2>1. Bytes(q) = [i \in 1..Len(m) |-> q[i].byte]
    BY <1>4 DEF Bytes
  <2>2. m = [i \in 1..Len(m) |-> m[i]]
    BY <1>1
  <2> QED BY <1>5, <2>1, <2>2
<1> QED BY <1>3, <1>4, <1>5, <1>6

LEMMA BytesShape ==
  ASSUME NEW s \in Seq(Cell)
  PROVE  /\ Bytes(s) \in Seq(0..255) /\ Len(Bytes(s)) = Len(s) /\ Len(s) \in Nat
         /\ \A i \in 1..Len(s) : Bytes(s)[i] = s[i].byte
<1>1. Len(s) \in Nat /\ DOMAIN s = 1..Len(s) /\ \A i \in 1..Len(s) : s[i] \in Cell
  OBVIOUS
<1>2. Bytes(s) = [i \in 1..Len(s) |-> s[i].byte]
  BY <1>1 DEF Bytes
<1>3. \A i \in 1..Len(s) : s[i].byte \in 0..255
  BY <1>1 DEF Cell
<1> QED BY <1>1, <1>2, <1>3

LEMMA FramesAre ==
  \A c, k : <<c, k>> \in Frames <=> c \in 1..Conn /\ k \in DOMAIN sent[c]
BY DEF Frames

\* A message as it was sent, of whichever connection.
LEMMA SentShape ==
  ASSUME StreamTypes, NEW c \in 1..Conn, NEW k \in DOMAIN sent[c]
  PROVE  /\ sent[c][k] \in Messages /\ k \in Nat /\ c \in Nat
         /\ Cells(c, k) = CellsOf(sent[c][k], c, k)
<1>1. sent[c] \in Seq(Messages)
  BY DEF StreamTypes, Conn
<1>2. sent[c][k] \in Messages /\ k \in Nat
  BY <1>1
<1> QED BY <1>2 DEF Cells, StreamTypes

\* The two ends of a chunk.
LEMMA Cut ==
  ASSUME NEW w \in Seq(Cell), NEW n \in 1..Len(w)
  PROVE  /\ SubSeq(w, 1, n) \in Seq(Cell) /\ Len(SubSeq(w, 1, n)) = n
         /\ \A i \in 1..n : SubSeq(w, 1, n)[i] = w[i]
         /\ SubSeq(w, n + 1, Len(w)) \in Seq(Cell) /\ Len(SubSeq(w, n + 1, Len(w))) = Len(w) - n
         /\ \A i \in 1..(Len(w) - n) : SubSeq(w, n + 1, Len(w))[i] = w[n + i]
<1>1. Len(w) \in Nat /\ \A i \in 1..Len(w) : w[i] \in Cell
  OBVIOUS
<1>2. /\ SubSeq(w, 1, n) \in Seq(Cell) /\ Len(SubSeq(w, 1, n)) = n
      /\ \A i \in 1..n : SubSeq(w, 1, n)[i] = w[i]
  BY <1>1, SubSeqProperties
<1>3. \A p \in Int : p = n + 1 =>
        /\ SubSeq(w, p, Len(w)) \in Seq(Cell) /\ Len(SubSeq(w, p, Len(w))) = Len(w) - n
        /\ \A i \in 1..(Len(w) - n) : SubSeq(w, p, Len(w))[i] = w[n + i]
  <2> SUFFICES ASSUME NEW p \in Int, p = n + 1
               PROVE  /\ SubSeq(w, p, Len(w)) \in Seq(Cell) /\ Len(SubSeq(w, p, Len(w))) = Len(w) - n
                      /\ \A i \in 1..(Len(w) - n) : SubSeq(w, p, Len(w))[i] = w[n + i]
    OBVIOUS
  <2>1. /\ SubSeq(w, p, Len(w)) \in Seq(Cell)
        /\ Len(SubSeq(w, p, Len(w))) = IF p <= Len(w) THEN Len(w) - p + 1 ELSE 0
        /\ \A i \in 1..(Len(w) - p + 1) : SubSeq(w, p, Len(w))[i] = w[p + i - 1]
    BY <1>1, SubSeqProperties
  <2> QED BY <1>1, <2>1
<1> QED BY <1>1, <1>2, <1>3


LEMMA CellIn ==
  ASSUME NEW w \in Seq(Cell), NEW i \in 1..Len(w)
  PROVE  w[i] \in Cell /\ w[i].byte \in 0..255 /\ w[i].conn \in Nat /\ w[i].frame \in Nat /\ w[i].at \in Nat
<1>1. w[i] \in Cell
  BY ElementOfSeq
<1> QED BY <1>1 DEF Cell

LEMMA Glued ==
  ASSUME NEW s \in Seq(Cell), NEW t \in Seq(Cell)
  PROVE  /\ s \o t \in Seq(Cell) /\ Len(s \o t) = Len(s) + Len(t) /\ Len(s) \in Nat /\ Len(t) \in Nat
         /\ \A i \in 1..(Len(s) + Len(t)) :
              (s \o t)[i] = IF i <= Len(s) THEN s[i] ELSE t[i - Len(s)]
<1>1. Len(s) \in Nat /\ Len(t) \in Nat
  OBVIOUS
<1> QED BY <1>1, ConcatProperties

LEMMA FitsRest ==
  ASSUME NEW w \in Seq(Cell), NEW c, NEW fs, Fits(w, c, fs),
         NEW n \in 1..Len(w), NEW v \in Seq(Cell), Len(v) = Len(w) - n,
         \A i \in 1..(Len(w) - n) : v[i] = w[n + i]
  PROVE  Fits(v, c, fs)
<1>1. Len(w) \in Nat /\ n \in Nat /\ n <= Len(w)
  OBVIOUS
<1>2. \A i \in 1..Len(v) : n + i \in 1..Len(w) /\ v[i] = w[n + i]
  BY <1>1
<1>3. \A i \in 1..Len(w) : w[i].at \in Nat /\ w[i] \in Cell
  BY CellIn
<1>4. \A i \in 1..Len(v) :
        /\ v[i].frame \in 1..Len(fs) /\ v[i].at \in 1..Len(fs[v[i].frame])
        /\ v[i] = CellsOf(fs[v[i].frame], c, v[i].frame)[v[i].at]
  BY <1>2 DEF Fits
<1>5. ASSUME NEW i \in 1..Len(v), NEW j \in 1..Len(v), v[i].frame = v[j].frame
      PROVE  v[i].at + j = v[j].at + i
  <2>1. w[n + i].at + (n + j) = w[n + j].at + (n + i)
    BY <1>2, <1>5 DEF Fits
  <2>2. v[i].at = w[n + i].at /\ v[j].at = w[n + j].at /\ w[n + i].at \in Nat /\ w[n + j].at \in Nat
    BY <1>2, <1>3
  <2>3. PICK a \in Nat, b \in Nat : a = w[n + i].at /\ b = w[n + j].at
    BY <2>2
  <2>4. a + (n + j) = b + (n + i) /\ v[i].at = a /\ v[j].at = b
    BY <2>1, <2>2, <2>3
  <2>5. i \in Nat /\ j \in Nat
    BY <1>1
  <2>6. a + j = b + i
    <3>1. \A x, y, z, u, o \in Int : x + (o + z) = y + (o + u) => x + z = y + u
      OBVIOUS
    <3>2. a \in Int /\ b \in Int /\ i \in Int /\ j \in Int /\ n \in Int
      BY <1>1, <2>5
    <3> QED BY ONLY <2>4, <3>1, <3>2
  <2> QED BY <2>4, <2>6
<1>6. ASSUME NEW i \in 1..Len(v), v[i].at < Len(fs[v[i].frame])
      PROVE  i < Len(v) /\ v[i + 1].frame = v[i].frame
  <2>1. PICK p \in 1..Len(w) : p = n + i
    BY <1>2
  <2>2. p < Len(w) /\ w[p + 1].frame = w[p].frame
    BY <1>2, <1>6, <2>1 DEF Fits
  <2>3. i < Len(v) /\ i + 1 \in 1..Len(v) /\ n + (i + 1) = p + 1
    BY <1>1, <2>1, <2>2
  <2>4. v[i + 1] = w[p + 1]
    <3>1. v[i + 1] = w[n + (i + 1)]
      BY <1>2, <2>3
    <3> QED BY ONLY <2>3, <3>1, Zenon
  <2> QED BY <1>2, <2>1, <2>2, <2>3, <2>4
<1>7. ASSUME NEW i \in 1..Len(v), i < Len(v), v[i + 1].at > 1
      PROVE  v[i].frame = v[i + 1].frame
  <2>1. PICK p \in 1..Len(w) : p = n + i
    BY <1>2
  <2>2. i + 1 \in 1..Len(v) /\ n + (i + 1) = p + 1 /\ p < Len(w)
    BY <1>1, <1>7, <2>1
  <2>3. v[i + 1] = w[p + 1] /\ v[i] = w[p]
    BY <1>2, <2>1, <2>2
  <2> QED BY <1>7, <2>2, <2>3 DEF Fits
<1> QED BY <1>4, <1>5, <1>6, <1>7 DEF Fits

LEMMA FitsMore ==
  ASSUME NEW w \in Seq(Cell), NEW c \in Nat, NEW fs \in Seq(Messages), Fits(w, c, fs),
         NEW m \in Messages, NEW k \in Nat, k = Len(fs) + 1
  PROVE  /\ w \o CellsOf(m, c, k) \in Seq(Cell)
         /\ Fits(w \o CellsOf(m, c, k), c, Append(fs, m))
<1> DEFINE q == CellsOf(m, c, k)
           gs == Append(fs, m)
           v == w \o q
<1>1. /\ q \in Seq(Cell) /\ Len(q) = Len(m) /\ Len(m) \in Nat /\ Len(m) > 2
      /\ \A i \in 1..Len(m) : q[i].frame = k /\ q[i].at = i
  BY CellsShape, MessageShape
<1>2. /\ Len(gs) = k /\ gs[k] = m /\ k \in 1..k /\ Len(fs) \in Nat
      /\ \A l \in 1..Len(fs) : gs[l] = fs[l] /\ l \in 1..k /\ l # k
  OBVIOUS
<1> HIDE DEF q, gs
<1>3. /\ v \in Seq(Cell) /\ Len(v) = Len(w) + Len(m) /\ Len(w) \in Nat
      /\ \A i \in 1..(Len(w) + Len(m)) : v[i] = IF i <= Len(w) THEN w[i] ELSE q[i - Len(w)]
  <2>1. q \in Seq(Cell) /\ Len(q) = Len(m)
    BY <1>1
  <2> QED BY <2>1, Glued
<1> HIDE DEF v
<1>4. ASSUME NEW i \in 1..Len(w)
      PROVE  /\ i \in 1..Len(v) /\ v[i] = w[i] /\ v[i].frame \in 1..Len(fs) /\ v[i].frame # k
             /\ v[i].frame \in 1..k
             /\ gs[v[i].frame] = fs[v[i].frame] /\ v[i].at \in Nat
  <2>1. v[i] = w[i] /\ i \in 1..Len(v)
    BY <1>1, <1>3
  <2>2. w[i].frame \in 1..Len(fs) /\ w[i].at \in Nat
    BY CellIn DEF Fits
  <2> QED BY <1>2, <2>1, <2>2
<1>5. ASSUME NEW i \in 1..Len(v), ~(i <= Len(w))
      PROVE  \E l \in 1..Len(m) :
               i = Len(w) + l /\ v[i] = q[l] /\ v[i].at = l /\ v[i].frame = k
  <2>1. PICK l \in 1..Len(m) : l = i - Len(w)
    BY <1>1, <1>3, <1>5
  <2>2. v[i] = q[l] /\ i = Len(w) + l
    BY <1>1, <1>3, <1>5, <2>1
  <2>3. q[l].at = l /\ q[l].frame = k
    BY <1>1
  <2> QED BY <2>2, <2>3
<1>6. \A i \in 1..Len(v) : i <= Len(w) => i \in 1..Len(w)
  BY <1>3
<1>7. ASSUME NEW i \in 1..Len(v)
      PROVE  /\ v[i].frame \in 1..Len(gs) /\ v[i].at \in 1..Len(gs[v[i].frame])
             /\ v[i] = CellsOf(gs[v[i].frame], c, v[i].frame)[v[i].at]
  <2>1. CASE i <= Len(w)
    <3>1. i \in 1..Len(w)
      BY <1>6, <2>1
    <3>2. /\ w[i].frame \in 1..Len(fs) /\ w[i].at \in 1..Len(fs[w[i].frame])
          /\ w[i] = CellsOf(fs[w[i].frame], c, w[i].frame)[w[i].at]
      BY <3>1 DEF Fits
    <3>3. v[i] = w[i] /\ v[i].frame \in 1..k /\ gs[v[i].frame] = fs[v[i].frame]
      BY <1>4, <3>1
    <3>4. gs[w[i].frame] = fs[w[i].frame] /\ w[i].frame \in 1..Len(gs)
      BY <1>2, <3>3
    <3> QED BY <3>2, <3>3, <3>4
  <2>2. CASE ~(i <= Len(w))
    <3>1. PICK l \in 1..Len(m) : v[i].frame = k /\ v[i].at = l /\ v[i] = q[l]
      BY <1>5, <2>2
    <3> QED BY <1>2, <3>1 DEF q
  <2> QED BY <2>1, <2>2
<1>8. ASSUME NEW i \in 1..Len(v), NEW j \in 1..Len(v), v[i].frame = v[j].frame
      PROVE  v[i].at + j = v[j].at + i
  <2>1. CASE i <= Len(w) /\ j <= Len(w)
    <3>1. i \in 1..Len(w) /\ j \in 1..Len(w)
      BY <1>6, <2>1
    <3>2. v[i] = w[i] /\ v[j] = w[j]
      BY <1>4, <3>1
    <3>3. w[i].frame = w[j].frame => w[i].at + j = w[j].at + i
      BY <3>1 DEF Fits
    <3> QED BY <1>8, <3>2, <3>3
  <2>2. CASE ~(i <= Len(w)) /\ ~(j <= Len(w))
    <3>1. PICK l \in 1..Len(m) : i = Len(w) + l /\ v[i].at = l
      BY <1>5, <2>2
    <3>2. PICK o \in 1..Len(m) : j = Len(w) + o /\ v[j].at = o
      BY <1>5, <2>2
    <3> QED BY <1>1, <1>3, <3>1, <3>2
  <2>3. \A g \in 1..Len(v) : g <= Len(w) <=> v[g].frame # k
    BY <1>4, <1>5, <1>6
  <2> QED BY <1>8, <2>1, <2>2, <2>3
<1>9. ASSUME NEW i \in 1..Len(v), v[i].at < Len(gs[v[i].frame])
      PROVE  i < Len(v) /\ v[i + 1].frame = v[i].frame
  <2>1. CASE i <= Len(w)
    <3>1. i < Len(w) /\ w[i + 1].frame = w[i].frame
      BY <1>4, <1>6, <1>9, <2>1 DEF Fits
    <3>2. i + 1 \in 1..Len(w) /\ i < Len(v)
      BY <1>1, <1>3, <3>1
    <3>3. v[i + 1] = w[i + 1] /\ v[i] = w[i]
      BY <1>4, <1>6, <2>1, <3>2
    <3> QED BY <3>1, <3>2, <3>3
  <2>2. CASE ~(i <= Len(w))
    <3>1. PICK l \in 1..Len(m) : i = Len(w) + l /\ v[i].at = l /\ v[i].frame = k
      BY <1>5, <2>2
    <3>2. l < Len(m)
      BY <1>2, <1>9, <3>1
    <3>3. PICK o \in Nat : o = i + 1
      OBVIOUS
    <3>5. o \in 1..Len(v) /\ ~(o <= Len(w)) /\ i < Len(v)
      BY <1>1, <1>3, <3>1, <3>2, <3>3
    <3>4. v[o].frame = k
      BY <1>5, <3>5
    <3> QED BY <3>1, <3>3, <3>4, <3>5
  <2> QED BY <2>1, <2>2
<1>10. ASSUME NEW i \in 1..Len(v), i < Len(v), v[i + 1].at > 1
       PROVE  v[i].frame = v[i + 1].frame
  <2>0. PICK o \in 1..Len(v) : o = i + 1
    BY <1>1, <1>3, <1>10
  <2>1. CASE o <= Len(w)
    <3>1. i \in 1..Len(w) /\ o \in 1..Len(w) /\ i < Len(w)
      BY <1>3, <2>0, <2>1
    <3>2. v[o] = w[o] /\ v[i] = w[i]
      BY <1>4, <3>1
    <3> QED BY <1>10, <2>0, <3>1, <3>2 DEF Fits
  <2>2. CASE ~(o <= Len(w))
    <3>1. PICK l \in 1..Len(m) : o = Len(w) + l /\ v[o].at = l /\ v[o].frame = k
      BY <1>5, <2>2
    <3>2. ~(i <= Len(w))
      BY <1>1, <1>3, <1>10, <2>0, <3>1
    <3>3. v[i].frame = k
      BY <1>5, <3>2
    <3> QED BY <2>0, <3>1, <3>3
  <2> QED BY <2>1, <2>2
<1>11. Fits(v, c, gs)
  BY <1>7, <1>8, <1>9, <1>10 DEF Fits
<1> QED BY <1>3, <1>11 DEF v, q, gs

\* Every cell on the wire belongs to a message sent in this connection.
LEMMA OnWire ==
  ASSUME StreamTypes, WireInv, NEW i \in 1..Len(wire)
  PROVE  /\ wire[i].conn = Conn /\ wire[i].frame \in DOMAIN sent[Conn]
         /\ sent[Conn][wire[i].frame] \in Messages
         /\ wire[i].at \in 1..Len(sent[Conn][wire[i].frame])
         /\ wire[i].byte = sent[Conn][wire[i].frame][wire[i].at]
         /\ wire[i] = Cells(Conn, wire[i].frame)[wire[i].at]
<1>1. Conn \in 1..Conn /\ Conn \in Nat /\ sent[Conn] \in Seq(Messages)
  BY DEF StreamTypes, Conn
<1> DEFINE k == wire[i].frame
<1>2. /\ k \in 1..Len(sent[Conn]) /\ wire[i].at \in 1..Len(sent[Conn][k])
      /\ wire[i] = CellsOf(sent[Conn][k], Conn, k)[wire[i].at]
  BY DEF WireInv, Fits
<1>3. k \in DOMAIN sent[Conn] /\ sent[Conn][k] \in Messages /\ k \in Nat
  BY <1>1, <1>2
<1>4. /\ CellsOf(sent[Conn][k], Conn, k)[wire[i].at].conn = Conn
      /\ CellsOf(sent[Conn][k], Conn, k)[wire[i].at].byte = sent[Conn][k][wire[i].at]
  <2>1. PICK m \in Messages : m = sent[Conn][k]
    BY <1>3
  <2>2. PICK p \in 1..Len(m) : p = wire[i].at
    BY <1>2, <2>1
  <2>3. CellsOf(m, Conn, k)[p].conn = Conn /\ CellsOf(m, Conn, k)[p].byte = m[p]
    BY <1>1, <1>3, CellsShape
  <2> HIDE DEF k
  <2> QED BY ONLY <2>1, <2>2, <2>3, Zenon
<1> QED BY <1>2, <1>3, <1>4 DEF Cells

LEMMA Slice ==
  ASSUME NEW F \in Seq(Cell), NEW s \in Seq(Cell), NEW a \in Nat, NEW b \in Nat, a # 0,
         b = a + Len(s) - 1, b <= Len(F), Len(s) # 0,
         \A i \in 1..Len(s) : s[i] = F[a + i - 1]
  PROVE  SubSeq(F, 1, a - 1) \o s = SubSeq(F, 1, b)
<1>1. Len(s) \in Nat /\ Len(F) \in Nat /\ a \in 1..Len(F) /\ b \in 1..Len(F)
  OBVIOUS
<1>2. /\ SubSeq(F, 1, b) \in Seq(Cell) /\ Len(SubSeq(F, 1, b)) = b
      /\ \A i \in 1..b : SubSeq(F, 1, b)[i] = F[i]
  BY <1>1, Cut
<1> DEFINE h == SubSeq(F, 1, a - 1)
<1>3. h \in Seq(Cell) /\ Len(h) = a - 1 /\ \A i \in 1..(a - 1) : h[i] = F[i]
  <2>1. \A c \in Int : c = a - 1 =>
          /\ SubSeq(F, 1, c) \in Seq(Cell) /\ Len(SubSeq(F, 1, c)) = c
          /\ \A i \in 1..c : SubSeq(F, 1, c)[i] = F[i]
    <3> SUFFICES ASSUME NEW c \in Int, c = a - 1
                 PROVE  /\ SubSeq(F, 1, c) \in Seq(Cell) /\ Len(SubSeq(F, 1, c)) = c
                        /\ \A i \in 1..c : SubSeq(F, 1, c)[i] = F[i]
      OBVIOUS
    <3>1. \A i \in 1..c : i \in 1..Len(F)
      BY <1>1
    <3>2. \A i \in 1..c : F[i] \in Cell
      BY <3>1, ElementOfSeq
    <3> QED BY <1>1, <3>2, SubSeqProperties
  <2> QED BY <1>1, <2>1
<1> HIDE DEF h
<1>4. /\ h \o s \in Seq(Cell) /\ Len(h \o s) = Len(h) + Len(s) /\ Len(h) = a - 1
      /\ \A i \in 1..(Len(h) + Len(s)) : (h \o s)[i] = IF i <= Len(h) THEN h[i] ELSE s[i - Len(h)]
  <2>1. h \in Seq(Cell) /\ Len(h) = a - 1
    BY <1>3
  <2> QED BY <2>1, Glued
<1>5. ASSUME NEW i \in 1..b PROVE (h \o s)[i] = F[i]
  <2>1. CASE i <= a - 1
    BY <1>1, <1>3, <1>4, <2>1
  <2>2. CASE ~(i <= a - 1)
    <3>1. PICK j \in 1..Len(s) : j = i - (a - 1)
      BY <1>1, <2>2
    <3>2. (h \o s)[i] = s[j] /\ a + j - 1 = i
      BY <1>1, <1>4, <2>2, <3>1
    <3>3. s[j] = F[a + j - 1]
      OBVIOUS
    <3> QED BY ONLY <3>2, <3>3, Zenon
  <2> QED BY <2>1, <2>2
<1>6. Len(h \o s) = b
  BY <1>1, <1>4
<1> DEFINE x == h \o s
           y == SubSeq(F, 1, b)
<1>7. x \in Seq(Cell) /\ y \in Seq(Cell) /\ Len(x) = b /\ Len(y) = b /\ \A i \in 1..b : x[i] = y[i]
  BY <1>2, <1>4, <1>5, <1>6
<1> HIDE DEF x, y
<1>8. x = y
  BY <1>7
<1> QED BY <1>8 DEF x, y, h

\* A chunk cut cleanly is a stretch of one frame, and the two tests of its ends see
\* where in the frame it begins and ends.
LEMMA CleanChunk ==
  ASSUME StreamTypes, WireInv, NEW n \in 1..Len(wire), NEW s \in Seq(Cell), Len(s) = n,
         \A i \in 1..n : s[i] = wire[i], CutCleanly(s)
  PROVE  \E k \in DOMAIN sent[Conn], a \in Nat, b \in Nat : \E F \in Seq(Cell) :
           /\ F = Cells(Conn, k) /\ Len(F) = Len(sent[Conn][k]) /\ sent[Conn][k] \in Messages
           /\ a = wire[1].at /\ b = wire[n].at /\ a \in 1..b /\ b <= Len(F)
           /\ \A i \in 1..n : wire[i].frame = k
           /\ SubSeq(F, 1, a - 1) \o s = SubSeq(F, 1, b)
           /\ startsWithB1(Bytes(s)) <=> a = 1
           /\ endsWith0D0A(Bytes(s)) <=> b = Len(F)
<1>1. Len(wire) \in Nat /\ n \in Nat /\ 1 \in 1..Len(wire) /\ n \in 1..Len(wire) /\ 1 \in 1..n /\ n \in 1..n
  BY DEF StreamTypes
<1>2. Conn \in 1..Conn /\ Conn \in Nat
  BY DEF StreamTypes
<1> DEFINE k == wire[1].frame
           m == sent[Conn][k]
           F == Cells(Conn, k)
<1>3. k \in DOMAIN sent[Conn] /\ m \in Messages /\ wire[1].conn = Conn /\ k \in Nat
  BY <1>1, <1>2, OnWire, SentShape
<1>4. /\ F \in Seq(Cell) /\ Len(F) = Len(m) /\ Len(m) \in Nat /\ Len(m) > 2
      /\ \A i \in 1..Len(m) : F[i].byte = m[i]
      /\ m[1] = 177 /\ m[Len(m) - 1] = 13 /\ m[Len(m)] = 10
  <2>1. F = CellsOf(m, Conn, k)
    BY DEF Cells
  <2> HIDE DEF k, m, F
  <2>2. /\ CellsOf(m, Conn, k) \in Seq(Cell) /\ Len(CellsOf(m, Conn, k)) = Len(m)
        /\ \A i \in 1..Len(m) : CellsOf(m, Conn, k)[i].byte = m[i]
    BY <1>2, <1>3, CellsShape
  <2>3. Len(m) \in Nat /\ Len(m) > 2 /\ m[1] = 177 /\ m[Len(m) - 1] = 13 /\ m[Len(m)] = 10
    BY <1>3, MessageShape
  <2> QED BY <2>1, <2>2, <2>3
<1>5. /\ \A i \in DOMAIN s : s[i].frame = s[1].frame
      /\ s[1].at > 1 => ~startsWithB1(Bytes(s))
      /\ s[Len(s)].at < Len(sent[s[1].conn][s[1].frame]) => ~endsWith0D0A(Bytes(s))
      /\ s[Len(s)].at = Len(sent[s[1].conn][s[1].frame]) => Len(s) > 1
  BY DEF CutCleanly
<1>6. \A i \in 1..n : wire[i].frame = k
  <2>1. DOMAIN s = 1..n
    OBVIOUS
  <2> QED BY <1>1, <1>5, <2>1
<1>7. ASSUME NEW i \in 1..n
      PROVE  /\ wire[i].at \in 1..Len(m) /\ wire[i].byte = m[wire[i].at] /\ wire[i] = F[wire[i].at]
             /\ wire[i].at + 1 = wire[1].at + i
  <2>1. i \in 1..Len(wire)
    BY <1>1
  <2>2. wire[i].frame = wire[1].frame
    BY <1>6
  <2>3. wire[i].at + 1 = wire[1].at + i
    BY <1>1, <2>1, <2>2 DEF WireInv, Fits
  <2>4. /\ wire[i].at \in 1..Len(sent[Conn][wire[i].frame])
        /\ wire[i].byte = sent[Conn][wire[i].frame][wire[i].at]
        /\ wire[i] = Cells(Conn, wire[i].frame)[wire[i].at]
    BY <2>1, OnWire
  <2> QED BY <2>2, <2>3, <2>4
<1> HIDE DEF k, m, F
<1>8. PICK a \in Nat, b \in Nat : a = wire[1].at /\ b = wire[n].at
  BY <1>1, <1>4, <1>7
<1>9. a \in 1..b /\ b <= Len(m) /\ b = a + n - 1
  <2>1. b + 1 = a + n /\ a \in 1..Len(m) /\ b \in 1..Len(m)
    BY <1>1, <1>7, <1>8
  <2>2. a + n - 1 = b /\ a >= 1 /\ b >= 1 /\ n >= 1
    BY <1>1, <1>4, <2>1
  <2> QED BY <1>1, <1>4, <2>1, <2>2
<1>10. \A i \in 1..n : s[i] = F[a + i - 1] /\ s[i].byte = m[a + i - 1]
  <2> SUFFICES ASSUME NEW i \in 1..n PROVE s[i] = F[a + i - 1] /\ s[i].byte = m[a + i - 1]
    OBVIOUS
  <2>1. wire[i].at = a + i - 1
    <3>1. PICK c \in Nat : c = wire[i].at
      <4>1. wire[i].at \in 1..Len(m)
        BY <1>7
      <4>2. \A x \in 1..Len(m) : x \in Nat
        BY <1>4
      <4> QED BY ONLY <4>1, <4>2, Zenon
    <3>2. c + 1 = a + i
      <4>1. wire[i].at + 1 = wire[1].at + i
        BY <1>7
      <4>2. c + 1 = wire[i].at + 1 /\ a + i = wire[1].at + i
        BY <1>8, <3>1, Zenon
      <4> QED BY ONLY <4>1, <4>2, Zenon
    <3>3. c = a + i - 1
      <4>1. \A x, y, z \in Int : x + 1 = y + z => x = y + z - 1
        OBVIOUS
      <4>2. i \in Int /\ c \in Int /\ a \in Int
        BY <1>1
      <4> QED BY ONLY <3>2, <4>1, <4>2
    <3> QED BY <3>1, <3>3
  <2>2. s[i] = wire[i] /\ wire[i] = F[wire[i].at] /\ wire[i].byte = m[wire[i].at]
    BY <1>7
  <2> QED BY <2>1, <2>2
<1>11. SubSeq(F, 1, a - 1) \o s = SubSeq(F, 1, b)
  <2>1. a # 0 /\ b = a + Len(s) - 1 /\ b <= Len(F) /\ Len(s) # 0 /\ F \in Seq(Cell)
    BY <1>1, <1>4, <1>9
  <2>2. \A i \in 1..Len(s) : s[i] = F[a + i - 1]
    BY <1>10
  <2> QED BY <2>1, <2>2, Slice
<1>12. /\ Len(Bytes(s)) = n /\ Bytes(s) # <<>>
       /\ \A i \in 1..n : Bytes(s)[i] = s[i].byte
  BY <1>1, BytesShape
<1>13. /\ s[1] = wire[1] /\ s[Len(s)] = wire[n] /\ s[1].conn = Conn /\ s[1].frame = k
  BY <1>1, <1>3, <1>6
<1>14. startsWithB1(Bytes(s)) <=> a = 1
  <2>1. CASE a = 1
    <3>1. Bytes(s)[1] = m[a + 1 - 1] /\ a + 1 - 1 = 1
      BY <1>1, <1>10, <1>12, <2>1
    <3> QED BY <1>4, <1>12, <2>1, <3>1 DEF startsWithB1
  <2>2. CASE a # 1
    BY <1>5, <1>8, <1>9, <1>13, <2>2
  <2> QED BY <2>1, <2>2
<1>15. endsWith0D0A(Bytes(s)) <=> b = Len(m)
  <2>0. s[Len(s)].at = b /\ sent[s[1].conn][s[1].frame] = m
    BY <1>8, <1>13 DEF m, k
  <2>1. CASE b = Len(m)
    <3>1. n > 1
      BY <1>5, <2>0, <2>1
    <3>2. n - 1 \in 1..n /\ a + n - 1 = Len(m) /\ a + (n - 1) - 1 = Len(m) - 1
      BY <1>1, <1>4, <1>9, <2>1, <3>1
    <3>3. Bytes(s)[n - 1] = m[a + (n - 1) - 1]
      BY <1>10, <1>12, <3>2
    <3>4. Bytes(s)[n] = m[a + n - 1]
      BY <1>1, <1>10, <1>12
    <3>5. Bytes(s)[n - 1] = 13 /\ Bytes(s)[n] = 10
      BY <1>4, <3>2, <3>3, <3>4
    <3> QED BY <1>12, <2>1, <3>1, <3>5 DEF endsWith0D0A
  <2>2. CASE b # Len(m)
    BY <1>4, <1>5, <1>9, <2>0, <2>2
  <2> QED BY <2>1, <2>2
<1>16. Len(F) = Len(sent[Conn][k]) /\ sent[Conn][k] \in Messages /\ F = Cells(Conn, k)
  BY <1>3, <1>4 DEF m, F
<1>17. endsWith0D0A(Bytes(s)) <=> b = Len(F)
  BY <1>4, <1>15
<1>18. k \in DOMAIN sent[Conn] /\ b <= Len(F) /\ F \in Seq(Cell)
  BY <1>3, <1>4, <1>9
<1> USE <1>18
<1> WITNESS k \in DOMAIN sent[Conn], a \in Nat, b \in Nat
<1> WITNESS F \in Seq(Cell)
<1> QED BY <1>6, <1>8, <1>9, <1>11, <1>14, <1>16, <1>17, <1>18

LEMMA StartOfFrame ==
  ASSUME NEW F \in Seq(Cell), NEW c \in Int, 0 <= c, c <= Len(F)
  PROVE  /\ SubSeq(F, 1, c) \in Seq(Cell)
         /\ SubSeq(F, 1, c) = <<>> <=> c = 0
         /\ c = Len(F) => SubSeq(F, 1, c) = F
<1>1. Len(F) \in Nat
  OBVIOUS
<1>2. \A i \in 1..c : F[i] \in Cell
  <2>1. \A i \in 1..c : i \in 1..Len(F)
    BY <1>1
  <2> QED BY <2>1, ElementOfSeq
<1>3. SubSeq(F, 1, c) \in Seq(Cell) /\ Len(SubSeq(F, 1, c)) = c
  BY <1>2, SubSeqProperties
<1>4. SubSeq(F, 1, c) = <<>> <=> c = 0
  BY <1>3, EmptySeq
<1>5. c = Len(F) => SubSeq(F, 1, c) = F
  BY SubSeqFull
<1> QED BY <1>3, <1>4, <1>5

\* What the framing does with such a chunk s, if firstData holds the part h of the
\* frame F before it: it keeps the part t up to the end of s, or acts on the frame.
LEMMA CleanRead ==
  ASSUME NEW F, NEW s, NEW h, NEW t, NEW starts \in BOOLEAN, NEW ends \in BOOLEAN,
         h \o s = t, analysisAccepts(Bytes(F)),
         starts => s = t, ~starts => firstData = h /\ h # <<>>, ends => t = F,
         startsWithB1(Bytes(s)) <=> starts, endsWith0D0A(Bytes(s)) <=> ends,
         onMessageResponseClient(s)
  PROVE  IF ends THEN accepted' = Append(accepted, F)
         ELSE firstData' = t /\ UNCHANGED accepted
BY DEF onMessageResponseClient, analysisData

-----------------------------------------------------------------------------
(* Steps of the framing *)

LEMMA FramingInit == StreamInit => StreamInv
<1> SUFFICES ASSUME StreamInit PROVE StreamInv
  OBVIOUS
<1>1. /\ sent = << <<>> >> /\ wire = <<>> /\ firstData = <<>> /\ accepted = <<>> /\ spoilt = {}
  BY DEF StreamInit
<1>2. Len(sent) = 1 /\ sent[1] = <<>> /\ sent \in Seq(Seq(Messages))
  BY <1>1
<1>3. StreamTypes
  BY <1>1, <1>2 DEF StreamTypes, Conn
<1>4. Conn = 1 /\ Frames = {}
  <2>0. DOMAIN sent[1] = {} /\ Conn = 1 /\ \A c \in 1..1 : c = 1
    BY <1>2 DEF Conn
  <2>1. \A c, k : ~(<<c, k>> \in Frames)
    <3> SUFFICES ASSUME NEW c, NEW k, c \in 1..Conn, k \in DOMAIN sent[c] PROVE FALSE
      BY FramesAre
    <3> QED BY <2>0
  <2> QED BY <1>2, <2>1 DEF Frames, Conn
<1>5. StreamTypeOK
  <2>1. MaxStreams \in Nat \ {0} /\ MaxSent \in Nat
    BY MessageAssumption
  <2>2. Conn \in 1..MaxStreams /\ \A c \in 1..Conn : sent[c] \in Seq(Messages) /\ Len(sent[c]) <= MaxSent
    BY <1>2, <1>4, <2>1
  <2>3. \A m \in Range(accepted) : HasKindAndLength(Bytes(m))
    BY <1>1 DEF Range
  <2> QED BY <1>1, <2>2, <2>3 DEF StreamTypeOK
<1>6. WireInv /\ PartInv /\ OriginInv
  BY <1>1 DEF WireInv, Fits, PartInv, OriginInv, NoMixedConnections
<1>7. CleanFramesArrive
  BY <1>4 DEF CleanFramesArrive
<1> QED BY <1>3, <1>5, <1>6, <1>7 DEF StreamInv

LEMMA SendKeeps == StreamInv /\ RobotSends => StreamInv'
<1> SUFFICES ASSUME StreamInv, RobotSends PROVE StreamInv'
  OBVIOUS
<1>1. StreamTypes /\ StreamTypeOK /\ WireInv /\ PartInv /\ OriginInv /\ CleanFramesArrive
  BY DEF StreamInv
<1>2. PICK m \in Messages, k \in Nat :
        /\ k = Len(sent[Conn]) + 1 /\ Len(sent[Conn]) < MaxSent
        /\ sent' = [sent EXCEPT ![Conn] = Append(@, m)]
        /\ wire' = wire \o CellsOf(m, Conn, k)
        /\ UNCHANGED <<firstData, accepted, spoilt>>
  <2>1. Len(sent[Conn]) \in Nat
    BY <1>1 DEF StreamTypes, Conn
  <2>2. PICK k \in Nat : k = Len(sent[Conn]) + 1
    BY <2>1
  <2>3. /\ Len(sent[Conn]) < MaxSent /\ UNCHANGED <<firstData, accepted, spoilt>>
        /\ \E m \in Messages : /\ sent' = [sent EXCEPT ![Conn] = Append(@, m)]
                              /\ wire' = wire \o CellsOf(m, Conn, Len(sent[Conn]) + 1)
    BY DEF RobotSends
  <2>4. PICK m \in Messages : /\ sent' = [sent EXCEPT ![Conn] = Append(@, m)]
                              /\ wire' = wire \o CellsOf(m, Conn, k)
    BY <2>2, <2>3
  <2> QED BY <2>2, <2>3, <2>4
<1>3. Conn \in 1..Len(sent) /\ sent[Conn] \in Seq(Messages) /\ Len(sent[Conn]) \in Nat /\ Conn \in Nat
  BY <1>1 DEF StreamTypes, Conn
<1> DEFINE q == CellsOf(m, Conn, k)
           gs == Append(sent[Conn], m)
<1>4. /\ gs \in Seq(Messages) /\ DOMAIN gs = 1..k /\ gs[k] = m /\ Len(gs) = k
      /\ \A l \in DOMAIN sent[Conn] : gs[l] = sent[Conn][l] /\ l \in DOMAIN gs /\ l # k
      /\ \A l \in DOMAIN gs : l # k => l \in DOMAIN sent[Conn]
      /\ k \in DOMAIN gs
  BY <1>2, <1>3
<1>5. /\ Conn' = Conn /\ sent'[Conn] = gs /\ sent' \in Seq(Seq(Messages))
      /\ \A c \in 1..Conn : c # Conn => sent'[c] = sent[c]
  BY <1>1, <1>2, <1>3, <1>4 DEF StreamTypes, Conn
<1>6. /\ q \in Seq(Cell) /\ Len(q) = Len(m) /\ Len(m) \in Nat /\ Len(m) > 2 /\ 1 \in 1..Len(m)
      /\ \A i \in 1..Len(m) : q[i].frame = k /\ q[i].at = i /\ q[i].conn = Conn
  <2>1. Len(m) \in Nat /\ Len(m) > 2
    BY MessageShape
  <2>2. /\ q \in Seq(Cell) /\ Len(q) = Len(m)
        /\ \A i \in 1..Len(m) : q[i].frame = k /\ q[i].at = i /\ q[i].conn = Conn
    BY <1>3, CellsShape
  <2> QED BY <2>1, <2>2
<1>7. wire' \in Seq(Cell) /\ Fits(wire', Conn, gs)
  BY <1>1, <1>2, <1>3, FitsMore DEF WireInv, StreamTypes
<1> HIDE DEF q, gs
<1>8. /\ Len(wire') = Len(wire) + Len(m) /\ Len(wire) \in Nat
      /\ \A i \in 1..(Len(wire) + Len(m)) :
           wire'[i] = IF i <= Len(wire) THEN wire[i] ELSE q[i - Len(wire)]
  <2>1. wire' = wire \o q /\ wire \in Seq(Cell)
    BY <1>1, <1>2 DEF StreamTypes, q
  <2>2. /\ Len(wire \o q) = Len(wire) + Len(q) /\ Len(wire) \in Nat
        /\ \A i \in 1..(Len(wire) + Len(q)) :
             (wire \o q)[i] = IF i <= Len(wire) THEN wire[i] ELSE q[i - Len(wire)]
    <3>1. q \in Seq(Cell)
      BY <1>6
    <3> QED BY <2>1, <3>1, Glued
  <2>3. Len(q) = Len(m)
    BY <1>6
  <2> QED BY ONLY <2>1, <2>2, <2>3
<1>9. /\ \A i \in 1..Len(wire) : i \in 1..Len(wire') /\ wire'[i] = wire[i]
      /\ \A i \in 1..Len(wire') : i <= Len(wire) => i \in 1..Len(wire)
      /\ \A i \in 1..Len(wire') : ~(i <= Len(wire)) =>
           wire'[i].conn = Conn /\ wire'[i].frame = k
      /\ Len(wire) + 1 \in 1..Len(wire') /\ wire'[Len(wire) + 1].at = 1
      /\ wire'[Len(wire) + 1].conn = Conn /\ wire'[Len(wire) + 1].frame = k
  <2>1. \A i \in 1..Len(wire) : i \in 1..Len(wire') /\ wire'[i] = wire[i]
    BY <1>6, <1>8
  <2>2. \A i \in 1..Len(wire') : ~(i <= Len(wire)) =>
           wire'[i] = q[i - Len(wire)] /\ i - Len(wire) \in 1..Len(m)
    BY <1>6, <1>8
  <2>3. Len(wire) + 1 \in 1..Len(wire') /\ ~(Len(wire) + 1 <= Len(wire)) /\ (Len(wire) + 1) - Len(wire) = 1
    BY <1>6, <1>8
  <2>4. wire'[Len(wire) + 1] = q[1]
    BY <2>2, <2>3
  <2>5. \A i \in 1..Len(wire') : i <= Len(wire) => i \in 1..Len(wire)
    BY <1>8
  <2> QED BY <1>6, <2>1, <2>2, <2>3, <2>4, <2>5
<1>10. \A c, l : <<c, l>> \in Frames =>
          /\ <<c, l>> \in Frames' /\ sent'[c][l] = sent[c][l] /\ Cells(c, l)' = Cells(c, l)
  <2> SUFFICES ASSUME NEW c, NEW l, <<c, l>> \in Frames
               PROVE  <<c, l>> \in Frames' /\ sent'[c][l] = sent[c][l] /\ Cells(c, l)' = Cells(c, l)
    OBVIOUS
  <2>1. c \in 1..Conn /\ l \in DOMAIN sent[c]
    BY FramesAre
  <2>2. c \in 1..Conn' /\ l \in DOMAIN sent'[c] /\ sent'[c][l] = sent[c][l]
    BY <1>4, <1>5, <2>1
  <2>3. <<c, l>> \in Frames'
    BY <2>2 DEF Frames
  <2> QED BY <2>2, <2>3 DEF Cells
<1>11. \A c, l : <<c, l>> \in Frames' => <<c, l>> \in Frames \/ (c = Conn /\ l = k)
  <2> SUFFICES ASSUME NEW c, NEW l, <<c, l>> \in Frames', ~(c = Conn /\ l = k)
               PROVE  <<c, l>> \in Frames
    OBVIOUS
  <2>1. c \in 1..Conn' /\ l \in DOMAIN sent'[c]
    BY DEF Frames
  <2>2. c \in 1..Conn /\ l \in DOMAIN sent[c]
    BY <1>4, <1>5, <2>1
  <2> QED BY <2>2, FramesAre
<1>12. StreamTypes'
  BY <1>1, <1>2, <1>5, <1>7 DEF StreamTypes
<1>13. WireInv'
  BY <1>5, <1>7 DEF WireInv
<1>14. <<Conn, k>> \in Frames'
  <2>1. Conn \in 1..Conn' /\ k \in DOMAIN sent'[Conn]
    BY <1>3, <1>4, <1>5 DEF Conn
  <2> QED BY <2>1 DEF Frames
<1>15. StreamTypeOK'
  <2>1. \A c \in 1..Conn' : sent'[c] \in Seq(Messages) /\ Len(sent'[c]) <= MaxSent
    <3>1. k <= MaxSent
      BY <1>2, <1>3, MessageAssumption
    <3>2. \A c \in 1..Conn : sent[c] \in Seq(Messages) /\ Len(sent[c]) <= MaxSent
      BY <1>1 DEF StreamTypeOK
    <3> QED BY <1>4, <1>5, <3>1, <3>2
  <2>2. \A i \in DOMAIN wire' : <<wire'[i].conn, wire'[i].frame>> \in Frames'
    <3>1. \A i \in DOMAIN wire : <<wire[i].conn, wire[i].frame>> \in Frames
      BY <1>1 DEF StreamTypeOK
    <3>2. DOMAIN wire' = 1..Len(wire') /\ DOMAIN wire = 1..Len(wire)
      BY <1>1, <1>7 DEF StreamTypes
    <3> QED BY <1>9, <1>10, <1>14, <3>1, <3>2
  <2>3. \A i \in DOMAIN firstData' : <<firstData'[i].conn, firstData'[i].frame>> \in Frames'
    BY <1>1, <1>2, <1>10 DEF StreamTypeOK
  <2>4. spoilt' \subseteq Frames'
    <3>1. \A f \in Frames : f \in Frames'
      <4>1. \A f \in Frames : \E c, l : f = <<c, l>>
        BY DEF Frames
      <4> QED BY <1>10, <4>1
    <3> QED BY <1>1, <1>2, <3>1 DEF StreamTypeOK
  <2>5. Conn' \in 1..MaxStreams /\ \A x \in Range(accepted') : HasKindAndLength(Bytes(x))
    BY <1>1, <1>2, <1>5 DEF StreamTypeOK
  <2> QED BY <2>1, <2>2, <2>3, <2>4, <2>5 DEF StreamTypeOK
<1>16. wire = <<>> => wire'[1].at = 1
  BY <1>8, <1>9
<1>17. wire # <<>> => 1 \in 1..Len(wire) /\ wire'[1] = wire[1]
  BY <1>1, <1>9 DEF StreamTypes
<1>18. PartInv'
  <2> SUFFICES ASSUME wire' # <<>>, wire'[1].at > 1, <<Conn', wire'[1].frame>> \notin spoilt'
               PROVE  firstData' =
                        SubSeq(CellsOf(sent'[Conn'][wire'[1].frame], Conn', wire'[1].frame),
                               1, wire'[1].at - 1)
    BY DEF PartInv, Cells
  <2>1. wire # <<>>
    BY <1>16
  <2>2. wire'[1] = wire[1] /\ wire[1].frame \in DOMAIN sent[Conn]
    BY <1>1, <1>17, <2>1, OnWire
  <2>3. firstData = SubSeq(CellsOf(sent[Conn][wire[1].frame], Conn, wire[1].frame), 1, wire[1].at - 1)
    BY <1>1, <1>2, <1>5, <2>1, <2>2 DEF PartInv, Cells
  <2>4. sent'[Conn][wire[1].frame] = sent[Conn][wire[1].frame]
    BY <1>4, <1>5, <2>2
  <2> QED BY <1>2, <1>5, <2>2, <2>3, <2>4
<1>19. OriginInv'
  BY <1>1, <1>2, <1>5, <1>16, <1>17 DEF OriginInv, NoMixedConnections
<1>20. CleanFramesArrive'
  <2> SUFFICES ASSUME NEW c, NEW l, <<c, l>> \in Frames', <<c, l>> \notin spoilt',
                      <<c, l>> \notin Touched(wire')
               PROVE  Cells(c, l)' \in Range(accepted')
    <3>1. \A f \in Frames' : \E c, l : f = <<c, l>>
      BY DEF Frames
    <3> QED BY <3>1 DEF CleanFramesArrive
  <2>1. ~(c = Conn /\ l = k)
    BY <1>7, <1>9 DEF Touched
  <2>2. <<c, l>> \in Frames
    BY <1>11, <2>1
  <2>3. <<c, l>> \notin Touched(wire)
    <3>1. DOMAIN wire' = 1..Len(wire') /\ DOMAIN wire = 1..Len(wire)
      BY <1>1, <1>7 DEF StreamTypes
    <3> QED BY <1>9, <3>1 DEF Touched
  <2>4. Cells(c, l) \in Range(accepted)
    BY <1>1, <1>2, <2>2, <2>3 DEF CleanFramesArrive
  <2> QED BY <1>2, <1>10, <2>2, <2>4
<1> QED BY <1>12, <1>13, <1>15, <1>18, <1>19, <1>20 DEF StreamInv

LEMMA ReconnectKeeps == StreamInv /\ Reconnect => StreamInv'
<1> SUFFICES ASSUME StreamInv, Reconnect PROVE StreamInv'
  OBVIOUS
<1>1. StreamTypes /\ StreamTypeOK /\ WireInv /\ PartInv /\ OriginInv /\ CleanFramesArrive
  BY DEF StreamInv
<1>2. /\ Conn < MaxStreams /\ sent' = Append(sent, <<>>) /\ wire' = <<>>
      /\ spoilt' = spoilt \cup Touched(wire) /\ UNCHANGED <<firstData, accepted>>
  BY DEF Reconnect
<1>3. /\ Conn \in Nat /\ Conn' = Conn + 1 /\ sent' \in Seq(Seq(Messages))
      /\ sent'[Conn + 1] = <<>> /\ \A c \in 1..Conn : sent'[c] = sent[c] /\ c \in 1..Conn'
      /\ \A c \in 1..Conn' : c \in 1..Conn \/ c = Conn + 1
  <2>1. <<>> \in Seq(Messages)
    OBVIOUS
  <2> QED BY <1>1, <1>2, <2>1 DEF StreamTypes, Conn
<1>4. \A c, l : <<c, l>> \in Frames' <=> <<c, l>> \in Frames
  <2> SUFFICES ASSUME NEW c, NEW l PROVE <<c, l>> \in Frames' <=> <<c, l>> \in Frames
    OBVIOUS
  <2>1. <<c, l>> \in Frames' <=> c \in 1..Conn' /\ l \in DOMAIN sent'[c]
    BY DEF Frames
  <2>2. DOMAIN sent'[Conn + 1] = {}
    BY <1>3
  <2> QED BY <1>3, <2>1, <2>2, FramesAre
<1>5. \A f \in Frames' : \E c, l : f = <<c, l>>
  BY DEF Frames
<1>6. \A f \in Frames : \E c, l : f = <<c, l>>
  BY DEF Frames
<1>7. Frames' = Frames
  BY <1>4, <1>5, <1>6
<1>8. StreamTypes'
  BY <1>1, <1>2, <1>3 DEF StreamTypes
<1>9. StreamTypeOK'
  <2>1. \A c \in 1..Conn' : sent'[c] \in Seq(Messages) /\ Len(sent'[c]) <= MaxSent
    <3>1. <<>> \in Seq(Messages) /\ Len(<<>>) <= MaxSent
      BY MessageAssumption
    <3>2. \A c \in 1..Conn : sent[c] \in Seq(Messages) /\ Len(sent[c]) <= MaxSent
      BY <1>1 DEF StreamTypeOK
    <3> QED BY <1>3, <3>1, <3>2
  <2>2. Conn' \in 1..MaxStreams
    BY <1>1, <1>2, <1>3, MessageAssumption DEF StreamTypeOK
  <2>3. Touched(wire) \subseteq Frames
    BY <1>1 DEF StreamTypeOK, Touched
  <2>4. \A i \in DOMAIN wire' : <<wire'[i].conn, wire'[i].frame>> \in Frames'
    BY <1>2
  <2>5. \A i \in DOMAIN firstData' : <<firstData'[i].conn, firstData'[i].frame>> \in Frames'
    BY <1>1, <1>2, <1>7 DEF StreamTypeOK
  <2>6. spoilt' \subseteq Frames' /\ \A x \in Range(accepted') : HasKindAndLength(Bytes(x))
    BY <1>1, <1>2, <1>7, <2>3 DEF StreamTypeOK
  <2> QED BY <2>1, <2>2, <2>4, <2>5, <2>6 DEF StreamTypeOK
<1>10. WireInv' /\ PartInv' /\ OriginInv'
  BY <1>1, <1>2 DEF WireInv, Fits, PartInv, OriginInv, NoMixedConnections
<1>11. CleanFramesArrive'
  <2> SUFFICES ASSUME NEW c, NEW l, <<c, l>> \in Frames, <<c, l>> \notin spoilt'
               PROVE  Cells(c, l)' \in Range(accepted')
    BY <1>6, <1>7 DEF CleanFramesArrive
  <2>1. Cells(c, l) \in Range(accepted)
    BY <1>1, <1>2 DEF CleanFramesArrive
  <2>2. c \in 1..Conn
    BY FramesAre
  <2>3. Cells(c, l)' = Cells(c, l)
    BY <1>3, <2>2 DEF Cells
  <2> QED BY <1>2, <2>1, <2>3
<1> QED BY <1>8, <1>9, <1>10, <1>11 DEF StreamInv

\* The next n cells of the wire, s, are read.
Read(n, s) ==
  /\ n \in Nat /\ n # 0 /\ n <= Len(wire) /\ wire # <<>>
  /\ s \in Seq(Cell) /\ Len(s) = n /\ DOMAIN s = 1..n /\ s # <<>>
  /\ \A i \in 1..n : s[i] = wire[i] /\ i \in 1..Len(wire)
  /\ wire' \in Seq(Cell) /\ Len(wire') = Len(wire) - n /\ DOMAIN wire' = 1..(Len(wire) - n)
  /\ \A i \in 1..(Len(wire) - n) : wire'[i] = wire[n + i] /\ n + i \in 1..Len(wire)
  /\ onMessageResponseClient(s)
  /\ spoilt' = IF CutCleanly(s) THEN spoilt ELSE spoilt \cup Touched(s)
  /\ sent' = sent /\ Conn' = Conn

LEMMA ReadParts ==
  ASSUME StreamTypes, channelRead
  PROVE  \E n \in 1..Len(wire) : \E s \in Seq(Cell) : Read(n, s)
<1>1. PICK n \in 1..Len(wire) :
        /\ wire' = SubSeq(wire, n + 1, Len(wire))
        /\ onMessageResponseClient(SubSeq(wire, 1, n))
        /\ spoilt' = IF CutCleanly(SubSeq(wire, 1, n)) THEN spoilt
                     ELSE spoilt \cup Touched(SubSeq(wire, 1, n))
  BY DEF channelRead
<1> DEFINE s == SubSeq(wire, 1, n)
<1>2. wire \in Seq(Cell) /\ Len(wire) \in Nat /\ n \in Nat /\ n # 0 /\ n <= Len(wire) /\ wire # <<>>
  BY DEF StreamTypes
<1>3. /\ s \in Seq(Cell) /\ Len(s) = n
      /\ \A i \in 1..n : s[i] = wire[i]
      /\ SubSeq(wire, n + 1, Len(wire)) \in Seq(Cell)
      /\ Len(SubSeq(wire, n + 1, Len(wire))) = Len(wire) - n
      /\ \A i \in 1..(Len(wire) - n) : SubSeq(wire, n + 1, Len(wire))[i] = wire[n + i]
  BY <1>2, Cut
<1>4. /\ onMessageResponseClient(s)
      /\ spoilt' = IF CutCleanly(s) THEN spoilt ELSE spoilt \cup Touched(s)
  BY <1>1
<1> HIDE DEF s
<1>5. /\ DOMAIN s = 1..n /\ s # <<>>
      /\ \A i \in 1..n : i \in 1..Len(wire)
      /\ wire' \in Seq(Cell) /\ Len(wire') = Len(wire) - n /\ DOMAIN wire' = 1..(Len(wire) - n)
      /\ \A i \in 1..(Len(wire) - n) : wire'[i] = wire[n + i] /\ n + i \in 1..Len(wire)
  BY <1>1, <1>2, <1>3
<1>6. sent' = sent /\ Conn' = Conn
  BY DEF channelRead, Conn
<1>7. Read(n, s)
  BY <1>2, <1>3, <1>4, <1>5, <1>6 DEF Read
<1> QED BY <1>3, <1>7

\* A chunk that does not begin with B1 does not begin a frame.
LEMMA StartSeen ==
  ASSUME StreamTypes, WireInv, NEW n, NEW s, Read(n, s), ~startsWithB1(Bytes(s))
  PROVE  wire[1].at # 1
<1> SUFFICES ASSUME wire[1].at = 1 PROVE FALSE
  OBVIOUS
<1>1. 1 \in 1..n /\ 1 \in 1..Len(wire)
  BY DEF Read, StreamTypes
<1>2. PICK m \in Messages : wire[1].byte = m[1]
  BY <1>1, OnWire
<1>3. wire[1].byte = 177
  BY <1>2, MessageShape
<1>4. s \in Seq(Cell) /\ Len(s) = n /\ s[1] = wire[1]
  BY <1>1 DEF Read
<1>5. Len(Bytes(s)) = n /\ Bytes(s)[1] = s[1].byte
  BY <1>1, <1>4, BytesShape
<1>6. Bytes(s) # <<>> /\ Bytes(s)[1] = 177
  BY <1>1, <1>3, <1>4, <1>5
<1> QED BY <1>6 DEF startsWithB1

\* After a read firstData holds bytes of this connection only.
LEMMA KeptIsCurrent ==
  ASSUME StreamTypes, WireInv, OriginInv, NEW n, NEW s, Read(n, s)
  PROVE  \A i \in DOMAIN firstData' : firstData'[i].conn = Conn
<1>1. /\ firstData \in Seq(Cell) /\ s \in Seq(Cell) /\ Len(s) = n /\ DOMAIN s = 1..n
      /\ n \in Nat /\ wire # <<>> /\ onMessageResponseClient(s)
      /\ firstData' \in {<<>>, s, firstData \o s, firstData}
  BY DEF StreamTypes, Read, onMessageResponseClient
<1>2. /\ Len(firstData) \in Nat /\ DOMAIN firstData = 1..Len(firstData)
      /\ DOMAIN (firstData \o s) = 1..(Len(firstData) + n)
      /\ \A i \in 1..(Len(firstData) + n) :
           (firstData \o s)[i] = IF i <= Len(firstData) THEN firstData[i] ELSE s[i - Len(firstData)]
  <2>1. /\ firstData \o s \in Seq(Cell) /\ Len(firstData \o s) = Len(firstData) + n
        /\ \A i \in 1..(Len(firstData) + n) :
             (firstData \o s)[i] = IF i <= Len(firstData) THEN firstData[i] ELSE s[i - Len(firstData)]
    BY <1>1, Glued
  <2> QED BY <1>1, <2>1
<1>3. \A i \in 1..n : s[i].conn = Conn
  <2>1. \A i \in 1..Len(wire) : wire[i].conn = Conn
    BY OnWire
  <2> QED BY <2>1 DEF Read
<1>4. CASE startsWithB1(Bytes(s))
  <2>1. firstData' = <<>> \/ firstData' = s
    BY <1>1, <1>4 DEF onMessageResponseClient
  <2>2. CASE firstData' = <<>>
    BY <2>2
  <2>3. CASE firstData' = s
    BY <1>1, <1>3, <2>3
  <2> QED BY <2>1, <2>2, <2>3
<1>5. CASE ~startsWithB1(Bytes(s))
  <2>1. wire[1].at # 1
    BY <1>5, StartSeen
  <2>2. \A i \in 1..Len(firstData) : firstData[i].conn = Conn
    <3>1. firstData = <<>> \/ firstData[1].conn = Conn
      BY <1>1, <2>1 DEF OriginInv
    <3>2. \A i, j \in DOMAIN firstData : firstData[i].conn = firstData[j].conn
      BY  DEF OriginInv, NoMixedConnections
    <3>3. \A i \in 1..Len(firstData) : i \in DOMAIN firstData /\ 1 \in DOMAIN firstData
      BY <1>2
    <3>4. firstData = <<>> => Len(firstData) = 0
      OBVIOUS
    <3> QED BY <3>1, <3>2, <3>3, <3>4
  <2>3. CASE firstData' = <<>>
    BY <2>3
  <2>6. CASE firstData' = firstData
    BY <1>2, <2>2, <2>6
  <2>4. CASE firstData' = firstData \o s
    <3> SUFFICES ASSUME NEW i \in 1..(Len(firstData) + n) PROVE firstData'[i].conn = Conn
      BY <1>2, <2>4
    <3>1. CASE i <= Len(firstData)
      <4>1. i \in 1..Len(firstData) /\ firstData'[i] = firstData[i]
        BY <1>2, <2>4, <3>1
      <4> QED BY <2>2, <4>1
    <3>2. CASE ~(i <= Len(firstData))
      <4>1. PICK j \in 1..n : j = i - Len(firstData)
        <5>1. PICK l \in Nat : l = Len(firstData)
          BY <1>2
        <5>2. \A x \in 1..(l + n) : ~(x <= l) => x - l \in 1..n
          BY <1>1
        <5>3. i - l \in 1..n
          BY <3>2, <5>1, <5>2
        <5> QED BY <5>1, <5>3
      <4>2. firstData'[i] = s[j]
        BY <1>2, <2>4, <3>2, <4>1
      <4> QED BY <1>3, <4>2
    <3> QED BY <3>1, <3>2
  <2>5. CASE firstData' = s
    BY <1>1, <1>3, <2>5
  <2> QED BY <1>1, <2>3, <2>4, <2>5, <2>6
<1> QED BY <1>4, <1>5

LEMMA ReadKeeps == StreamInv /\ channelRead => StreamInv'
<1> SUFFICES ASSUME StreamInv, channelRead PROVE StreamInv'
  OBVIOUS
<1>1. StreamTypes /\ StreamTypeOK /\ WireInv /\ PartInv /\ OriginInv /\ CleanFramesArrive
  BY DEF StreamInv
<1>2. PICK n \in 1..Len(wire), s \in Seq(Cell) : Read(n, s)
  BY <1>1, ReadParts
<1>3. sent' = sent /\ Conn' = Conn /\ Frames' = Frames
  BY <1>2 DEF Read, Conn, Frames
<1>4. wire \in Seq(Cell) /\ Len(wire) \in Nat /\ n \in Nat /\ n # 0 /\ n <= Len(wire) /\ wire # <<>>
  BY <1>1 DEF StreamTypes
<1>5. /\ Len(s) = n /\ DOMAIN s = 1..n /\ s # <<>>
      /\ \A i \in 1..n : s[i] = wire[i] /\ i \in 1..Len(wire)
      /\ wire' \in Seq(Cell) /\ Len(wire') = Len(wire) - n /\ DOMAIN wire' = 1..(Len(wire) - n)
      /\ \A i \in 1..(Len(wire) - n) : wire'[i] = wire[n + i] /\ n + i \in 1..Len(wire)
  BY <1>2 DEF Read
<1>6. /\ onMessageResponseClient(s)
      /\ spoilt' = IF CutCleanly(s) THEN spoilt ELSE spoilt \cup Touched(s)
  BY <1>2 DEF Read
<1>7. /\ firstData' \in {<<>>, s, firstData \o s, firstData}
      /\ \/ accepted' = accepted
         \/ \E x \in {s, firstData \o s} :
              analysisAccepts(Bytes(x)) /\ accepted' = Append(accepted, x)
  BY <1>6 DEF onMessageResponseClient, analysisData
<1>8. /\ firstData \in Seq(Cell) /\ firstData \o s \in Seq(Cell) /\ Len(firstData) \in Nat
      /\ Len(firstData \o s) = Len(firstData) + n
      /\ \A i \in 1..(Len(firstData) + n) :
           (firstData \o s)[i] = IF i <= Len(firstData) THEN firstData[i] ELSE s[i - Len(firstData)]
  <2>1. firstData \in Seq(Cell) /\ s \in Seq(Cell) /\ Len(s) = n
    BY <1>1, <1>5 DEF StreamTypes
  <2> QED BY <2>1, Glued
<1>9. /\ \A i \in 1..Len(accepted) : accepted[i] \in Range(accepted')
      /\ accepted' \in Seq(Seq(Cell))
      /\ \A x \in Range(accepted') : HasKindAndLength(Bytes(x))
  <2>1. accepted \in Seq(Seq(Cell)) /\ \A x \in Range(accepted) : HasKindAndLength(Bytes(x))
    BY <1>1 DEF StreamTypes, StreamTypeOK
  <2>2. CASE accepted' = accepted
    BY <2>1, <2>2 DEF Range
  <2>3. ASSUME NEW x \in {s, firstData \o s}, analysisAccepts(Bytes(x)), accepted' = Append(accepted, x)
        PROVE  /\ \A i \in 1..Len(accepted) : accepted[i] \in Range(accepted')
               /\ accepted' \in Seq(Seq(Cell))
               /\ \A y \in Range(accepted') : HasKindAndLength(Bytes(y))
    <3>1. x \in Seq(Cell)
      BY <1>5, <1>8
    <3>2. HasKindAndLength(Bytes(x))
      BY <2>3 DEF analysisAccepts
    <3>3. /\ Append(accepted, x) \in Seq(Seq(Cell)) /\ Len(accepted) \in Nat
          /\ DOMAIN Append(accepted, x) = 1..(Len(accepted) + 1)
          /\ \A i \in 1..Len(accepted) : Append(accepted, x)[i] = accepted[i]
          /\ Append(accepted, x)[Len(accepted) + 1] = x
      BY <2>1, <3>1
    <3>4. \A i \in 1..(Len(accepted) + 1) : i \in 1..Len(accepted) \/ i = Len(accepted) + 1
      BY <3>3
    <3>5. \A i \in 1..Len(accepted) : i \in DOMAIN accepted /\ i \in 1..(Len(accepted) + 1)
      BY <2>1, <3>3
    <3> QED BY <2>1, <2>3, <3>2, <3>3, <3>4, <3>5 DEF Range
  <2> QED BY <1>7, <2>2, <2>3
<1>10. StreamTypes'
  <2>1. <<>> \in Seq(Cell) /\ s \in Seq(Cell) /\ firstData \in Seq(Cell) /\ firstData \o s \in Seq(Cell)
    <3>1. <<>> \in Seq(Cell)
      OBVIOUS
    <3> QED BY <1>5, <1>8, <3>1
  <2>2. firstData' = <<>> \/ firstData' = s \/ firstData' = firstData \o s \/ firstData' = firstData
    BY <1>7
  <2>3. firstData' \in Seq(Cell)
    BY ONLY <2>1, <2>2, Zenon
  <2> QED BY <1>1, <1>3, <1>5, <1>9, <2>3 DEF StreamTypes
<1>11. WireInv'
  <2>1. Fits(wire, Conn, sent[Conn])
    BY <1>1 DEF WireInv
  <2>2. Fits(wire', Conn, sent[Conn])
    BY <1>4, <1>5, <2>1, FitsRest
  <2> QED BY <1>3, <2>2 DEF WireInv
<1>12. \A i \in 1..n : s[i].conn = Conn /\ <<Conn, s[i].frame>> \in Frames
  <2>1. \A i \in 1..Len(wire) : wire[i].conn = Conn /\ wire[i].frame \in DOMAIN sent[Conn]
    BY <1>1, OnWire
  <2>2. Conn \in 1..Conn
    BY <1>1 DEF StreamTypes
  <2> QED BY <1>5, <2>1, <2>2, FramesAre
<1>13. \A i \in DOMAIN firstData' : <<firstData'[i].conn, firstData'[i].frame>> \in Frames'
  <2>1. \A i \in 1..Len(firstData) : <<firstData[i].conn, firstData[i].frame>> \in Frames
    BY <1>1, <1>8 DEF StreamTypeOK
  <2>2. CASE firstData' = <<>>
    BY <2>2
  <2>4. CASE firstData' = s
    BY <1>3, <1>5, <1>12, <2>4
  <2>5. CASE firstData' = firstData
    BY <1>3, <1>8, <2>1, <2>5
  <2>3. CASE firstData' = firstData \o s
    <3> SUFFICES ASSUME NEW i \in 1..(Len(firstData) + n)
                 PROVE  <<firstData'[i].conn, firstData'[i].frame>> \in Frames
      BY <1>3, <1>8, <2>3
    <3>1. CASE i <= Len(firstData)
      <4>1. i \in 1..Len(firstData) /\ firstData'[i] = firstData[i]
        BY <1>8, <2>3, <3>1
      <4> QED BY <2>1, <4>1
    <3>2. CASE ~(i <= Len(firstData))
      <4>1. PICK j \in 1..n : j = i - Len(firstData)
        <5>1. PICK l \in Nat : l = Len(firstData)
          BY <1>8
        <5>2. \A x \in 1..(l + n) : ~(x <= l) => x - l \in 1..n
          BY <1>4
        <5>3. i - l \in 1..n
          BY <3>2, <5>1, <5>2
        <5> QED BY <5>1, <5>3
      <4>2. firstData'[i] = s[j]
        BY <1>8, <2>3, <3>2, <4>1
      <4> QED BY <1>12, <4>2
    <3> QED BY <3>1, <3>2
  <2> QED BY <1>7, <2>2, <2>3, <2>4, <2>5
<1>14. StreamTypeOK'
  <2>1. \A i \in DOMAIN wire' : <<wire'[i].conn, wire'[i].frame>> \in Frames'
    <3>1. \A i \in 1..Len(wire) : <<wire[i].conn, wire[i].frame>> \in Frames
      BY <1>1, <1>4 DEF StreamTypeOK
    <3> QED BY <1>3, <1>5, <3>1
  <2>2. spoilt' \subseteq Frames'
    <3>1. Touched(s) \subseteq Frames
      BY <1>5, <1>12 DEF Touched
    <3> QED BY <1>1, <1>3, <1>6, <3>1 DEF StreamTypeOK
  <2> QED BY <1>1, <1>3, <1>9, <1>13, <2>1, <2>2 DEF StreamTypeOK
<1>15. 1 \in 1..n /\ n \in 1..n /\ 1 \in 1..Len(wire)
  BY <1>4
<1>16. \A i \in DOMAIN firstData' : firstData'[i].conn = Conn
  BY <1>1, <1>2, KeptIsCurrent
<1>17. OriginInv'
  <2>1. NoMixedConnections'
    BY <1>16 DEF NoMixedConnections
  <2>2. firstData' # <<>> => firstData'[1].conn = Conn
    <3>1. firstData' \in Seq(Cell)
      BY <1>10 DEF StreamTypes
    <3>2. firstData' # <<>> => 1 \in DOMAIN firstData'
      BY <3>1
    <3> QED BY <1>16, <3>2
  <2> QED BY <1>3, <2>1, <2>2 DEF OriginInv
\* A frame that the chunk is cut cleanly from: what is done with it.
<1>18. ASSUME NEW k, NEW i \in 1..n, wire[i].frame = k, <<Conn, k>> \notin spoilt'
       PROVE  \E a \in Nat, b \in Nat : \E F \in Seq(Cell) :
                /\ F = Cells(Conn, k) /\ Len(F) = Len(sent[Conn][k]) /\ b = wire[n].at
                /\ b \in 1..Len(F) /\ wire[n].frame = k
                /\ IF b = Len(F) THEN accepted' = Append(accepted, F)
                   ELSE firstData' = SubSeq(F, 1, b)
  <2>1. CutCleanly(s) /\ spoilt' = spoilt
    <3>1. <<Conn, k>> \in Touched(s)
      BY <1>5, <1>12, <1>18 DEF Touched
    <3> QED BY <1>6, <1>18, <3>1
  <2>2. PICK l \in DOMAIN sent[Conn], a \in Nat, b \in Nat, F \in Seq(Cell) :
          /\ F = Cells(Conn, l) /\ Len(F) = Len(sent[Conn][l]) /\ sent[Conn][l] \in Messages
          /\ a = wire[1].at /\ b = wire[n].at /\ a \in 1..b /\ b <= Len(F)
          /\ \A j \in 1..n : wire[j].frame = l
          /\ SubSeq(F, 1, a - 1) \o s = SubSeq(F, 1, b)
          /\ startsWithB1(Bytes(s)) <=> a = 1
          /\ endsWith0D0A(Bytes(s)) <=> b = Len(F)
    BY <1>1, <1>5, <2>1, CleanChunk
  <2>3. l = k /\ wire[n].frame = k /\ wire[1].frame = k
    BY <1>15, <1>18, <2>2
  <2>4. analysisAccepts(Bytes(F))
    <3>1. Bytes(F) = sent[Conn][l]
      <4>1. l \in Nat /\ Conn \in Nat
        <5>1. sent[Conn] \in Seq(Messages) /\ Conn \in Nat
          BY <1>1 DEF StreamTypes, Conn
        <5>2. DOMAIN sent[Conn] \subseteq Nat
          BY <5>1
        <5> QED BY <2>2, <5>1, <5>2
      <4>2. F = CellsOf(sent[Conn][l], Conn, l) /\ sent[Conn][l] \in Messages
        BY <2>2 DEF Cells
      <4>3. Bytes(CellsOf(sent[Conn][l], Conn, l)) = sent[Conn][l]
        BY <4>1, <4>2, CellsShape
      <4> QED BY ONLY <4>2, <4>3, Zenon
    <3> QED BY <2>2, <3>1, MessageShape
  <2>5. PICK c \in Int : c = a - 1
    OBVIOUS
  <2>6. /\ 0 <= c /\ c <= Len(F) /\ (c = 0 <=> a = 1) /\ Len(F) \in Nat /\ b \in 1..Len(F)
        /\ (a # 1 => wire[1].at > 1) /\ 0 <= b
    <3>1. PICK z \in Nat : z = Len(F)
      BY <2>2
    <3>2. a \in 1..b /\ b <= z /\ a \in Nat /\ b \in Nat /\ c = a - 1
      BY <2>2, <2>5, <3>1
    <3>3. 0 <= c /\ c <= z /\ (c = 0 <=> a = 1) /\ b \in 1..z /\ (a # 1 => a > 1) /\ 0 <= b
      BY ONLY <3>2, z \in Nat
    <3> QED BY <2>2, <3>1, <3>3
  <2>7. SubSeq(F, 1, c) = <<>> <=> c = 0
    BY <2>6, StartOfFrame
  <2>8. b = Len(F) => SubSeq(F, 1, b) = F
    BY <2>2, <2>6, StartOfFrame
  <2>9. a # 1 => firstData = SubSeq(F, 1, c) /\ SubSeq(F, 1, c) # <<>>
    <3> SUFFICES ASSUME a # 1 PROVE firstData = SubSeq(F, 1, c)
      BY <2>6, <2>7
    <3>1. firstData = SubSeq(Cells(Conn, wire[1].frame), 1, wire[1].at - 1)
      BY <1>1, <1>4, <1>18, <2>1, <2>3, <2>6 DEF PartInv
    <3> QED BY <2>2, <2>3, <2>5, <3>1
  <2>10. SubSeq(F, 1, c) \o s = SubSeq(F, 1, b)
    BY <2>2, <2>5
  <2>11. a = 1 => s = SubSeq(F, 1, b)
    <3>1. <<>> \o s = s
      BY <1>5, ConcatEmptySeq
    <3> QED BY <2>6, <2>7, <2>10, <3>1
  <2>12. PICK h, t : h = SubSeq(F, 1, c) /\ t = SubSeq(F, 1, b)
    OBVIOUS
  <2>13. IF b = Len(F) THEN accepted' = Append(accepted, F) ELSE firstData' = t
    <3>1. /\ h \o s = t /\ (a = 1 => s = t) /\ (~(a = 1) => firstData = h /\ h # <<>>)
          /\ (b = Len(F) => t = F)
      BY <2>8, <2>9, <2>10, <2>11, <2>12
    <3>2. PICK starts \in BOOLEAN, ends \in BOOLEAN : (starts <=> a = 1) /\ (ends <=> b = Len(F))
      OBVIOUS
    <3>3. IF ends THEN accepted' = Append(accepted, F) ELSE firstData' = t /\ UNCHANGED accepted
      BY <1>6, <2>2, <2>4, <3>1, <3>2, CleanRead
    <3> QED BY <3>2, <3>3
  <2>14. F = Cells(Conn, k) /\ Len(F) = Len(sent[Conn][k])
    BY <2>2, <2>3
  <2> QED BY <2>2, <2>3, <2>6, <2>12, <2>13, <2>14
<1>19. PartInv'
  <2> SUFFICES ASSUME wire' # <<>>, wire'[1].at > 1, <<Conn, wire'[1].frame>> \notin spoilt'
               PROVE  firstData' = SubSeq(Cells(Conn, wire'[1].frame), 1, wire'[1].at - 1)
    BY <1>3 DEF PartInv, Cells
  <2>1. n < Len(wire) /\ wire'[1] = wire[n + 1] /\ n + 1 \in 1..Len(wire)
    <3>1. Len(wire') # 0
      BY <1>5
    <3>2. n < Len(wire) /\ 1 \in 1..(Len(wire) - n)
      BY <1>4, <1>5, <3>1
    <3> QED BY <1>4, <1>5, <3>2
  <2>2. PICK k : k = wire'[1].frame
    OBVIOUS
  <2>3. wire[n].frame = k /\ wire[n].at + (n + 1) = wire[n + 1].at + n
    BY <1>1, <1>15, <2>1, <2>2 DEF WireInv, Fits
  <2>4. PICK a \in Nat, b \in Nat, F \in Seq(Cell) :
          /\ F = Cells(Conn, k) /\ Len(F) = Len(sent[Conn][k]) /\ b = wire[n].at
          /\ b \in 1..Len(F)
          /\ IF b = Len(F) THEN accepted' = Append(accepted, F)
             ELSE firstData' = SubSeq(F, 1, b)
    BY <1>15, <1>18, <2>2, <2>3
  <2>5. PICK d \in Nat : d = wire[n + 1].at /\ d \in 1..Len(sent[Conn][k])
    <3>1. wire[n + 1].at \in 1..Len(sent[Conn][wire[n + 1].frame])
      BY <1>1, <2>1, OnWire
    <3> QED BY <2>1, <2>2, <3>1
  <2>6. b + (n + 1) = d + n
    BY <2>3, <2>4, <2>5
  <2>7. b = d - 1 /\ b # Len(F)
    <3>1. PICK z \in Nat : z = Len(F)
      BY <2>4
    <3>2. d \in 1..z /\ b + (n + 1) = d + n
      BY <2>4, <2>5, <2>6, <3>1
    <3>3. b = d - 1 /\ b # z
      BY <1>4, <3>2
    <3> QED BY <3>1, <3>3
  <2> QED BY <2>1, <2>2, <2>4, <2>5, <2>7
<1>20. CleanFramesArrive'
  <2> SUFFICES ASSUME NEW c, NEW k, <<c, k>> \in Frames, <<c, k>> \notin spoilt',
                      <<c, k>> \notin Touched(wire')
               PROVE  Cells(c, k) \in Range(accepted')
    <3>1. \A f \in Frames : \E c, k : f = <<c, k>>
      BY DEF Frames
    <3> QED BY <1>3, <3>1 DEF CleanFramesArrive, Cells
  <2>1. CASE <<c, k>> \notin Touched(wire)
    <3>1. Cells(c, k) \in Range(accepted)
      BY <1>1, <1>6, <2>1 DEF CleanFramesArrive
    <3>2. \A x \in Range(accepted) : \E i \in 1..Len(accepted) : x = accepted[i]
      BY <1>1 DEF Range, StreamTypes
    <3> QED BY <1>9, <3>1, <3>2
  <2>2. CASE <<c, k>> \in Touched(wire)
    <3>1. PICK i \in 1..Len(wire) : wire[i].conn = c /\ wire[i].frame = k
      BY <1>4, <2>2 DEF Touched
    <3>2. c = Conn
      BY <1>1, <3>1, OnWire
    <3>3. i \in 1..n
      <4> SUFFICES ASSUME ~(i <= n) PROVE FALSE
        BY <1>4, <3>1
      <4>1. PICK j \in 1..(Len(wire) - n) : i = n + j
        <5>1. i - n \in 1..(Len(wire) - n) /\ i = n + (i - n)
          BY <1>4, <3>1
        <5> QED BY <5>1
      <4>2. wire'[j] = wire[i] /\ j \in DOMAIN wire'
        BY <1>5, <4>1
      <4> QED BY <3>1, <4>2 DEF Touched
    <3>4. PICK a \in Nat, b \in Nat, F \in Seq(Cell) :
            /\ F = Cells(Conn, k) /\ Len(F) = Len(sent[Conn][k]) /\ b = wire[n].at
            /\ b \in 1..Len(F) /\ wire[n].frame = k
            /\ IF b = Len(F) THEN accepted' = Append(accepted, F)
               ELSE firstData' = SubSeq(F, 1, b)
      BY <1>18, <3>1, <3>2, <3>3
    <3>5. b = Len(F)
      <4> SUFFICES ASSUME b # Len(F) PROVE FALSE
        OBVIOUS
      <4>1. wire[n].at < Len(sent[Conn][wire[n].frame])
        BY <3>4
      <4>2. n < Len(wire) /\ wire[n + 1].frame = k
        BY <1>1, <1>15, <3>4, <4>1 DEF WireInv, Fits
      <4>3. 1 \in 1..(Len(wire) - n)
        BY <1>4, <4>2
      <4>4. wire'[1] = wire[n + 1] /\ 1 \in DOMAIN wire' /\ n + 1 \in 1..Len(wire)
        BY <1>5, <4>3
      <4>5. wire[n + 1].conn = c
        BY <1>1, <3>2, <4>4, OnWire
      <4> QED BY <4>2, <4>4, <4>5 DEF Touched
    <3>6. accepted' = Append(accepted, F)
      BY <3>4, <3>5
    <3>7. /\ Append(accepted, F)[Len(accepted) + 1] = F
          /\ Len(accepted) + 1 \in DOMAIN Append(accepted, F)
      BY <1>1 DEF StreamTypes
    <3> QED BY <3>2, <3>4, <3>6, <3>7 DEF Range
  <2> QED BY <2>1, <2>2
<1> QED BY <1>10, <1>11, <1>14, <1>17, <1>19, <1>20 DEF StreamInv

LEMMA FramingInductive == StreamSpec => []StreamInv
<1>1. StreamInv /\ [StreamNext]_streamVars => StreamInv'
  <2>1. ASSUME StreamInv, UNCHANGED streamVars PROVE StreamInv'
    BY <2>1 DEF StreamInv, StreamTypes, StreamTypeOK, WireInv, PartInv, OriginInv,
                NoMixedConnections, CleanFramesArrive, Conn, Frames, Cells, streamVars
  <2> QED BY <2>1, SendKeeps, ReadKeeps, ReconnectKeeps DEF StreamNext
<1> QED BY <1>1, FramingInit, PTL DEF StreamSpec

-----------------------------------------------------------------------------
(* What is acted on is a stretch of one connection's bytes *)

\* In the stream of the messages ss of each connection, cell y comes after x.
Follows(ss, x, y) ==
  /\ x.conn = y.conn
  /\ \/ y.frame = x.frame /\ y.at = x.at + 1
     \/ y.frame = x.frame + 1 /\ y.at = 1 /\ x.at = Len(ss[x.conn][x.frame])

Stretch(ss, q) == \A i \in 1..Len(q) : i < Len(q) => Follows(ss, q[i], q[i + 1])

\* The last cell sent.
Latest(ss, x) ==
  x.conn = Len(ss) /\ x.frame = Len(ss[x.conn]) /\ x.at = Len(ss[x.conn][x.frame])

\* How many cells of connection c firstData keeps.
Kept(d, c) == IF d # <<>> /\ d[1].conn = c THEN Len(d) ELSE 0

\* The cells of connection c that wait to be acted on or dropped.
Waiting(d, w, c) == IF d # <<>> /\ d[1].conn = c THEN d \o w ELSE w

Sent(q) == \A i \in 1..Len(q) : <<q[i].conn, q[i].frame>> \in Frames

StretchInv ==
  /\ Stretch(sent, Waiting(firstData, wire, Conn))
  /\ \A i \in 1..Len(Waiting(firstData, wire, Conn)) :
       i = Len(Waiting(firstData, wire, Conn)) => Latest(sent, Waiting(firstData, wire, Conn)[i])
  /\ \A i \in 1..Len(accepted) :
       Sent(accepted[i]) /\ Stretch(sent, accepted[i]) /\ analysisAccepts(Bytes(accepted[i]))

\* What the app acts on is an unbroken run of the bytes of one connection that has
\* the header, the length and the checksum of a message.
ActsOnStretches ==
  \A m \in Range(accepted) : Stretch(sent, m) /\ analysisAccepts(Bytes(m))

\* Part x of q is taken from place p on.
Part(x, q, p) == \A i \in 1..Len(x) : p + i \in 1..Len(q) /\ x[i] = q[p + i]

LEMMA StretchPart ==
  ASSUME NEW ss, NEW q \in Seq(Cell), NEW v \in Seq(Cell), NEW o \in Nat, Stretch(ss, q),
         Part(v, q, o)
  PROVE  Stretch(ss, v)
<1> SUFFICES ASSUME NEW i \in 1..Len(v), i < Len(v) PROVE Follows(ss, v[i], v[i + 1])
  BY DEF Stretch
<1>0. \A j \in 1..Len(v) : o + j \in 1..Len(q) /\ v[j] = q[o + j]
  BY DEF Part
<1>1. Len(q) \in Nat /\ Len(v) \in Nat
  OBVIOUS
<1>2. PICK p \in 1..Len(q) : p = o + i
  BY <1>0
<1>3. i + 1 \in 1..Len(v) /\ o + (i + 1) = p + 1
  BY <1>1, <1>2
<1>4. p + 1 \in 1..Len(q) /\ v[i + 1] = q[p + 1]
  <2>1. o + (i + 1) \in 1..Len(q) /\ v[i + 1] = q[o + (i + 1)]
    BY <1>0, <1>3
  <2> QED BY ONLY <1>3, <2>1, Zenon
<1>5. p < Len(q) /\ v[i] = q[p]
  BY <1>0, <1>1, <1>2, <1>4
<1> QED BY <1>4, <1>5 DEF Stretch

LEMMA WaitingShape ==
  ASSUME NEW d \in Seq(Cell), NEW w \in Seq(Cell), NEW c
  PROVE  /\ Waiting(d, w, c) \in Seq(Cell) /\ Kept(d, c) \in Nat
         /\ Len(Waiting(d, w, c)) = Kept(d, c) + Len(w) /\ Len(w) \in Nat
         /\ \A i \in 1..Kept(d, c) : i \in 1..Len(d) /\ Waiting(d, w, c)[i] = d[i]
         /\ \A i \in 1..Len(w) : Waiting(d, w, c)[Kept(d, c) + i] = w[i]
<1>1. Len(d) \in Nat /\ Len(w) \in Nat
  OBVIOUS
<1>2. CASE d # <<>> /\ d[1].conn = c
  <2> DEFINE q == d \o w
  <2>1. Waiting(d, w, c) = q
    BY <1>2 DEF Waiting
  <2>2. /\ q \in Seq(Cell) /\ Len(q) = Len(d) + Len(w)
        /\ \A i \in 1..(Len(d) + Len(w)) : q[i] = IF i <= Len(d) THEN d[i] ELSE w[i - Len(d)]
    BY Glued
  <2> HIDE DEF q
  <2>3. \A i \in 1..Len(d) : q[i] = d[i]
    BY <1>1, <2>2
  <2>4. \A i \in 1..Len(w) : q[Len(d) + i] = w[i]
    <3> SUFFICES ASSUME NEW i \in 1..Len(w) PROVE q[Len(d) + i] = w[i]
      OBVIOUS
    <3>1. PICK l \in Nat : l = Len(d)
      BY <1>1
    <3>2. l + i \in 1..(l + Len(w)) /\ ~(l + i <= l) /\ (l + i) - l = i
      BY <1>1
    <3> QED BY <2>2, <3>1, <3>2
  <2>5. Kept(d, c) = Len(d)
    BY <1>2 DEF Kept
  <2> QED BY <1>1, <2>1, <2>2, <2>3, <2>4, <2>5
<1>3. CASE ~(d # <<>> /\ d[1].conn = c)
  <2>1. Waiting(d, w, c) = w
    BY <1>3 DEF Waiting
  <2>2. Kept(d, c) = 0
    BY <1>3 DEF Kept
  <2> QED BY <1>1, <2>1, <2>2
<1> QED BY <1>2, <1>3

\* Messages that were sent stay as they are.
LEMMA SentStays ==
  ASSUME StreamInv, StreamNext, NEW c, NEW k, <<c, k>> \in Frames
  PROVE  /\ <<c, k>> \in Frames' /\ sent'[c][k] = sent[c][k]
         /\ c \in 1..Conn' /\ k \in DOMAIN sent'[c]
<1>1. StreamTypes
  BY DEF StreamInv
<1>2. c \in 1..Conn /\ k \in DOMAIN sent[c] /\ Conn \in Nat
  BY <1>1, FramesAre DEF StreamTypes
<1>3. sent \in Seq(Seq(Messages)) /\ Conn = Len(sent) /\ Conn \in 1..Len(sent)
  BY <1>1 DEF StreamTypes, Conn
<1>4. c \in 1..Conn' /\ k \in DOMAIN sent'[c] /\ sent'[c][k] = sent[c][k]
  <2>1. CASE RobotSends
    <3>1. PICK m \in Messages : sent' = [sent EXCEPT ![Conn] = Append(@, m)]
      BY <2>1 DEF RobotSends
    <3>2. Conn' = Conn
      BY <1>3, <3>1 DEF Conn
    <3>3. CASE c = Conn
      <4>1. sent[c] \in Seq(Messages) /\ sent'[c] = Append(sent[c], m)
        BY <1>3, <3>1, <3>3
      <4> QED BY <1>2, <3>2, <4>1
    <3>4. CASE c # Conn
      <4>1. sent'[c] = sent[c]
        BY <1>2, <1>3, <3>1, <3>4
      <4> QED BY <1>2, <3>2, <4>1
    <3> QED BY <3>3, <3>4
  <2>2. CASE channelRead
    <3>1. sent' = sent
      BY <2>2 DEF channelRead
    <3> QED BY <1>2, <3>1 DEF Conn
  <2>3. CASE Reconnect
    <3>1. sent' = Append(sent, <<>>)
      BY <2>3 DEF Reconnect
    <3>2. sent'[c] = sent[c] /\ Conn' = Conn + 1
      BY <1>2, <1>3, <3>1 DEF Conn
    <3> QED BY <1>2, <3>2
  <2> QED BY <2>1, <2>2, <2>3 DEF StreamNext
<1> QED BY <1>4 DEF Frames

LEMMA StretchStays ==
  ASSUME StreamInv, StreamNext, NEW q \in Seq(Cell), Sent(q), Stretch(sent, q)
  PROVE  Stretch(sent', q)
<1> SUFFICES ASSUME NEW i \in 1..Len(q), i < Len(q) PROVE Follows(sent', q[i], q[i + 1])
  BY DEF Stretch
<1>1. Follows(sent, q[i], q[i + 1]) /\ <<q[i].conn, q[i].frame>> \in Frames
  BY DEF Stretch, Sent
<1>2. sent'[q[i].conn][q[i].frame] = sent[q[i].conn][q[i].frame]
  BY <1>1, SentStays
<1> QED BY <1>1, <1>2 DEF Follows

\* What was acted on stays what it was.
LEMMA ActedOnStays ==
  ASSUME StreamInv, StreamNext, NEW m \in Seq(Cell), Sent(m), Stretch(sent, m)
  PROVE  (\A i \in 1..Len(m) : <<m[i].conn, m[i].frame>> \in Frames') /\ Stretch(sent', m)
<1>1. \A i \in 1..Len(m) : <<m[i].conn, m[i].frame>> \in Frames'
  BY SentStays DEF Sent
<1> QED BY <1>1, StretchStays

LEMMA StretchInit == StreamInit => StretchInv
<1> SUFFICES ASSUME StreamInit PROVE StretchInv
  OBVIOUS
<1>1. wire = <<>> /\ firstData = <<>> /\ accepted = <<>>
  BY DEF StreamInit
<1>2. Waiting(firstData, wire, Conn) = <<>>
  BY <1>1 DEF Waiting
<1> QED BY <1>1, <1>2 DEF StretchInv, Stretch

\* The accepted messages' part of a step that accepts none.
LEMMA ActedOnSame ==
  ASSUME StreamInv, StretchInv, StreamNext, accepted' = accepted
  PROVE  \A i \in 1..Len(accepted') :
           /\ \A j \in 1..Len(accepted'[i]) : <<accepted'[i][j].conn, accepted'[i][j].frame>> \in Frames'
           /\ Stretch(sent', accepted'[i]) /\ analysisAccepts(Bytes(accepted'[i]))
<1>1. \A i \in 1..Len(accepted) : accepted[i] \in Seq(Cell)
  BY DEF StreamInv, StreamTypes
<1> QED BY <1>1, ActedOnStays DEF StretchInv

LEMMA WaitingSent ==
  ASSUME StreamInv, NEW q, q = Waiting(firstData, wire, Conn)
  PROVE  /\ q \in Seq(Cell) /\ Sent(q) /\ Kept(firstData, Conn) \in Nat
         /\ Len(q) = Kept(firstData, Conn) + Len(wire) /\ Len(wire) \in Nat
         /\ \A i \in 1..Kept(firstData, Conn) : i \in 1..Len(firstData) /\ q[i] = firstData[i]
         /\ \A i \in 1..Len(wire) : q[Kept(firstData, Conn) + i] = wire[i]
<1>1. firstData \in Seq(Cell) /\ wire \in Seq(Cell) /\ StreamTypeOK
  BY DEF StreamInv, StreamTypes
<1>2. /\ q \in Seq(Cell) /\ Kept(firstData, Conn) \in Nat
      /\ Len(q) = Kept(firstData, Conn) + Len(wire) /\ Len(wire) \in Nat
      /\ \A i \in 1..Kept(firstData, Conn) : i \in 1..Len(firstData) /\ q[i] = firstData[i]
      /\ \A i \in 1..Len(wire) : q[Kept(firstData, Conn) + i] = wire[i]
  <2> DEFINE x == Waiting(firstData, wire, Conn)
  <2>1. firstData \in Seq(Cell) /\ wire \in Seq(Cell)
    BY <1>1
  <2>2. /\ x \in Seq(Cell) /\ Kept(firstData, Conn) \in Nat
        /\ Len(x) = Kept(firstData, Conn) + Len(wire) /\ Len(wire) \in Nat
        /\ \A i \in 1..Kept(firstData, Conn) : i \in 1..Len(firstData) /\ x[i] = firstData[i]
        /\ \A i \in 1..Len(wire) : x[Kept(firstData, Conn) + i] = wire[i]
    BY ONLY <2>1, WaitingShape, SMTT(60)
  <2>3. q = x
    OBVIOUS
  <2> HIDE DEF x
  <2> QED BY <2>2, <2>3
<1>3. PICK f \in Nat : f = Kept(firstData, Conn)
  BY <1>2
<1>4. ASSUME NEW i \in 1..Len(q) PROVE <<q[i].conn, q[i].frame>> \in Frames
  <2>1. CASE i <= f
    <3>1. i \in 1..f
      BY <1>2, <1>3, <2>1
    <3>2. i \in DOMAIN firstData /\ q[i] = firstData[i]
      BY <1>1, <1>2, <1>3, <3>1
    <3> QED BY <1>1, <3>2 DEF StreamTypeOK
  <2>2. CASE ~(i <= f)
    <3>1. PICK j \in 1..Len(wire) : f + j = i
      <4>1. i - f \in 1..Len(wire) /\ f + (i - f) = i
        BY <1>2, <1>3, <2>2
      <4> QED BY <4>1
    <3>2. j \in DOMAIN wire /\ q[i] = wire[j]
      <4>1. q[f + j] = wire[j] /\ j \in DOMAIN wire
        BY <1>1, <1>2, <1>3
      <4> QED BY ONLY <3>1, <4>1, Zenon
    <3> QED BY <1>1, <3>2 DEF StreamTypeOK
  <2> QED BY <2>1, <2>2
<1> QED BY <1>2, <1>4 DEF Sent

LEMMA SendStretch == StreamInv /\ StretchInv /\ RobotSends => StretchInv'
<1> SUFFICES ASSUME StreamInv, StretchInv, RobotSends PROVE StretchInv'
  OBVIOUS
<1>1. PICK m \in Messages : /\ sent' = [sent EXCEPT ![Conn] = Append(@, m)]
                            /\ wire' = wire \o CellsOf(m, Conn, Len(sent[Conn]) + 1)
  BY DEF RobotSends
<1>2. /\ StreamTypes /\ StreamNext /\ firstData' = firstData /\ accepted' = accepted
      /\ firstData \in Seq(Cell) /\ wire \in Seq(Cell)
  BY DEF StreamInv, StreamNext, RobotSends, StreamTypes
<1>3. /\ Conn \in 1..Len(sent) /\ sent[Conn] \in Seq(Messages) /\ Len(sent[Conn]) \in Nat /\ Conn \in Nat
      /\ Conn = Len(sent)
  BY <1>2 DEF StreamTypes, Conn
<1>4. PICK k \in Nat : k = Len(sent[Conn]) + 1
  BY <1>3
<1>5. /\ Conn' = Conn /\ Len(sent') = Conn /\ Len(sent'[Conn]) = k /\ sent'[Conn][k] = m
  BY <1>1, <1>2, <1>3, <1>4 DEF StreamTypes, Conn
<1> DEFINE c == CellsOf(m, Conn, k)
           q == Waiting(firstData, wire, Conn)
           v == q \o c
<1>6. /\ c \in Seq(Cell) /\ Len(c) = Len(m) /\ Len(m) \in Nat /\ Len(m) > 2
      /\ \A i \in 1..Len(m) : c[i].frame = k /\ c[i].at = i /\ c[i].conn = Conn
  <2>1. Len(m) \in Nat /\ Len(m) > 2
    BY MessageShape
  <2>2. /\ c \in Seq(Cell) /\ Len(c) = Len(m)
        /\ \A i \in 1..Len(m) : c[i].frame = k /\ c[i].at = i /\ c[i].conn = Conn
    BY <1>3, CellsShape
  <2> QED BY <2>1, <2>2
<1>7. q \in Seq(Cell) /\ Sent(q) /\ Stretch(sent, q) /\ Stretch(sent', q)
  <2>1. q \in Seq(Cell) /\ Sent(q) /\ Stretch(sent, q)
    BY WaitingSent DEF StretchInv
  <2> QED BY <1>2, <2>1, StretchStays
<1>8. Waiting(firstData', wire', Conn') = v
  <2>1. wire' = wire \o c
    BY <1>1, <1>4
  <2> HIDE DEF c
  <2>2. firstData \o (wire \o c) = (firstData \o wire) \o c
    BY <1>2, <1>6, ConcatAssociative
  <2> QED BY <1>2, <1>5, <2>1, <2>2 DEF Waiting
<1>9. \A i \in 1..Len(q) : i = Len(q) => Latest(sent, q[i])
  BY DEF StretchInv
<1> HIDE DEF c, q
<1>10. /\ v \in Seq(Cell) /\ Len(v) = Len(q) + Len(m) /\ Len(q) \in Nat
       /\ \A i \in 1..(Len(q) + Len(m)) : v[i] = IF i <= Len(q) THEN q[i] ELSE c[i - Len(q)]
  <2>1. q \in Seq(Cell) /\ c \in Seq(Cell) /\ Len(c) = Len(m)
    BY <1>6, <1>7
  <2>2. /\ v \in Seq(Cell) /\ Len(v) = Len(q) + Len(c) /\ Len(q) \in Nat
        /\ \A i \in 1..(Len(q) + Len(c)) : v[i] = IF i <= Len(q) THEN q[i] ELSE c[i - Len(q)]
    BY <2>1, Glued
  <2> QED BY <2>1, <2>2
<1> HIDE DEF v
<1>11. /\ \A i \in 1..Len(q) : v[i] = q[i]
       /\ \A l \in 1..Len(m) : v[Len(q) + l] = c[l]
  <2>1. PICK z \in Nat : z = Len(q)
    BY <1>10
  <2>2. \A i \in 1..z : i \in 1..(z + Len(m)) /\ i <= z
    BY <1>6
  <2>3. \A l \in 1..Len(m) : z + l \in 1..(z + Len(m)) /\ ~(z + l <= z) /\ (z + l) - z = l
    BY <1>6
  <2> QED BY <1>10, <2>1, <2>2, <2>3
<1>12. Stretch(sent', v)
  <2> SUFFICES ASSUME NEW i \in 1..Len(v), i < Len(v) PROVE Follows(sent', v[i], v[i + 1])
    BY DEF Stretch
  <2>1. PICK z \in Nat : z = Len(q)
    BY <1>10
  <2>2. CASE i < z
    <3>1. i \in 1..Len(q) /\ i + 1 \in 1..Len(q) /\ i < Len(q)
      BY <2>1, <2>2
    <3> QED BY <1>7, <1>11, <3>1 DEF Stretch
  <2>3. CASE i = z
    <3>1. i \in 1..Len(q) /\ i = Len(q) /\ 1 \in 1..Len(m) /\ i + 1 = z + 1
      BY <1>6, <2>1, <2>3
    <3>2. v[i] = q[i] /\ v[i + 1] = c[1]
      BY <1>11, <2>1, <3>1
    <3>3. q[i].conn = Conn /\ q[i].frame = Len(sent[Conn]) /\ q[i].at = Len(sent[Conn][q[i].frame])
      BY <1>3, <1>9, <3>1 DEF Latest
    <3>4. <<Conn, q[i].frame>> \in Frames
      BY <1>7, <3>1, <3>3 DEF Sent
    <3>5. sent'[Conn][q[i].frame] = sent[Conn][q[i].frame]
      BY <1>2, <3>4, SentStays
    <3>6. c[1].conn = Conn /\ c[1].frame = q[i].frame + 1 /\ c[1].at = 1
      BY <1>4, <1>6, <3>1, <3>3
    <3> QED BY <3>2, <3>3, <3>5, <3>6 DEF Follows
  <2>4. CASE i > z
    <3>1. PICK l \in 1..Len(m) : i = z + l /\ l + 1 \in 1..Len(m) /\ i + 1 = z + (l + 1)
      <4>1. i \in 1..(z + Len(m)) /\ i < z + Len(m)
        BY <1>10, <2>1
      <4>2. i - z \in 1..Len(m) /\ i = z + (i - z) /\ (i - z) + 1 \in 1..Len(m) /\ i + 1 = z + ((i - z) + 1)
        BY <1>6, <2>4, <4>1
      <4> QED BY <4>2
    <3>2. v[i] = c[l] /\ v[i + 1] = c[l + 1]
      <4>1. v[z + l] = c[l] /\ v[z + (l + 1)] = c[l + 1]
        BY <1>11, <2>1, <3>1
      <4> QED BY ONLY <3>1, <4>1, Zenon
    <3> QED BY <1>6, <3>1, <3>2 DEF Follows
  <2> QED BY <2>1, <2>2, <2>3, <2>4
<1>13. \A i \in 1..Len(v) : i = Len(v) => Latest(sent', v[i])
  <2>1. Len(m) \in 1..Len(m)
    BY <1>6
  <2>2. v[Len(v)] = c[Len(m)]
    BY <1>10, <1>11, <2>1
  <2>3. Latest(sent', c[Len(m)])
    BY <1>5, <1>6, <2>1 DEF Latest
  <2> QED BY <2>2, <2>3
<1> QED BY <1>2, <1>8, <1>12, <1>13, ActedOnSame DEF StretchInv, Sent

\* What an earlier connection left is no longer waited for.
LEMMA ReconnectDrops ==
  ASSUME StreamInv, Reconnect
  PROVE  Waiting(firstData', wire', Conn') = <<>>
<1>1. /\ StreamTypes /\ StreamTypeOK /\ wire' = <<>> /\ sent' = Append(sent, <<>>)
      /\ firstData' = firstData
  BY DEF StreamInv, Reconnect
<1>2. Conn' = Conn + 1 /\ Conn \in Nat
  BY <1>1 DEF StreamTypes, Conn
<1>3. firstData # <<>> => firstData[1].conn # Conn'
  <2> SUFFICES ASSUME firstData # <<>> PROVE firstData[1].conn # Conn'
    OBVIOUS
  <2>1. 1 \in DOMAIN firstData
    BY <1>1 DEF StreamTypes
  <2>2. <<firstData[1].conn, firstData[1].frame>> \in Frames
    BY <1>1, <2>1 DEF StreamTypeOK
  <2>3. firstData[1].conn \in 1..Conn
    BY <2>2, FramesAre
  <2> QED BY <1>2, <2>3
<1> QED BY <1>1, <1>3 DEF Waiting

LEMMA ReconnectStretch == StreamInv /\ StretchInv /\ Reconnect => StretchInv'
<1> SUFFICES ASSUME StreamInv, StretchInv, Reconnect PROVE StretchInv'
  OBVIOUS
<1>1. StreamNext /\ accepted' = accepted /\ Waiting(firstData', wire', Conn') = <<>>
  BY ReconnectDrops DEF StreamNext, Reconnect
<1>2. Stretch(sent', <<>>) /\ Len(<<>>) = 0
  BY DEF Stretch
<1> QED BY <1>1, <1>2, ActedOnSame DEF StretchInv, Sent

\* The first o of the waiting cells wait no longer, and what is acted on, if
\* anything, is among them.
Takes(o) ==
  LET q == Waiting(firstData, wire, Conn)
  IN /\ Len(Waiting(firstData', wire', Conn')) + o = Len(q)
     /\ Part(Waiting(firstData', wire', Conn'), q, o)
     /\ \/ accepted' = accepted
        \/ \E x \in Seq(Cell), p \in Nat :
             /\ accepted' = Append(accepted, x) /\ analysisAccepts(Bytes(x))
             /\ Part(x, q, p) /\ p + Len(x) <= o

\* A read takes a chunk off the front of the waiting cells, or keeps it there.
LEMMA ReadTakesFront == ASSUME StreamInv, channelRead PROVE \E o \in Nat : Takes(o)
<1>1. StreamTypes /\ WireInv /\ OriginInv
  BY DEF StreamInv
<1>2. PICK n \in 1..Len(wire), s \in Seq(Cell) : Read(n, s)
  BY <1>1, ReadParts
<1>3. /\ firstData \in Seq(Cell) /\ wire \in Seq(Cell) /\ accepted \in Seq(Seq(Cell))
      /\ n \in Nat /\ n <= Len(wire) /\ Len(s) = n
      /\ \A i \in 1..n : s[i] = wire[i] /\ i \in 1..Len(wire)
      /\ wire' \in Seq(Cell) /\ Len(wire') = Len(wire) - n
      /\ \A i \in 1..(Len(wire) - n) : wire'[i] = wire[n + i] /\ n + i \in 1..Len(wire)
      /\ onMessageResponseClient(s) /\ sent' = sent /\ Conn' = Conn /\ Frames' = Frames
      /\ wire # <<>>
  BY <1>1, <1>2 DEF StreamTypes, Read, Frames, Conn
<1> DEFINE q == Waiting(firstData, wire, Conn)
           v == Waiting(firstData', wire', Conn')
<1>4. /\ q \in Seq(Cell) /\ Kept(firstData, Conn) \in Nat
      /\ Len(q) = Kept(firstData, Conn) + Len(wire) /\ Len(wire) \in Nat
      /\ \A i \in 1..Kept(firstData, Conn) : i \in 1..Len(firstData) /\ q[i] = firstData[i]
      /\ \A i \in 1..Len(wire) : q[Kept(firstData, Conn) + i] = wire[i]
  BY WaitingSent
<1> HIDE DEF q
<1>6. PICK f \in Nat : f = Kept(firstData, Conn)
  BY <1>4
<1>7. /\ Len(q) = f + Len(wire)
      /\ \A i \in 1..f : i \in 1..Len(firstData) /\ q[i] = firstData[i]
      /\ \A i \in 1..Len(wire) : q[f + i] = wire[i]
  BY <1>4, <1>6
\* The chunk, and the chunk with what was kept before it, are parts of q.
<1>8. \A i \in 1..n : f + i \in 1..Len(q) /\ s[i] = q[f + i]
  <2>1. \A i \in 1..n : f + i \in 1..(f + Len(wire)) /\ i \in 1..Len(wire)
    BY <1>3, <1>4
  <2> QED BY <1>3, <1>7, <2>1
<1>9. ASSUME ~startsWithB1(Bytes(s))
      PROVE  /\ f = Len(firstData)
             /\ firstData \o s \in Seq(Cell) /\ Len(firstData \o s) = f + n
             /\ \A i \in 1..(f + n) : 0 + i \in 1..Len(q) /\ (firstData \o s)[i] = q[0 + i]
  <2>1. firstData = <<>> \/ firstData[1].conn = Conn
    <3>1. wire[1].at # 1
      BY <1>1, <1>2, <1>9, StartSeen
    <3> QED BY <1>1, <1>3, <3>1 DEF OriginInv
  <2>2. f = Len(firstData)
    <3>1. CASE firstData = <<>>
      BY <1>6, <3>1 DEF Kept
    <3>2. CASE firstData # <<>>
      BY <1>6, <2>1, <3>2 DEF Kept
    <3> QED BY <3>1, <3>2
  <2>3. /\ firstData \o s \in Seq(Cell) /\ Len(firstData \o s) = Len(firstData) + Len(s)
        /\ \A i \in 1..(Len(firstData) + Len(s)) :
             (firstData \o s)[i] = IF i <= Len(firstData) THEN firstData[i] ELSE s[i - Len(firstData)]
    <3>1. firstData \in Seq(Cell)
      BY <1>3
    <3> QED BY <3>1, Glued
  <2>4. \A i \in 1..(f + n) : (firstData \o s)[i] = IF i <= f THEN firstData[i] ELSE s[i - f]
    BY <1>3, <2>2, <2>3
  <2>5. ASSUME NEW i \in 1..(f + n) PROVE 0 + i \in 1..Len(q) /\ (firstData \o s)[i] = q[0 + i]
    <3>1. 0 + i = i /\ i \in 1..Len(q)
      BY <1>3, <1>4, <1>7
    <3>2. CASE i <= f
      <4>1. i \in 1..f
        BY <3>2
      <4> QED BY <1>7, <2>4, <3>1, <3>2, <4>1
    <3>3. CASE ~(i <= f)
      <4>1. PICK j \in 1..n : j = i - f /\ f + j = i
        <5>1. i - f \in 1..n /\ f + (i - f) = i
          BY <1>3, <3>3
        <5> QED BY <5>1
      <4>2. (firstData \o s)[i] = s[j]
        BY <2>4, <3>3, <4>1
      <4>3. s[j] = q[f + j]
        BY <1>8
      <4>4. (firstData \o s)[i] = q[i]
        BY ONLY <4>1, <4>2, <4>3, Zenon
      <4> QED BY <3>1, <4>4
    <3> QED BY <3>2, <3>3
  <2> QED BY <1>3, <2>2, <2>3, <2>5
<1>10. PICK d \in Seq(Cell) : d = firstData'
  BY ReadKeeps DEF StreamInv, StreamTypes
<1>11. \E o \in Nat : /\ Len(d) + o = f + n
                      /\ \A i \in 1..Len(d) : o + i \in 1..Len(q) /\ d[i] = q[o + i]
  <2>1. CASE d = <<>>
    <3>1. f + n \in Nat /\ Len(d) = 0
      BY <1>3, <2>1
    <3> QED BY <3>1
  <2>2. CASE d = s
    <3>1. Len(d) = n /\ n \in Nat
      BY <1>3, <2>2
    <3>2. Len(d) + f = f + n
      BY ONLY <3>1, f \in Nat
    <3> QED BY <1>8, <2>2, <3>1, <3>2
  <2>3. CASE ~startsWithB1(Bytes(s)) /\ d = firstData \o s
    <3>1. Len(d) = f + n /\ Len(d) + 0 = f + n /\ \A i \in 1..Len(d) : 0 + i \in 1..Len(q) /\ d[i] = q[0 + i]
      BY <1>3, <1>9, <2>3
    <3> QED BY <3>1
  <2>4. d = <<>> \/ d = s \/ (~startsWithB1(Bytes(s)) /\ d = firstData \o s)
    BY <1>3, <1>10 DEF onMessageResponseClient
  <2> QED BY <2>1, <2>2, <2>3, <2>4
<1>12. PICK o \in Nat : /\ Len(d) + o = f + n
                        /\ \A i \in 1..Len(d) : o + i \in 1..Len(q) /\ d[i] = q[o + i]
  BY <1>11
<1>13. Kept(d, Conn) = Len(d) /\ Len(d) \in Nat
  <2>1. \A i \in DOMAIN d : d[i].conn = Conn
    BY <1>1, <1>2, <1>10, KeptIsCurrent
  <2>2. CASE d = <<>>
    BY <2>2 DEF Kept
  <2>3. CASE d # <<>>
    <3>1. 1 \in DOMAIN d
      BY <2>3
    <3> QED BY <2>1, <2>3, <3>1 DEF Kept
  <2> QED BY <2>2, <2>3
<1>14. /\ v \in Seq(Cell) /\ Len(v) = Len(d) + Len(wire')
       /\ \A i \in 1..Len(d) : v[i] = d[i]
       /\ \A i \in 1..Len(wire') : v[Len(d) + i] = wire'[i]
  <2>1. v = Waiting(d, wire', Conn)
    BY <1>3, <1>10
  <2> HIDE DEF v
  <2>2. wire' \in Seq(Cell)
    BY <1>3
  <2>3. /\ Waiting(d, wire', Conn) \in Seq(Cell)
        /\ Len(Waiting(d, wire', Conn)) = Kept(d, Conn) + Len(wire')
        /\ \A i \in 1..Kept(d, Conn) : Waiting(d, wire', Conn)[i] = d[i]
        /\ \A i \in 1..Len(wire') : Waiting(d, wire', Conn)[Kept(d, Conn) + i] = wire'[i]
    BY <2>2, WaitingShape
  <2> QED BY <1>13, <2>1, <2>3
<1> HIDE DEF v
<1>15. PICK g \in Nat : g = Len(d)
  BY <1>13
<1>16. /\ g + o = f + n /\ Len(v) = g + (Len(wire) - n)
       /\ \A i \in 1..(Len(wire) - n) : v[g + i] = wire[n + i] /\ n + i \in 1..Len(wire)
       /\ \A i \in 1..g : o + i \in 1..Len(q) /\ v[i] = q[o + i]
  BY <1>3, <1>12, <1>14, <1>15
<1>17. Len(v) + o = Len(q)
  <2>1. PICK z \in Nat : z = Len(wire)
    BY <1>4
  <2>2. g + o = f + n /\ Len(v) = g + (z - n) /\ Len(q) = f + z /\ n \in Nat
    BY <1>3, <1>7, <1>16, <2>1
  <2>3. \A x, y \in Int : x = g + (z - n) /\ y = f + z => x + o = y
    BY ONLY <2>2, g \in Nat, o \in Nat, f \in Nat, z \in Nat
  <2>4. Len(v) \in Int /\ Len(q) \in Int
    BY <1>4, <1>14
  <2> QED BY ONLY <2>2, <2>3, <2>4
<1>18. ASSUME NEW i \in 1..Len(v) PROVE o + i \in 1..Len(q) /\ v[i] = q[o + i]
  <2>1. CASE i <= g
    <3>1. i \in 1..g
      BY <2>1
    <3> QED BY <1>16, <3>1
  <2>2. CASE ~(i <= g)
    <3>1. PICK j \in 1..(Len(wire) - n) : g + j = i
      <4>1. i - g \in 1..(Len(wire) - n) /\ g + (i - g) = i
        BY <1>3, <1>4, <1>16, <2>2
      <4> QED BY <4>1
    <3>2. v[i] = q[f + (n + j)]
      <4>1. v[g + j] = wire[n + j] /\ q[f + (n + j)] = wire[n + j]
        BY <1>7, <1>16
      <4> QED BY ONLY <3>1, <4>1, Zenon
    <3>3. f + (n + j) = o + i
      <4>1. g + o = f + n /\ n \in Int /\ j \in Int
        BY <1>3, <1>4, <1>16
      <4> QED BY ONLY <3>1, <4>1, g \in Nat, o \in Nat, f \in Nat
    <3>4. o + i \in 1..Len(q)
      BY <1>4, <1>17
    <3> QED BY ONLY <3>2, <3>3, <3>4, Zenon
  <2> QED BY <2>1, <2>2
<1>19. Part(v, q, o)
  BY <1>18 DEF Part
<1>20. CASE accepted' = accepted
  BY <1>3, <1>17, <1>19, <1>20 DEF Takes, q, v
<1>21. CASE accepted' # accepted
  <2>1. PICK x : /\ accepted' = Append(accepted, x) /\ analysisAccepts(Bytes(x)) /\ firstData' = <<>>
                 /\ x = s \/ (x = firstData \o s /\ ~startsWithB1(Bytes(s)))
    BY <1>3, <1>21 DEF onMessageResponseClient, analysisData
  <2>2. o = f + n
    <3>1. g = 0
      BY <1>10, <1>15, <2>1
    <3> QED BY <1>16, <3>1
  <2>3. \E p \in Nat : x \in Seq(Cell) /\ Part(x, q, p) /\ p + Len(x) <= o
    <3>1. CASE x = s
      <4>1. x \in Seq(Cell) /\ Part(x, q, f) /\ Len(x) = n
        BY <1>3, <1>8, <3>1 DEF Part
      <4>2. f + Len(x) <= o
        BY ONLY <2>2, <4>1, o \in Nat
      <4> QED BY <4>1, <4>2
    <3>2. CASE x = firstData \o s /\ ~startsWithB1(Bytes(s))
      <4>1. x \in Seq(Cell) /\ Part(x, q, 0) /\ Len(x) = f + n
        BY <1>9, <3>2 DEF Part
      <4>2. 0 + Len(x) <= o
        BY ONLY <2>2, <4>1, o \in Nat
      <4> QED BY <4>1, <4>2
    <3> QED BY <2>1, <3>1, <3>2
  <2> QED BY <1>3, <1>17, <1>19, <2>1, <2>3 DEF Takes, q, v
<1> QED BY <1>20, <1>21

LEMMA ReadStretch == StreamInv /\ StretchInv /\ channelRead => StretchInv'
<1> SUFFICES ASSUME StreamInv, StretchInv, channelRead PROVE StretchInv'
  OBVIOUS
<1>1. /\ StreamNext /\ sent' = sent /\ Frames' = Frames /\ Conn' = Conn
      /\ accepted \in Seq(Seq(Cell))
  BY DEF StreamNext, channelRead, Frames, Conn, StreamInv, StreamTypes
<1> DEFINE q == Waiting(firstData, wire, Conn)
           v == Waiting(firstData', wire', Conn')
<1>2. /\ q \in Seq(Cell) /\ Sent(q) /\ Stretch(sent, q)
      /\ \A i \in 1..Len(q) : i = Len(q) => Latest(sent, q[i])
  BY WaitingSent DEF StretchInv
<1>3. v \in Seq(Cell)
  <2>1. firstData' \in Seq(Cell) /\ wire' \in Seq(Cell)
    BY ReadKeeps DEF StreamInv, StreamTypes
  <2> QED BY <2>1, WaitingShape
<1>4. PICK o \in Nat :
        /\ Len(v) + o = Len(q) /\ Part(v, q, o)
        /\ \/ accepted' = accepted
           \/ \E x \in Seq(Cell), p \in Nat :
                /\ accepted' = Append(accepted, x) /\ analysisAccepts(Bytes(x))
                /\ Part(x, q, p) /\ p + Len(x) <= o
  BY ReadTakesFront DEF Takes
<1> HIDE DEF q, v
<1>5. Stretch(sent', v)
  BY <1>1, <1>2, <1>3, <1>4, StretchPart
<1>6. \A i \in 1..Len(v) : i = Len(v) => Latest(sent', v[i])
  <2> SUFFICES ASSUME NEW i \in 1..Len(v), i = Len(v) PROVE Latest(sent, v[i])
    BY <1>1
  <2>1. o + i \in 1..Len(q) /\ v[i] = q[o + i]
    BY <1>4 DEF Part
  <2>2. o + i = Len(q)
    BY <1>3, <1>4
  <2> QED BY <1>2, <2>1, <2>2
<1>7. \A i \in 1..Len(accepted') :
         /\ \A j \in 1..Len(accepted'[i]) : <<accepted'[i][j].conn, accepted'[i][j].frame>> \in Frames'
         /\ Stretch(sent', accepted'[i]) /\ analysisAccepts(Bytes(accepted'[i]))
  <2>1. CASE accepted' = accepted
    BY <1>1, <2>1, ActedOnSame
  <2>2. ASSUME NEW x \in Seq(Cell), NEW p \in Nat, accepted' = Append(accepted, x),
               analysisAccepts(Bytes(x)), Part(x, q, p)
        PROVE  \A i \in 1..Len(accepted') :
                 /\ \A j \in 1..Len(accepted'[i]) :
                      <<accepted'[i][j].conn, accepted'[i][j].frame>> \in Frames'
                 /\ Stretch(sent', accepted'[i]) /\ analysisAccepts(Bytes(accepted'[i]))
    <3>1. Sent(x) /\ Stretch(sent, x)
      <4>1. Stretch(sent, x)
        BY <1>2, <2>2, StretchPart
      <4> QED BY <1>2, <2>2, <4>1 DEF Sent, Part
    <3>2. /\ \A i \in 1..Len(accepted) : accepted'[i] = accepted[i]
          /\ \A i \in 1..Len(accepted') : i \in 1..Len(accepted) \/ accepted'[i] = x
      BY <1>1, <2>2, <3>1
    <3>3. ASSUME NEW i \in 1..Len(accepted'), accepted'[i] = x
          PROVE  /\ \A j \in 1..Len(accepted'[i]) :
                      <<accepted'[i][j].conn, accepted'[i][j].frame>> \in Frames'
                 /\ Stretch(sent', accepted'[i]) /\ analysisAccepts(Bytes(accepted'[i]))
      BY <1>1, <2>2, <3>1, <3>3 DEF Sent
    <3>4. ASSUME NEW i \in 1..Len(accepted)
          PROVE  /\ \A j \in 1..Len(accepted[i]) :
                      <<accepted[i][j].conn, accepted[i][j].frame>> \in Frames'
                 /\ Stretch(sent', accepted[i]) /\ analysisAccepts(Bytes(accepted[i]))
      BY <1>1, <3>4 DEF StretchInv, Sent
    <3> QED BY <3>2, <3>3, <3>4
  <2> QED BY <1>4, <2>1, <2>2
<1> QED BY <1>5, <1>6, <1>7 DEF StretchInv, Sent, v

LEMMA StretchInductive == StreamSpec => []StretchInv
<1>1. StreamInv /\ StretchInv /\ [StreamNext]_streamVars => StretchInv'
  <2>1. ASSUME StretchInv, UNCHANGED streamVars PROVE StretchInv'
    <3>1. sent' = sent /\ wire' = wire /\ firstData' = firstData /\ accepted' = accepted
      BY <2>1 DEF streamVars
    <3>2. Conn' = Conn /\ Frames' = Frames
      BY <3>1 DEF Conn, Frames
    <3> QED BY <2>1, <3>1, <3>2 DEF StretchInv, Sent
  <2> QED BY <2>1, SendStretch, ReadStretch, ReconnectStretch DEF StreamNext
<1> QED BY <1>1, StretchInit, FramingInductive, PTL DEF StreamSpec

-----------------------------------------------------------------------------
(* What is acted on is a frame: the bytes of a run, and where they come from *)

\* The cells of q are cells of the messages ss of each connection.
Genuine(ss, q) ==
  \A i \in 1..Len(q) :
    /\ q[i].conn \in 1..Len(ss) /\ q[i].frame \in DOMAIN ss[q[i].conn]
    /\ q[i].at \in 1..Len(ss[q[i].conn][q[i].frame])
    /\ q[i] = CellsOf(ss[q[i].conn][q[i].frame], q[i].conn, q[i].frame)[q[i].at]

GenuineInv == Genuine(sent, firstData) /\ \A i \in 1..Len(accepted) : Genuine(sent, accepted[i])

LEMMA GenuineStays ==
  ASSUME StreamInv, StreamNext, NEW q \in Seq(Cell), Genuine(sent, q)
  PROVE  Genuine(sent', q)
<1> SUFFICES ASSUME NEW i \in 1..Len(q)
             PROVE  /\ q[i].conn \in 1..Len(sent') /\ q[i].frame \in DOMAIN sent'[q[i].conn]
                    /\ q[i].at \in 1..Len(sent'[q[i].conn][q[i].frame])
                    /\ q[i] = CellsOf(sent'[q[i].conn][q[i].frame], q[i].conn, q[i].frame)[q[i].at]
  BY DEF Genuine
<1>1. /\ q[i].conn \in 1..Conn /\ q[i].frame \in DOMAIN sent[q[i].conn]
      /\ q[i].at \in 1..Len(sent[q[i].conn][q[i].frame])
      /\ q[i] = CellsOf(sent[q[i].conn][q[i].frame], q[i].conn, q[i].frame)[q[i].at]
  BY DEF Genuine, Conn
<1>2. <<q[i].conn, q[i].frame>> \in Frames
  BY <1>1, FramesAre
<1>3. /\ q[i].conn \in 1..Conn' /\ q[i].frame \in DOMAIN sent'[q[i].conn]
      /\ sent'[q[i].conn][q[i].frame] = sent[q[i].conn][q[i].frame]
  BY <1>2, SentStays
<1> QED BY <1>1, <1>3 DEF Conn

LEMMA GenuineOnWire ==
  ASSUME StreamTypes, WireInv, NEW i \in 1..Len(wire)
  PROVE  /\ wire[i].conn \in 1..Len(sent) /\ wire[i].frame \in DOMAIN sent[wire[i].conn]
         /\ wire[i].at \in 1..Len(sent[wire[i].conn][wire[i].frame])
         /\ wire[i] = CellsOf(sent[wire[i].conn][wire[i].frame], wire[i].conn, wire[i].frame)[wire[i].at]
<1>1. /\ wire[i].conn = Conn /\ wire[i].frame \in DOMAIN sent[Conn]
      /\ wire[i].at \in 1..Len(sent[Conn][wire[i].frame])
      /\ wire[i] = Cells(Conn, wire[i].frame)[wire[i].at]
  BY OnWire
<1>2. Conn \in 1..Len(sent)
  BY DEF StreamTypes, Conn
<1> QED BY <1>1, <1>2 DEF Cells

LEMMA GenuineGlued ==
  ASSUME NEW ss, NEW s \in Seq(Cell), NEW t \in Seq(Cell), Genuine(ss, s), Genuine(ss, t)
  PROVE  Genuine(ss, s \o t)
<1>1. /\ Len(s \o t) = Len(s) + Len(t) /\ Len(s) \in Nat /\ Len(t) \in Nat
      /\ \A i \in 1..(Len(s) + Len(t)) : (s \o t)[i] = IF i <= Len(s) THEN s[i] ELSE t[i - Len(s)]
  BY Glued
<1>2. ASSUME NEW i \in 1..(Len(s) + Len(t))
      PROVE  \/ \E j \in 1..Len(s) : (s \o t)[i] = s[j]
             \/ \E j \in 1..Len(t) : (s \o t)[i] = t[j]
  <2>1. i <= Len(s) => i \in 1..Len(s)
    BY <1>1
  <2>2. ~(i <= Len(s)) => i - Len(s) \in 1..Len(t)
    BY <1>1
  <2> QED BY <1>1, <2>1, <2>2
<1> DEFINE q == s \o t
<1>3. \A i \in 1..Len(q) : (\E j \in 1..Len(s) : q[i] = s[j]) \/ (\E j \in 1..Len(t) : q[i] = t[j])
  BY <1>1, <1>2
<1> HIDE DEF q
<1>4. ASSUME NEW i \in 1..Len(q)
      PROVE  /\ q[i].conn \in 1..Len(ss) /\ q[i].frame \in DOMAIN ss[q[i].conn]
             /\ q[i].at \in 1..Len(ss[q[i].conn][q[i].frame])
             /\ q[i] = CellsOf(ss[q[i].conn][q[i].frame], q[i].conn, q[i].frame)[q[i].at]
  <2>1. CASE \E j \in 1..Len(s) : q[i] = s[j]
    BY <2>1 DEF Genuine
  <2>2. CASE \E j \in 1..Len(t) : q[i] = t[j]
    BY <2>2 DEF Genuine
  <2> QED BY ONLY <1>3, <1>4, <2>1, <2>2
<1> QED BY <1>4 DEF q, Genuine

LEMMA GenuineInductive == StreamSpec => []GenuineInv
<1>1. StreamInit => GenuineInv
  BY DEF StreamInit, GenuineInv, Genuine
<1>2. StreamInv /\ GenuineInv /\ [StreamNext]_streamVars => GenuineInv'
  <2> SUFFICES ASSUME StreamInv, GenuineInv, [StreamNext]_streamVars PROVE GenuineInv'
    OBVIOUS
  <2>1. /\ StreamTypes /\ WireInv /\ firstData \in Seq(Cell) /\ accepted \in Seq(Seq(Cell))
        /\ \A i \in 1..Len(accepted) : accepted[i] \in Seq(Cell)
    BY DEF StreamInv, StreamTypes
  <2>2. CASE UNCHANGED streamVars
    BY <2>2 DEF streamVars, GenuineInv
  <2>3. ASSUME StreamNext
        PROVE  /\ Genuine(sent', firstData)
               /\ \A i \in 1..Len(accepted) : Genuine(sent', accepted[i])
    BY <2>1, <2>3, GenuineStays DEF GenuineInv
  <2>4. ASSUME RobotSends \/ Reconnect PROVE GenuineInv'
    <3>1. StreamNext /\ firstData' = firstData /\ accepted' = accepted
      BY <2>4 DEF RobotSends, Reconnect, StreamNext
    <3> QED BY <2>3, <3>1 DEF GenuineInv
  <2>5. ASSUME channelRead PROVE GenuineInv'
    <3>1. PICK n \in 1..Len(wire), s \in Seq(Cell) : Read(n, s)
      BY <2>1, <2>5, ReadParts
    <3>2. /\ StreamNext /\ sent' = sent /\ onMessageResponseClient(s)
          /\ Len(s) = n /\ \A i \in 1..n : s[i] = wire[i] /\ i \in 1..Len(wire)
      BY <2>5, <3>1 DEF Read, StreamNext
    <3>3. Genuine(sent, s)
      BY <2>1, <3>2, GenuineOnWire DEF Genuine
    <3>4. Genuine(sent, firstData) /\ Genuine(sent, firstData \o s)
      <4>1. Genuine(sent, firstData)
        BY DEF GenuineInv
      <4> QED BY <2>1, <3>3, <4>1, GenuineGlued
    <3>5. Genuine(sent, <<>>)
      BY DEF Genuine
    <3>6. firstData' \in {<<>>, s, firstData \o s, firstData}
      BY <3>2 DEF onMessageResponseClient
    <3>7. Genuine(sent', firstData')
      BY <3>2, <3>3, <3>4, <3>5, <3>6
    <3>8. accepted' = accepted \/ \E x \in {s, firstData \o s} : accepted' = Append(accepted, x)
      BY <3>2 DEF onMessageResponseClient, analysisData
    <3>9. ASSUME NEW x \in {s, firstData \o s}, accepted' = Append(accepted, x)
          PROVE  \A i \in 1..Len(accepted') : Genuine(sent', accepted'[i])
      <4>1. Genuine(sent', x)
        BY <3>2, <3>3, <3>4
      <4>2. /\ \A i \in 1..Len(accepted) : accepted'[i] = accepted[i]
            /\ \A i \in 1..Len(accepted') : i \in 1..Len(accepted) \/ accepted'[i] = x
        BY <2>1, <3>9
      <4> QED BY <2>3, <3>2, <4>1, <4>2
    <3>10. CASE accepted' = accepted
      BY <2>3, <3>2, <3>7, <3>10 DEF GenuineInv
    <3> QED BY <3>7, <3>8, <3>9, <3>10 DEF GenuineInv
  <2> QED BY <2>2, <2>4, <2>5 DEF StreamNext
<1> QED BY <1>1, <1>2, FramingInductive, PTL DEF StreamSpec

LEMMA Joined ==
  ASSUME NEW s \in Seq(0..255), NEW t \in Seq(0..255)
  PROVE  /\ s \o t \in Seq(0..255) /\ Len(s \o t) = Len(s) + Len(t) /\ Len(s) \in Nat /\ Len(t) \in Nat
         /\ \A i \in 1..Len(s) : (s \o t)[i] = s[i]
         /\ \A i \in 1..Len(t) : (s \o t)[Len(s) + i] = t[i]
<1>1. Len(s) \in Nat /\ Len(t) \in Nat
  OBVIOUS
<1>2. /\ s \o t \in Seq(0..255) /\ Len(s \o t) = Len(s) + Len(t)
      /\ \A i \in 1..(Len(s) + Len(t)) :
           (s \o t)[i] = IF i <= Len(s) THEN s[i] ELSE t[i - Len(s)]
  BY <1>1, ConcatProperties
<1>3. PICK l \in Nat : l = Len(s)
  BY <1>1
<1>4. \A i \in 1..Len(s) : i \in 1..(l + Len(t)) /\ i <= l
  BY <1>1, <1>3
<1>5. \A i \in 1..Len(t) : l + i \in 1..(l + Len(t)) /\ ~(l + i <= l) /\ (l + i) - l = i
  BY <1>1
<1>6. PICK q : q = s \o t
  OBVIOUS
<1>7. \A i \in 1..(l + Len(t)) : q[i] = IF i <= l THEN s[i] ELSE t[i - l]
  BY ONLY <1>2, <1>3, <1>6
<1>8. \A i \in 1..Len(s) : q[i] = s[i]
  BY ONLY <1>4, <1>7
<1>9. \A i \in 1..Len(t) : q[l + i] = t[i]
  BY ONLY <1>5, <1>7
<1> QED BY ONLY <1>1, <1>2, <1>3, <1>6, <1>8, <1>9

LEMMA ShortestMessage == ASSUME NEW m \in Messages PROVE Len(m) \in 7..22
<1>1. m[2] \in 1..4 /\ Len(m) = MessageLength[m[2]]
  BY MessageShape DEF analysisAccepts, HasKindAndLength
<1>2. \A k \in 1..4 : MessageLength[k] \in 7..22
  BY DEF MessageLength
<1> QED BY ONLY <1>1, <1>2, Zenon

\* Where byte i of q lies in the messages a, b, c and d of its connection, which
\* start with the frame of its first byte.
Placed(q, a, b, c, d, i) ==
  /\ q[i].conn = q[1].conn
  /\ \/ q[i].frame = q[1].frame     /\ q[i].at = q[1].at + i - 1
     \/ q[i].frame = q[1].frame + 1 /\ Len(a) + q[i].at = q[1].at + i - 1
     \/ q[i].frame = q[1].frame + 2 /\ Len(a) + Len(b) + q[i].at = q[1].at + i - 1
     \/ q[i].frame = q[1].frame + 3 /\ Len(a) + Len(b) + Len(c) + q[i].at = q[1].at + i - 1

\* The messages a, b, c and d are those sent from q's first frame on, as far as
\* there are any.
SentFrom(q, a, b, c, d) ==
  LET fs == sent[q[1].conn]
      k  == q[1].frame
  IN /\ a = fs[k]
     /\ k + 1 \in DOMAIN fs => b = fs[k + 1]
     /\ k + 2 \in DOMAIN fs => c = fs[k + 2]
     /\ k + 3 \in DOMAIN fs => d = fs[k + 3]

LEMMA Places ==
  ASSUME StreamTypes, NEW q \in Seq(Cell), Genuine(sent, q), Stretch(sent, q), Len(q) \in 1..22,
         NEW a \in Messages, NEW b \in Messages, NEW c \in Messages, NEW d \in Messages,
         SentFrom(q, a, b, c, d)
  PROVE  \A i \in 1..Len(q) : Placed(q, a, b, c, d, i)
<1>1. Len(q) \in Nat /\ 1 \in 1..Len(q)
  <2>1. \A x \in 1..22 : x \in Nat /\ 1 \in 1..x
    OBVIOUS
  <2> QED BY ONLY <2>1, Len(q) \in 1..22
<1> DEFINE S == {i \in 1..Len(q) : Placed(q, a, b, c, d, i)}
<1>2. \A i \in 1..Len(q) : q[i].frame \in Nat /\ q[i].at \in Nat
  BY CellIn
<1>3. 1 \in S
  <2>1. PICK p \in Nat : p = q[1].at
    BY <1>1, <1>2
  <2>2. p = p + 1 - 1
    OBVIOUS
  <2>3. Placed(q, a, b, c, d, 1)
    BY <2>1, <2>2 DEF Placed
  <2> QED BY <1>1, <2>3
<1>4. ASSUME NEW i \in 1..Len(q), i \in S, i < Len(q) PROVE i + 1 \in S
  <2>1. Placed(q, a, b, c, d, i) /\ Follows(sent, q[i], q[i + 1]) /\ i + 1 \in 1..Len(q)
    BY <1>1, <1>4 DEF Stretch
  <2>2. PICK k \in Nat, p \in Nat : k = q[1].frame /\ p = q[1].at
    BY <1>1, <1>2
  <2>3. PICK f \in Nat, x \in Nat : f = q[i].frame /\ x = q[i].at
    BY <1>2
  <2>4. PICK g \in Nat, y \in Nat : g = q[i + 1].frame /\ y = q[i + 1].at
    BY <1>2, <2>1
  <2>5. PICK A \in 7..22, B \in 7..22, C \in 7..22, D \in 7..22 :
          A = Len(a) /\ B = Len(b) /\ C = Len(c) /\ D = Len(d)
    BY ShortestMessage
  <2>6. q[i].conn = q[1].conn /\ q[i + 1].conn = q[1].conn
    BY <2>1 DEF Placed, Follows
  <2>7. f \in DOMAIN sent[q[1].conn] /\ p \in 1..A
    <3>1. q[1].at \in 1..Len(sent[q[1].conn][q[1].frame])
      BY <1>1 DEF Genuine
    <3>2. f \in DOMAIN sent[q[1].conn]
      BY <2>3, <2>6 DEF Genuine
    <3> QED BY <2>2, <2>5, <3>1, <3>2 DEF SentFrom
  <2>8. \/ f = k     /\ x = p + i - 1
        \/ f = k + 1 /\ A + x = p + i - 1
        \/ f = k + 2 /\ A + B + x = p + i - 1
        \/ f = k + 3 /\ A + B + C + x = p + i - 1
    BY <2>1, <2>2, <2>3, <2>5 DEF Placed
  <2>9. \/ g = f /\ y = x + 1
        \/ g = f + 1 /\ y = 1 /\ x = Len(sent[q[1].conn][f])
    BY <2>1, <2>3, <2>4, <2>6 DEF Follows
  <2>10. Len(sent[q[1].conn][f]) = IF f = k THEN A ELSE IF f = k + 1 THEN B
                                   ELSE IF f = k + 2 THEN C ELSE D
    <3>1. f = k \/ f = k + 1 \/ f = k + 2 \/ f = k + 3
      BY <2>8
    <3>2. CASE f = k
      BY <2>2, <2>5, <3>2 DEF SentFrom
    <3>3. CASE f = k + 1
      <4>1. Len(sent[q[1].conn][f]) = B
        BY <2>2, <2>5, <2>7, <3>3 DEF SentFrom
      <4> QED BY <3>3, <4>1
    <3>4. CASE f = k + 2
      <4>1. Len(sent[q[1].conn][f]) = C
        BY <2>2, <2>5, <2>7, <3>4 DEF SentFrom
      <4> QED BY <3>4, <4>1
    <3>5. CASE f = k + 3
      <4>1. Len(sent[q[1].conn][f]) = D
        BY <2>2, <2>5, <2>7, <3>5 DEF SentFrom
      <4> QED BY <3>5, <4>1
    <3> QED BY <3>1, <3>2, <3>3, <3>4, <3>5
  <2>11. i \in 1..21
    <3>1. \A z \in 1..22 : \A j \in 1..z : j < z => j \in 1..21
      OBVIOUS
    <3> QED BY ONLY <1>4, <3>1, Len(q) \in 1..22, i \in 1..Len(q)
  <2>12. PICK e \in Nat : e = i + 1
    BY <2>11
  <2>13. \/ g = k     /\ y = p + e - 1
         \/ g = k + 1 /\ A + y = p + e - 1
         \/ g = k + 2 /\ A + B + y = p + e - 1
         \/ g = k + 3 /\ A + B + C + y = p + e - 1
    BY ONLY <2>7, <2>8, <2>9, <2>10, <2>11, <2>12, k \in Nat, p \in Nat, f \in Nat, x \in Nat, g \in Nat, y \in Nat
  <2>14. Placed(q, a, b, c, d, e)
    BY <2>2, <2>4, <2>5, <2>6, <2>12, <2>13 DEF Placed
  <2> QED BY <2>1, <2>12, <2>14
<1> HIDE DEF S
<1>5. 1..Len(q) \subseteq S
  BY <1>1, <1>3, <1>4, Counting
<1> QED BY <1>5 DEF S

\* The bytes of q are those of a, b, c and d from the place on where q's first
\* byte lies in a.
Spells(q, a, b, c, d) ==
  \E j \in 1..Len(a \o b \o c \o d) :
    /\ q[1].at \in 1..Len(a) /\ j = q[1].at + Len(q) - 1
    /\ Bytes(q) = SubSeq(a \o b \o c \o d, q[1].at, j)

LEMMA Spelled ==
  ASSUME StreamTypes, NEW q \in Seq(Cell), Genuine(sent, q), Stretch(sent, q), Len(q) \in 1..22,
         NEW a \in Messages, NEW b \in Messages, NEW c \in Messages, NEW d \in Messages,
         SentFrom(q, a, b, c, d)
  PROVE  Spells(q, a, b, c, d)
<1> DEFINE run == a \o b \o c \o d
<1>1. /\ a \in Seq(0..255) /\ b \in Seq(0..255) /\ c \in Seq(0..255) /\ d \in Seq(0..255)
  BY MessageShape
<1>2. PICK A \in 7..22, B \in 7..22, C \in 7..22, D \in 7..22 :
        A = Len(a) /\ B = Len(b) /\ C = Len(c) /\ D = Len(d)
  BY ShortestMessage
<1>3. /\ run \in Seq(0..255) /\ Len(run) = A + B + C + D
      /\ \A x \in 1..A : run[x] = a[x]
      /\ \A x \in 1..B : run[A + x] = b[x]
      /\ \A x \in 1..C : run[A + B + x] = c[x]
      /\ \A x \in 1..D : run[A + B + C + x] = d[x]
  <2>1. /\ a \o b \in Seq(0..255) /\ Len(a \o b) = A + B
        /\ \A x \in 1..A : (a \o b)[x] = a[x]
        /\ \A x \in 1..B : (a \o b)[A + x] = b[x]
    BY <1>1, <1>2, Joined
  <2>2. PICK e \in Seq(0..255) : e = a \o b
    BY <2>1
  <2>3. /\ e \o c \in Seq(0..255) /\ Len(e \o c) = Len(e) + C
        /\ \A x \in 1..Len(e) : (e \o c)[x] = e[x]
        /\ \A x \in 1..C : (e \o c)[Len(e) + x] = c[x]
    BY <1>1, <1>2, Joined
  <2>4. PICK f \in Seq(0..255) : f = e \o c
    BY <2>3
  <2>5. /\ f \o d \in Seq(0..255) /\ Len(f \o d) = Len(f) + D
        /\ \A x \in 1..Len(f) : (f \o d)[x] = f[x]
        /\ \A x \in 1..D : (f \o d)[Len(f) + x] = d[x]
    BY <1>1, <1>2, Joined
  <2>6. run = f \o d
    BY <2>2, <2>4
  <2> HIDE DEF run
  <2>7. Len(e) = A + B /\ Len(f) = A + B + C
    BY <2>1, <2>2, <2>3, <2>4
  <2>8. /\ \A x \in 1..A : e[x] = a[x]
        /\ \A x \in 1..B : e[A + x] = b[x]
        /\ \A x \in 1..(A + B) : f[x] = e[x]
        /\ \A x \in 1..C : f[A + B + x] = c[x]
        /\ \A x \in 1..(A + B + C) : run[x] = f[x]
        /\ \A x \in 1..D : run[A + B + C + x] = d[x]
    BY <2>1, <2>2, <2>3, <2>4, <2>5, <2>6, <2>7
  <2>9. /\ \A x \in 1..A : x \in 1..(A + B) /\ x \in 1..(A + B + C)
        /\ \A x \in 1..B : A + x \in 1..(A + B) /\ A + x \in 1..(A + B + C)
        /\ \A x \in 1..C : A + B + x \in 1..(A + B + C)
    OBVIOUS
  <2> QED BY <2>5, <2>6, <2>7, <2>8, <2>9
<1> HIDE DEF run
<1>4. PICK n \in 1..22 : n = Len(q)
  OBVIOUS
<1>5. q[1].at \in 1..A
  <2>1. 1 \in 1..Len(q)
    BY <1>4
  <2>2. q[1].at \in 1..Len(sent[q[1].conn][q[1].frame])
    BY <2>1 DEF Genuine
  <2> QED BY <1>2, <2>2 DEF SentFrom
<1>6. PICK p \in 1..A : p = q[1].at
  BY <1>5
<1>7. ASSUME NEW i \in 1..n
      PROVE  p + i - 1 \in 1..(A + B + C + D) /\ q[i].byte = run[p + i - 1]
  <2>1. i \in 1..Len(q) /\ Placed(q, a, b, c, d, i)
    BY <1>4, Places
  <2>2. PICK f, x : f = q[i].frame /\ x = q[i].at
    OBVIOUS
  <2>3. /\ f \in DOMAIN sent[q[1].conn] /\ x \in 1..Len(sent[q[1].conn][f])
        /\ q[i].byte = sent[q[1].conn][f][x]
    <3>1. /\ q[i].conn \in 1..Len(sent) /\ f \in DOMAIN sent[q[i].conn]
          /\ x \in 1..Len(sent[q[i].conn][f])
          /\ q[i] = CellsOf(sent[q[i].conn][f], q[i].conn, f)[x]
      BY <2>1, <2>2 DEF Genuine
    <3>2. q[i].conn = q[1].conn
      BY <2>1 DEF Placed
    <3>3. sent[q[i].conn][f] \in Messages /\ q[i].conn \in Nat /\ f \in Nat
      <4>1. sent[q[i].conn] \in Seq(Messages)
        BY <3>1 DEF StreamTypes
      <4> QED BY <3>1, <4>1
    <3>4. PICK m \in Messages : m = sent[q[i].conn][f]
      BY <3>3
    <3>5. CellsOf(m, q[i].conn, f)[x].byte = m[x]
      BY <3>1, <3>3, <3>4, CellsShape
    <3>6. q[i].byte = m[x]
      BY ONLY <3>1, <3>4, <3>5, Zenon
    <3> QED BY <3>1, <3>2, <3>4, <3>6
  <2>4. PICK k \in Nat : k = q[1].frame
    <3>1. 1 \in 1..Len(q)
      BY <1>4
    <3> QED BY <3>1, CellIn
  <2>5. x \in Nat
    BY <2>1, <2>2, CellIn
  <2>6. \/ f = k     /\ x = p + i - 1
        \/ f = k + 1 /\ A + x = p + i - 1
        \/ f = k + 2 /\ A + B + x = p + i - 1
        \/ f = k + 3 /\ A + B + C + x = p + i - 1
    BY <1>2, <1>6, <2>1, <2>2, <2>4 DEF Placed
  <2>7. CASE f = k /\ x = p + i - 1
    <3>1. x \in 1..A /\ q[i].byte = a[x]
      BY <1>2, <2>3, <2>4, <2>7 DEF SentFrom
    <3>2. run[x] = a[x]
      BY ONLY <1>3, <3>1
    <3>3. x \in 1..(A + B + C + D)
      BY ONLY <3>1, A \in 7..22, B \in 7..22, C \in 7..22, D \in 7..22
    <3> QED BY ONLY <2>7, <3>1, <3>2, <3>3, Zenon
  <2>8. CASE f = k + 1 /\ A + x = p + i - 1
    <3>1. x \in 1..B /\ q[i].byte = b[x]
      BY <1>2, <2>3, <2>4, <2>8 DEF SentFrom
    <3>2. run[A + x] = b[x]
      BY ONLY <1>3, <3>1
    <3>3. A + x \in 1..(A + B + C + D)
      BY ONLY <3>1, A \in 7..22, B \in 7..22, C \in 7..22, D \in 7..22
    <3> QED BY ONLY <2>8, <3>1, <3>2, <3>3, Zenon
  <2>9. CASE f = k + 2 /\ A + B + x = p + i - 1
    <3>1. x \in 1..C /\ q[i].byte = c[x]
      BY <1>2, <2>3, <2>4, <2>9 DEF SentFrom
    <3>2. run[A + B + x] = c[x]
      BY ONLY <1>3, <3>1
    <3>3. A + B + x \in 1..(A + B + C + D)
      BY ONLY <3>1, A \in 7..22, B \in 7..22, C \in 7..22, D \in 7..22
    <3> QED BY ONLY <2>9, <3>1, <3>2, <3>3, Zenon
  <2>10. CASE f = k + 3 /\ A + B + C + x = p + i - 1
    <3>1. x \in 1..D /\ q[i].byte = d[x]
      BY <1>2, <2>3, <2>4, <2>10 DEF SentFrom
    <3>2. run[A + B + C + x] = d[x]
      BY ONLY <1>3, <3>1
    <3>3. A + B + C + x \in 1..(A + B + C + D)
      BY ONLY <3>1, A \in 7..22, B \in 7..22, C \in 7..22, D \in 7..22
    <3> QED BY ONLY <2>10, <3>1, <3>2, <3>3, Zenon
  <2> QED BY <2>6, <2>7, <2>8, <2>9, <2>10
<1>8. PICK j \in 1..(A + B + C + D) : j = p + n - 1
  <2>1. n \in 1..n
    OBVIOUS
  <2> QED BY <1>7, <2>1
<1>9. Bytes(q) = SubSeq(run, p, j)
  <2>1. /\ Bytes(q) \in Seq(0..255) /\ Len(Bytes(q)) = n
        /\ \A i \in 1..n : Bytes(q)[i] = q[i].byte
    BY <1>4, BytesShape
  <2>2. /\ SubSeq(run, p, j) \in Seq(0..255) /\ Len(SubSeq(run, p, j)) = n
        /\ \A i \in 1..n : SubSeq(run, p, j)[i] = run[p + i - 1]
    <3>1. PICK z \in Nat : z = A + B + C + D
      OBVIOUS
    <3>2. p \in Int /\ j \in Int /\ p <= j /\ 1 <= p /\ j <= z /\ j - p + 1 = n
      BY ONLY <1>8, <3>1, A \in 7..22, p \in 1..A, n \in 1..22, j \in 1..(A + B + C + D)
    <3>3. \A i \in 1..z : run[i] \in 0..255
      <4>1. run \in Seq(0..255) /\ Len(run) = z
        BY ONLY <1>3, <3>1
      <4> QED BY ONLY <4>1, ElementOfSeq
    <3>4. \A i \in p..j : i \in 1..z
      BY ONLY <3>1, <3>2, z \in Nat
    <3>5. \A i \in p..j : run[i] \in 0..255
      BY <3>3, <3>4
    <3>6. /\ SubSeq(run, p, j) \in Seq(0..255)
          /\ Len(SubSeq(run, p, j)) = IF p <= j THEN j - p + 1 ELSE 0
          /\ \A i \in 1..(j - p + 1) : SubSeq(run, p, j)[i] = run[p + i - 1]
      BY ONLY <3>2, <3>5, SubSeqProperties
    <3> QED BY <3>2, <3>6
  <2>3. \A i \in 1..n : Bytes(q)[i] = SubSeq(run, p, j)[i]
    BY <1>7, <2>1, <2>2
  <2> QED BY <2>1, <2>2, <2>3, SeqEqual
<1> QED BY <1>2, <1>3, <1>4, <1>6, <1>8, <1>9 DEF run, Spells

LEMMA MessagesFrom ==
  ASSUME StreamTypes, NEW q \in Seq(Cell), Genuine(sent, q), Len(q) \in Nat, Len(q) > 0
  PROVE  \E a, b, c, d \in Messages : SentFrom(q, a, b, c, d)
<1> DEFINE fs == sent[q[1].conn]
           k  == q[1].frame
<1>1. 1 \in 1..Len(q)
  OBVIOUS
<1>2. fs \in Seq(Messages) /\ k \in DOMAIN fs
  <2>1. q[1].conn \in 1..Len(sent) /\ k \in DOMAIN fs
    BY <1>1 DEF Genuine
  <2> QED BY <2>1 DEF StreamTypes
<1>3. \A l \in DOMAIN fs : fs[l] \in Messages
  BY <1>2
<1> DEFINE m(l) == IF l \in DOMAIN fs THEN fs[l] ELSE fs[k]
<1>4. \A l : m(l) \in Messages
  BY <1>2, <1>3
<1>5. SentFrom(q, m(k), m(k + 1), m(k + 2), m(k + 3))
  BY <1>2 DEF SentFrom
<1> HIDE DEF m
<1> QED BY <1>4, <1>5

LEMMA WholeMessage ==
  ASSUME StreamTypes, Unambiguous,
         NEW q \in Seq(Cell), Genuine(sent, q), Stretch(sent, q), analysisAccepts(Bytes(q))
  PROVE  \E f \in Frames : q = Cells(f[1], f[2])
<1>1. Len(q) \in 1..22
  <2>1. Len(Bytes(q)) = Len(q) /\ Len(q) \in Nat
    BY BytesShape
  <2>2. PICK t \in 1..4 : Len(Bytes(q)) = MessageLength[t]
    BY DEF analysisAccepts, HasKindAndLength
  <2>3. MessageLength[t] \in 1..22
    BY DEF MessageLength
  <2> QED BY ONLY <2>1, <2>2, <2>3, Zenon
<1>2. PICK n \in 1..22 : n = Len(q)
  BY <1>1
<1>3. 1 \in 1..Len(q) /\ Len(q) \in Nat /\ Len(q) > 0
  BY <1>2
<1>4. PICK a, b, c, d \in Messages : SentFrom(q, a, b, c, d)
  BY <1>3, MessagesFrom
<1>5. PICK j \in 1..Len(a \o b \o c \o d) :
        /\ q[1].at \in 1..Len(a) /\ j = q[1].at + Len(q) - 1
        /\ Bytes(q) = SubSeq(a \o b \o c \o d, q[1].at, j)
  <2>1. Spells(q, a, b, c, d)
    BY <1>1, <1>4, Spelled
  <2> QED BY <2>1 DEF Spells
<1>6. q[1].at = 1 /\ j = Len(a)
  BY <1>5 DEF Unambiguous
<1>7. Len(a) = n
  <2>1. j = 1 + n - 1
    BY <1>2, <1>5, <1>6
  <2> QED BY ONLY <1>6, <2>1, n \in 1..22
<1> DEFINE co == q[1].conn
           k  == q[1].frame
<1>8. co \in 1..Conn /\ k \in DOMAIN sent[co] /\ a = sent[co][k] /\ k \in Nat /\ co \in Nat
  BY <1>3, <1>4, CellIn DEF Genuine, Conn, SentFrom
<1>9. ASSUME NEW i \in 1..n PROVE q[i] = CellsOf(a, co, k)[i]
  <2>1. i \in 1..Len(q) /\ Placed(q, a, b, c, d, i)
    BY <1>1, <1>2, <1>4, Places
  <2>a. PICK x \in Nat : x = q[i].at
    BY <2>1, CellIn
  <2>b. PICK y : y = q[i].frame
    OBVIOUS
  <2>2. x = q[i].at /\ y = q[i].frame
    BY <2>a, <2>b
  <2>3. /\ x \in 1..Len(sent[q[i].conn][y])
        /\ q[i] = CellsOf(sent[q[i].conn][y], q[i].conn, y)[x]
    BY <2>1, <2>2 DEF Genuine
  <2>4. PICK B \in Nat, C \in Nat : B = Len(b) /\ C = Len(c)
    BY MessageShape
  <2>5. /\ q[i].conn = co
        /\ \/ y = k /\ x = 1 + i - 1
           \/ n + x = 1 + i - 1
           \/ n + B + x = 1 + i - 1
           \/ n + B + C + x = 1 + i - 1
    BY <1>6, <1>7, <2>1, <2>2, <2>4 DEF Placed
  <2>6. x >= 1
    <3>1. sent[q[i].conn][y] \in Messages
      BY <2>1, <2>2 DEF Genuine, StreamTypes
    <3> QED BY <2>3, <3>1, MessageShape
  <2>7. y = k /\ x = i
    BY ONLY <2>5, <2>6, n \in 1..22, i \in 1..n, x \in Nat, B \in Nat, C \in Nat
  <2> QED BY <1>8, <2>3, <2>5, <2>7
<1> HIDE DEF co, k
<1>10. /\ CellsOf(a, co, k) \in Seq(Cell) /\ Len(CellsOf(a, co, k)) = n
  <2>1. co \in Nat /\ k \in Nat /\ a \in Messages
    BY <1>4, <1>8
  <2>2. CellsOf(a, co, k) \in Seq(Cell) /\ Len(CellsOf(a, co, k)) = Len(a)
    BY ONLY <2>1, CellsShape
  <2> QED BY <1>7, <2>2
<1>11. q = CellsOf(a, co, k)
  BY <1>2, <1>9, <1>10, SeqEqual
<1>12. q = Cells(co, k)
  BY <1>8, <1>11 DEF Cells
<1>13. <<co, k>> \in Frames
  BY <1>8, FramesAre
<1> QED BY <1>12, <1>13

ByteStrings == Seq(0..255)

LEMMA GluedBytes == \A s, t \in ByteStrings : s \o t \in ByteStrings
BY Joined DEF ByteStrings

LEMMA Regrouped == \A s, t, u \in ByteStrings : (s \o t) \o u = s \o (t \o u)
<1> SUFFICES ASSUME NEW s \in Seq(0..255), NEW t \in Seq(0..255), NEW u \in Seq(0..255)
             PROVE  (s \o t) \o u = s \o (t \o u)
  BY DEF ByteStrings
<1> QED BY ConcatAssociative

FourInARow(a, b, c, d) == a \o b \o c \o d

LEMMA FourRegrouped ==
  \A a, b, c, d \in Messages : \E e \in ByteStrings : FourInARow(a, b, c, d) = a \o e
<1> SUFFICES ASSUME NEW a \in Messages, NEW b \in Messages, NEW c \in Messages, NEW d \in Messages
             PROVE  \E e \in ByteStrings : FourInARow(a, b, c, d) = a \o e
  OBVIOUS
<1>1. PICK x \in ByteStrings, y \in ByteStrings, z \in ByteStrings, w \in ByteStrings :
        x = a /\ y = b /\ z = c /\ w = d
  BY MessageShape DEF ByteStrings
<1>2. PICK f \in ByteStrings : f = y \o z
  BY ONLY GluedBytes, Zenon
<1>a. \A t, u \in ByteStrings : (x \o t) \o u = x \o (t \o u)
  BY ONLY Regrouped, x \in ByteStrings, Zenon
<1>b. \A u \in ByteStrings : (x \o y) \o u = x \o (y \o u) /\ (x \o f) \o u = x \o (f \o u)
  BY ONLY <1>a, y \in ByteStrings, f \in ByteStrings, Zenon
<1>3. (x \o y) \o z = x \o f
  BY ONLY <1>2, <1>b, z \in ByteStrings, Zenon
<1>4. (x \o f) \o w = x \o (f \o w)
  BY ONLY <1>b, w \in ByteStrings, Zenon
<1>5. x \o y \o z \o w = x \o (y \o z \o w)
  BY ONLY <1>2, <1>3, <1>4, Zenon
<1>6. y \o z \o w \in ByteStrings
  BY ONLY <1>2, GluedBytes, Zenon
<1>7. FourInARow(a, b, c, d) = a \o (y \o z \o w)
  BY ONLY <1>1, <1>5, Zenon DEF FourInARow
<1> QED BY ONLY <1>6, <1>7, Zenon

\* In such a run nothing but its first message starts there and is accepted.
LEMMA HeaderRun ==
  ASSUME HeadersOnlyAtStart,
         NEW a \in Messages, NEW e \in Seq(0..255), NEW run, run = a \o e,
         NEW i \in 1..Len(a), NEW j \in 1..Len(run),
         analysisAccepts(SubSeq(run, i, j))
  PROVE  i = 1 /\ j = Len(a)
<1>3. run \in Seq(0..255)
  <2>1. a \in Seq(0..255)
    BY MessageShape
  <2> QED BY <2>1, Joined
<1>4. PICK A \in 7..22 : A = Len(a)
  BY ShortestMessage
<1>5. /\ \A x \in 1..A : run[x] = a[x]
      /\ A \in Nat /\ Len(run) \in Nat /\ A <= Len(run)
  <2>1. a \in Seq(0..255)
    BY MessageShape
  <2>2. /\ Len(a \o e) = Len(a) + Len(e) /\ Len(a) \in Nat /\ Len(e) \in Nat
        /\ \A x \in 1..Len(a) : (a \o e)[x] = a[x]
    BY <2>1, Joined
  <2> QED BY <1>4, <2>2
<1>6. PICK q : q = SubSeq(run, i, j)
  OBVIOUS
<1>7. /\ Len(q) > 1 /\ q[1] = 177 /\ q[2] \in 1..4 /\ Len(q) = MessageLength[q[2]]
  BY <1>3, <1>6 DEF analysisAccepts, HasKindAndLength
<1>8. i \in Int /\ j \in Int /\ 1 <= i /\ i <= A /\ j <= Len(run)
  BY <1>3, <1>4, <1>5
<1>9. /\ Len(q) = IF i <= j THEN j - i + 1 ELSE 0
      /\ \A x \in 1..(j - i + 1) : q[x] = run[i + x - 1]
  <2>1. \A x \in i..j : x \in 1..Len(run)
    BY ONLY <1>5, <1>8
  <2>2. \A x \in i..j : run[x] \in 0..255
    BY <1>3, <2>1, ElementOfSeq
  <2>3. /\ Len(SubSeq(run, i, j)) = IF i <= j THEN j - i + 1 ELSE 0
        /\ \A x \in 1..(j - i + 1) : SubSeq(run, i, j)[x] = run[i + x - 1]
    BY ONLY <1>8, <2>2, SubSeqProperties
  <2> QED BY <1>6, <2>3
<1>10. i < j /\ 1 \in 1..(j - i + 1) /\ 2 \in 1..(j - i + 1) /\ i + 1 - 1 = i /\ i + 2 - 1 = i + 1
  BY ONLY <1>7, <1>8, <1>9
<1>11. q[1] = run[i] /\ q[2] = run[i + 1]
  BY ONLY <1>9, <1>10, Zenon
<1>12. i < A
  <2> SUFFICES ASSUME ~(i < A) PROVE FALSE
    OBVIOUS
  <2>1. i = A /\ A \in 1..A
    BY <1>4, <1>8
  <2>2. run[i] = a[A] /\ a[A] = 10
    BY <1>4, <1>5, <2>1, MessageShape
  <2> QED BY <1>7, <1>11, <2>2
<1>13. a[i] = 177 /\ a[i + 1] \in 1..4 /\ i + 1 \in 1..A /\ i \in 1..A
  <2>1. i + 1 \in 1..A /\ i \in 1..A
    BY ONLY <1>4, <1>8, <1>12, A \in 7..22
  <2> QED BY <1>5, <1>7, <1>11, <2>1
<1>14. i = 1
  <2>1. i \in 1..(Len(a) - 1)
    BY <1>4, <1>12, <1>13
  <2> QED BY <1>13, <2>1 DEF HeadersOnlyAtStart
<1>15. q[2] = a[2] /\ Len(a) = MessageLength[a[2]]
  <2>1. Len(a) = MessageLength[a[2]]
    BY MessageShape DEF analysisAccepts, HasKindAndLength
  <2>2. i + 1 = 2
    BY <1>14
  <2>3. q[2] = run[2] /\ 2 \in 1..A
    BY <1>11, <1>13, <2>2
  <2> QED BY <1>5, <2>1, <2>3
<1>16. j = Len(q)
  BY ONLY <1>8, <1>9, <1>10, <1>14
<1> QED BY <1>7, <1>14, <1>15, <1>16

\* Messages that hold the first two bytes of a message nowhere but where they
\* begin hide no other: a run that starts at such bytes starts a frame, and their
\* kind gives it the frame's length.
LEMMA HeadersSuffice == HeadersOnlyAtStart => Unambiguous
<1> SUFFICES ASSUME HeadersOnlyAtStart
             PROVE  Unambiguous
  OBVIOUS
<1>1. ASSUME NEW a \in Messages, NEW b \in Messages, NEW c \in Messages, NEW d \in Messages
      PROVE  LET run == a \o b \o c \o d
             IN \A i \in 1..Len(a), j \in 1..Len(run) :
                  analysisAccepts(SubSeq(run, i, j)) => i = 1 /\ j = Len(a)
  <2>1. PICK e \in ByteStrings : FourInARow(a, b, c, d) = a \o e
    BY <1>1, FourRegrouped
  <2>2. PICK run : run = a \o b \o c \o d
    OBVIOUS
  <2>3. run = a \o e
    BY ONLY <2>1, <2>2, Zenon DEF FourInARow
  <2>4. ASSUME NEW i \in 1..Len(a), NEW j \in 1..Len(run), analysisAccepts(SubSeq(run, i, j))
        PROVE  i = 1 /\ j = Len(a)
    BY <1>1, <2>1, <2>3, <2>4, HeaderRun DEF ByteStrings
  <2> QED BY ONLY <2>2, <2>4, Zenon
<1> QED BY <1>1, Zenon DEF Unambiguous

-----------------------------------------------------------------------------
(* What is acted on is acted on in the order in which it was sent *)

\* The cells of q come before those of r.
Precedes(q, r) == \A i \in 1..Len(q), j \in 1..Len(r) : Before(q[i], r[j])

OrderInv ==
  /\ \A m, n \in 1..Len(accepted) : m < n => Precedes(accepted[m], accepted[n])
  /\ \A m \in 1..Len(accepted) : Precedes(accepted[m], Waiting(firstData, wire, Conn))

LEMMA BeforeIsOrder ==
  ASSUME NEW x \in Cell, NEW y \in Cell, NEW z \in Cell, Before(x, y), Before(y, z)
  PROVE  Before(x, z)
BY DEF Before, Cell

LEMMA StretchOrdered ==
  ASSUME NEW ss, NEW q \in Seq(Cell), Stretch(ss, q), NEW i \in 1..Len(q), NEW j \in 1..Len(q), i < j
  PROVE  Before(q[i], q[j])
<1>1. PICK n \in Nat : n = Len(q)
  OBVIOUS
<1> DEFINE S == {l \in 1..n : i < l => Before(q[i], q[l])}
<1>2. 1 \in S
  BY <1>1
<1>3. ASSUME NEW l \in 1..n, l \in S, l < n PROVE l + 1 \in S
  <2>1. PICK e \in 1..n : e = l + 1
    BY <1>3
  <2>2. Before(q[l], q[e])
    <3>1. Follows(ss, q[l], q[e]) /\ l \in 1..Len(q) /\ e \in 1..Len(q)
      BY <1>1, <1>3, <2>1 DEF Stretch
    <3>2. q[l].at \in Nat /\ q[e].at \in Nat /\ q[l].frame \in Nat /\ q[e].frame \in Nat
      BY <3>1, CellIn
    <3> QED BY <3>1, <3>2 DEF Follows, Before
  <2>3. CASE i < l
    <3>1. Before(q[i], q[l])
      BY <1>3, <2>3
    <3>2. q[i] \in Cell /\ q[l] \in Cell /\ q[e] \in Cell
      BY <1>1, CellIn
    <3>3. Before(q[i], q[e])
      BY <2>2, <3>1, <3>2, BeforeIsOrder
    <3> QED BY <2>1, <3>3
  <2>4. CASE ~(i < l)
    <3>1. i < e => i = l
      BY <1>1, <2>1, <2>4
    <3> QED BY <2>1, <2>2, <3>1
  <2> QED BY <2>3, <2>4
<1> HIDE DEF S
<1>4. 1..n \subseteq S
  BY <1>2, <1>3, Counting
<1> QED BY <1>1, <1>4 DEF S

\* Of two parts of an unbroken run the one that ends first comes before.
LEMMA PartsOrdered ==
  ASSUME NEW ss, NEW q \in Seq(Cell), Stretch(ss, q),
         NEW x \in Seq(Cell), NEW y \in Seq(Cell), NEW p \in Nat, NEW o \in Nat,
         Part(x, q, p), Part(y, q, o), p + Len(x) <= o
  PROVE  Precedes(x, y)
<1> SUFFICES ASSUME NEW i \in 1..Len(x), NEW j \in 1..Len(y) PROVE Before(x[i], y[j])
  BY DEF Precedes
<1>1. PICK k \in 1..Len(q), l \in 1..Len(q) : k = p + i /\ l = o + j
  BY DEF Part
<1>2. x[i] = q[k] /\ y[j] = q[l]
  BY <1>1 DEF Part
<1>3. k < l
  <2>1. PICK n \in Nat : n = Len(x)
    OBVIOUS
  <2> QED BY ONLY <1>1, <2>1, p \in Nat, o \in Nat, i \in 1..Len(x), j \in 1..Len(y), p + Len(x) <= o
<1> QED BY <1>1, <1>2, <1>3, StretchOrdered

LEMMA SendOrder == StreamInv /\ StretchInv /\ GenuineInv /\ OrderInv /\ RobotSends => OrderInv'
<1> SUFFICES ASSUME StreamInv, StretchInv, GenuineInv, OrderInv, RobotSends PROVE OrderInv'
  OBVIOUS
<1>1. /\ StreamTypes /\ accepted' = accepted /\ firstData' = firstData
      /\ firstData \in Seq(Cell) /\ wire \in Seq(Cell) /\ accepted \in Seq(Seq(Cell))
  BY DEF StreamInv, StreamTypes, RobotSends
<1>2. PICK m \in Messages : /\ sent' = [sent EXCEPT ![Conn] = Append(@, m)]
                            /\ wire' = wire \o CellsOf(m, Conn, Len(sent[Conn]) + 1)
  BY DEF RobotSends
<1>3. /\ Conn = Len(sent) /\ Conn \in Nat /\ Conn \in 1..Len(sent)
      /\ sent[Conn] \in Seq(Messages) /\ Len(sent[Conn]) \in Nat /\ Conn' = Conn
  BY <1>1, <1>2 DEF StreamTypes, Conn
<1>4. PICK k \in Nat : k = Len(sent[Conn]) + 1
  BY <1>3
<1> DEFINE c == CellsOf(m, Conn, k)
           q == Waiting(firstData, wire, Conn)
<1>5. /\ c \in Seq(Cell) /\ Len(c) \in Nat
      /\ \A i \in 1..Len(c) : c[i].conn = Conn /\ c[i].frame = k
  <2>1. c \in Seq(Cell) /\ Len(c) = Len(m) /\ Len(m) \in Nat
    BY <1>3, CellsShape, MessageShape
  <2>2. \A i \in 1..Len(m) : c[i].conn = Conn /\ c[i].frame = k
    BY <1>3, CellsShape
  <2> QED BY <2>1, <2>2
<1> HIDE DEF c
<1>6. q \in Seq(Cell)
  BY WaitingSent
<1>7. Waiting(firstData', wire', Conn') = q \o c
  <2>1. wire' = wire \o c
    BY <1>2, <1>4 DEF c
  <2>2. firstData \o (wire \o c) = (firstData \o wire) \o c
    <3>1. firstData \in Seq(Cell) /\ wire \in Seq(Cell) /\ c \in Seq(Cell)
      BY <1>1, <1>5
    <3> QED BY ONLY <3>1, ConcatAssociative
  <2> QED BY <1>1, <1>3, <2>1, <2>2 DEF Waiting
<1>8. ASSUME NEW n \in 1..Len(accepted) PROVE Precedes(accepted[n], q \o c)
  <2>1. accepted[n] \in Seq(Cell) /\ Genuine(sent, accepted[n]) /\ Precedes(accepted[n], q)
    BY <1>1 DEF GenuineInv, OrderInv
  <2>2. PICK a \in Seq(Cell) : a = accepted[n]
    BY <2>1
  <2>3. ASSUME NEW i \in 1..Len(a), NEW j \in 1..Len(c) PROVE Before(a[i], c[j])
    <3>1. a[i].conn \in 1..Conn /\ a[i].frame \in DOMAIN sent[a[i].conn]
      BY <1>3, <2>1, <2>2 DEF Genuine
    <3>2. a[i].conn = Conn => a[i].frame < k
      BY <1>3, <1>4, <3>1
    <3> QED BY <1>3, <1>5, <3>1, <3>2 DEF Before
  <2>4. ASSUME NEW i \in 1..Len(a), NEW j \in 1..Len(q \o c) PROVE Before(a[i], (q \o c)[j])
    <3>1. /\ Len(q \o c) = Len(q) + Len(c) /\ Len(q) \in Nat
          /\ (q \o c)[j] = IF j <= Len(q) THEN q[j] ELSE c[j - Len(q)]
      BY <1>5, <1>6, Glued
    <3>2. PICK z \in Nat, u \in Nat : z = Len(q) /\ u = Len(c)
      BY <1>5, <3>1
    <3>5. PICK w \in 1..(z + u) : w = j
      BY <3>1, <3>2
    <3>3. CASE w <= z
      <4>1. w \in 1..z
        BY <3>3
      <4>2. Before(a[i], q[w])
        BY <2>1, <2>2, <3>2, <4>1 DEF Precedes
      <4> QED BY <3>1, <3>2, <3>3, <3>5, <4>2
    <3>4. CASE ~(w <= z)
      <4>1. w - z \in 1..u
        BY <3>4
      <4>2. Before(a[i], c[w - z])
        BY <2>3, <3>2, <4>1
      <4> QED BY <3>1, <3>2, <3>4, <3>5, <4>2
    <3> QED BY <3>3, <3>4
  <2> HIDE DEF q
  <2> QED BY <2>2, <2>4 DEF Precedes
<1> QED BY <1>1, <1>7, <1>8 DEF OrderInv

LEMMA ReconnectOrder == StreamInv /\ OrderInv /\ Reconnect => OrderInv'
<1> SUFFICES ASSUME StreamInv, OrderInv, Reconnect PROVE OrderInv'
  OBVIOUS
<1>1. accepted' = accepted /\ Waiting(firstData', wire', Conn') = <<>>
  BY ReconnectDrops DEF Reconnect
<1>2. \A a : Precedes(a, <<>>)
  BY DEF Precedes
<1> QED BY <1>1, <1>2 DEF OrderInv

LEMMA ReadOrder == StreamInv /\ StretchInv /\ OrderInv /\ channelRead => OrderInv'
<1> SUFFICES ASSUME StreamInv, StretchInv, OrderInv, channelRead PROVE OrderInv'
  OBVIOUS
<1> DEFINE q == Waiting(firstData, wire, Conn)
           v == Waiting(firstData', wire', Conn')
<1>1. accepted \in Seq(Seq(Cell)) /\ q \in Seq(Cell) /\ Stretch(sent, q)
  BY WaitingSent DEF StretchInv, StreamInv, StreamTypes
<1>2. v \in Seq(Cell)
  <2>1. firstData' \in Seq(Cell) /\ wire' \in Seq(Cell)
    BY ReadKeeps DEF StreamInv, StreamTypes
  <2> QED BY <2>1, WaitingShape
<1>3. PICK o \in Nat :
        /\ Part(v, q, o)
        /\ \/ accepted' = accepted
           \/ \E x \in Seq(Cell), p \in Nat :
                accepted' = Append(accepted, x) /\ Part(x, q, p) /\ p + Len(x) <= o
  BY ReadTakesFront DEF Takes
<1>4. /\ \A m, n \in 1..Len(accepted) : m < n => Precedes(accepted[m], accepted[n])
      /\ \A m \in 1..Len(accepted) : Precedes(accepted[m], q)
  BY DEF OrderInv
<1> HIDE DEF q, v
<1>5. ASSUME NEW a, NEW x, NEW p \in Nat, Precedes(a, q), Part(x, q, p) PROVE Precedes(a, x)
  BY <1>5 DEF Precedes, Part
<1>6. CASE accepted' = accepted
  <2>1. \A m \in 1..Len(accepted) : Precedes(accepted[m], v)
    BY <1>3, <1>4, <1>5
  <2> QED BY <1>4, <1>6, <2>1 DEF OrderInv, v
<1>7. ASSUME NEW x \in Seq(Cell), NEW p \in Nat, accepted' = Append(accepted, x),
             Part(x, q, p), p + Len(x) <= o
      PROVE  OrderInv'
  <2>1. /\ Len(accepted') = Len(accepted) + 1 /\ Len(accepted) \in Nat
        /\ \A m \in 1..Len(accepted) : accepted'[m] = accepted[m]
        /\ accepted'[Len(accepted) + 1] = x
    BY <1>1, <1>7
  <2>2. PICK z \in Nat : z = Len(accepted)
    BY <2>1
  <2>3. \A m \in 1..(z + 1) : m \in 1..z \/ m = z + 1
    OBVIOUS
  <2>4. Precedes(x, v)
    BY <1>1, <1>2, <1>3, <1>7, PartsOrdered
  <2>5. \A m \in 1..z : Precedes(accepted'[m], v) /\ Precedes(accepted'[m], x)
    BY <1>3, <1>4, <1>5, <1>7, <2>1, <2>2
  <2>6. ASSUME NEW m \in 1..(z + 1), NEW n \in 1..(z + 1), m < n
        PROVE  Precedes(accepted'[m], accepted'[n])
    <3>1. m \in 1..z
      BY <2>6
    <3>2. CASE n \in 1..z
      BY <1>4, <2>1, <2>2, <2>6, <3>1, <3>2
    <3>3. CASE n = z + 1
      BY <2>1, <2>2, <2>5, <3>1, <3>3
    <3> QED BY <2>3, <3>2, <3>3
  <2>7. \A m \in 1..(z + 1) : Precedes(accepted'[m], v)
    BY <2>1, <2>2, <2>3, <2>4, <2>5
  <2> QED BY <2>1, <2>2, <2>6, <2>7 DEF OrderInv, v
<1> QED BY <1>3, <1>6, <1>7

LEMMA OrderInductive == StreamSpec => []OrderInv
<1>1. StreamInit => OrderInv
  BY DEF StreamInit, OrderInv
<1>2. StreamInv /\ StretchInv /\ GenuineInv /\ OrderInv /\ [StreamNext]_streamVars => OrderInv'
  <2>1. OrderInv /\ UNCHANGED streamVars => OrderInv'
    BY DEF OrderInv, streamVars, Conn
  <2> QED BY <2>1, SendOrder, ReadOrder, ReconnectOrder DEF StreamNext
<1> QED BY <1>1, <1>2, FramingInductive, StretchInductive, GenuineInductive, PTL DEF StreamSpec

-----------------------------------------------------------------------------
(* The messages that keep the conversation going *)

Talk == {"hello", "poll", "reading"}

TalkAt(q) == {i \in DOMAIN q : q[i].kind \in Talk}

LEMMA AppendTalk ==
  ASSUME NEW S, NEW q \in Seq(S), NEW m \in S
  PROVE  /\ Append(q, m) \in Seq(S)
         /\ \A i \in DOMAIN q : Append(q, m)[i] = q[i]
         /\ Append(q, m)[Len(q) + 1] = m
         /\ TalkAt(Append(q, m)) =
              TalkAt(q) \cup (IF m.kind \in Talk THEN {Len(q) + 1} ELSE {})
<1>1. /\ Append(q, m) \in Seq(S) /\ Len(q) \in Nat
      /\ DOMAIN q = 1..Len(q) /\ DOMAIN Append(q, m) = 1..(Len(q) + 1)
      /\ \A i \in 1..Len(q) : Append(q, m)[i] = q[i]
      /\ Append(q, m)[Len(q) + 1] = m
  OBVIOUS
<1>2. ASSUME NEW i \in 1..(Len(q) + 1)
      PROVE  i \in TalkAt(Append(q, m)) <=>
               i \in TalkAt(q) \/ (i = Len(q) + 1 /\ m.kind \in Talk)
  BY <1>1 DEF TalkAt
<1> QED BY <1>1, <1>2 DEF TalkAt

\* What is left of a queue when its first n messages are read.
LEMMA RestTalk ==
  ASSUME NEW S
  PROVE  \A q \in Seq(S), n \in Nat : \A r :
           n \in 1..Len(q) /\ r = SubSeq(q, n + 1, Len(q)) =>
             /\ r \in Seq(S)
             /\ \A i \in TalkAt(r) : i + n \in TalkAt(q) /\ r[i] = q[i + n]
             /\ \A i \in TalkAt(q) : i > n => i - n \in TalkAt(r)
<1> SUFFICES ASSUME NEW q \in Seq(S), NEW n \in Nat, NEW r,
                    n \in 1..Len(q), r = SubSeq(q, n + 1, Len(q))
             PROVE  /\ r \in Seq(S)
                    /\ \A i \in TalkAt(r) : i + n \in TalkAt(q) /\ r[i] = q[i + n]
                    /\ \A i \in TalkAt(q) : i > n => i - n \in TalkAt(r)
  OBVIOUS
<1>1. /\ r \in Seq(S) /\ Len(q) \in Nat /\ Len(r) = Len(q) - n
      /\ DOMAIN q = 1..Len(q) /\ DOMAIN r = 1..(Len(q) - n)
      /\ \A i \in 1..(Len(q) - n) : r[i] = q[i + n]
  OBVIOUS
<1>2. ASSUME NEW i \in TalkAt(q), i > n PROVE i - n \in TalkAt(r)
  <2>1. PICK l \in Nat : l = Len(q)
    BY <1>1
  <2>2. i \in 1..l /\ q[i].kind \in Talk
    BY <1>1, <2>1 DEF TalkAt
  <2>3. PICK j \in 1..(l - n) : i = j + n
    <3>1. i - n \in 1..(l - n) /\ i = (i - n) + n
      BY ONLY <1>2, <2>2, n \in Nat, l \in Nat
    <3> QED BY <3>1
  <2>4. i - n = j
    BY ONLY <2>3, n \in Nat, l \in Nat
  <2>5. r[j] = q[i] /\ j \in DOMAIN r
    BY <1>1, <2>1, <2>3
  <2>6. j \in TalkAt(r)
    BY <2>2, <2>5 DEF TalkAt
  <2> QED BY ONLY <2>4, <2>6, Zenon
<1>3. ASSUME NEW i \in TalkAt(r) PROVE i + n \in TalkAt(q) /\ r[i] = q[i + n]
  <2>1. PICK l \in Nat : l = Len(q)
    BY <1>1
  <2>2. i \in 1..(l - n) /\ r[i].kind \in Talk
    BY <1>1, <2>1 DEF TalkAt
  <2>3. i + n \in 1..l
    BY ONLY <2>2, n \in Nat, l \in Nat
  <2>4. r[i] = q[i + n] /\ i + n \in DOMAIN q
    BY <1>1, <2>1, <2>2, <2>3
  <2>5. q[i + n].kind \in Talk
    BY ONLY <2>2, <2>4, Zenon
  <2> QED BY <2>4, <2>5 DEF TalkAt
<1> QED BY <1>1, <1>2, <1>3

-----------------------------------------------------------------------------
(* The inductive invariant *)

RobotMessages == {Hello, Poll} \cup Setting
AppMessages == {Hello} \cup Reading \cup Setting

\* The parts of TypeOK.
FlagTypes == link \in BOOLEAN /\ isConnect \in BOOLEAN /\ seen \in BOOLEAN /\ misfit \in BOOLEAN
QueueTypes ==
  toRobot \in Seq(RobotMessages) /\ toApp \in Seq(AppMessages) /\ uiQueue \in Seq(Setting)
DataTypes ==
  /\ connections \in 0..MaxConnections
  /\ fields \in [Groups -> Inputs] /\ robot \in [Groups -> Values]
  /\ lost \subseteq {"send", "number", "sticky", "silent"} /\ sentBy \subseteq Groups

\* Nothing is under way without a link, and nothing is sent without one.
LinkInv == /\ isConnect => link
           /\ ~link => toRobot = <<>> /\ toApp = <<>>

\* One message of the conversation is under way at most, and one is as long as
\* nothing is lost; when telemetry was shown it is no greeting.
TalkInv ==
  /\ \A i, j \in TalkAt(toRobot) : i = j
  /\ \A i, j \in TalkAt(toApp) : i = j
  /\ TalkAt(toRobot) = {} \/ TalkAt(toApp) = {}
  /\ link /\ lost = {} => TalkAt(toRobot) # {} \/ TalkAt(toApp) # {}
  /\ seen => /\ \A i \in TalkAt(toRobot) : toRobot[i].kind # "hello"
             /\ \A i \in TalkAt(toApp) : toApp[i].kind # "hello"

IInv == FlagTypes /\ QueueTypes /\ DataTypes /\ LinkInv /\ TalkInv

-----------------------------------------------------------------------------
LEMMA InitIInv == Init => IInv
<1> SUFFICES ASSUME Init PROVE IInv
  OBVIOUS
<1>1. FlagTypes
  BY DEF Init, FlagTypes
<1>2. QueueTypes
  BY DEF Init, QueueTypes
<1>3. DataTypes
  BY SessionAssumption DEF Init, DataTypes, Inputs
<1>4. LinkInv /\ TalkInv
  BY DEF Init, LinkInv, TalkInv, TalkAt
<1> QED BY <1>1, <1>2, <1>3, <1>4 DEF IInv

\* A frame has a number of digits, whatever was typed.
LEMMA DigitsCount == ASSUME NEW v \in Values PROVE FrameDigits(v) \in Nat
BY SessionAssumption DEF FrameDigits, HexDigits, addZeroForNum, singleToHex

\* What reading the first message of a queue leaves.
LEMMA FirstRead ==
  ASSUME NEW S, NEW q \in Seq(S), q # <<>>,
         \A i, j \in TalkAt(q) : i = j
  PROVE  /\ Head(q) \in S /\ Head(q) = q[1] /\ Tail(q) \in Seq(S)
         /\ \A i, j \in TalkAt(Tail(q)) : i = j
         /\ \A i \in TalkAt(Tail(q)) : i + 1 \in TalkAt(q) /\ Tail(q)[i] = q[i + 1]
         /\ Head(q).kind \in Talk => 1 \in TalkAt(q) /\ TalkAt(Tail(q)) = {}
         /\ Head(q).kind \notin Talk /\ TalkAt(q) # {} => TalkAt(Tail(q)) # {}
<1>1. /\ Head(q) \in S /\ Head(q) = q[1] /\ Tail(q) = SubSeq(q, 2, Len(q))
      /\ Tail(q) = SubSeq(q, 1 + 1, Len(q))
      /\ Len(q) \in Nat /\ 1 \in 1..Len(q) /\ DOMAIN q = 1..Len(q)
  OBVIOUS
<1>2. /\ Tail(q) \in Seq(S)
      /\ \A i \in TalkAt(Tail(q)) : i + 1 \in TalkAt(q) /\ Tail(q)[i] = q[i + 1]
      /\ \A i \in TalkAt(q) : i > 1 => i - 1 \in TalkAt(Tail(q))
  <2> DEFINE r == Tail(q)
  <2>1. ASSUME NEW n \in Nat, n = 1
        PROVE  /\ r \in Seq(S)
               /\ \A i \in TalkAt(r) : i + n \in TalkAt(q) /\ r[i] = q[i + n]
               /\ \A i \in TalkAt(q) : i > n => i - n \in TalkAt(r)
    <3>1. r = SubSeq(q, n + 1, Len(q))
      BY <1>1, <2>1
    <3>2. \A p \in Seq(S), k \in Nat : \A x :
           k \in 1..Len(p) /\ x = SubSeq(p, k + 1, Len(p)) =>
             /\ x \in Seq(S)
             /\ \A i \in TalkAt(x) : i + k \in TalkAt(p) /\ x[i] = p[i + k]
             /\ \A i \in TalkAt(p) : i > k => i - k \in TalkAt(x)
      BY RestTalk
    <3>3. q \in Seq(S) /\ n \in Nat /\ n \in 1..Len(q)
      BY <1>1, <2>1
    <3> HIDE DEF r
    <3> QED BY ONLY <3>1, <3>2, <3>3, Zenon
  <2> QED BY <2>1
<1>3. \A i \in TalkAt(Tail(q)) : i \in Nat \ {0}
  <2>1. DOMAIN Tail(q) = 1..Len(Tail(q)) /\ Len(Tail(q)) \in Nat
    BY <1>2
  <2> QED BY <2>1 DEF TalkAt
<1>4. \A i, j \in TalkAt(Tail(q)) : i = j
  BY <1>2, <1>3
<1>5. Head(q).kind \in Talk => 1 \in TalkAt(q)
  BY <1>1 DEF TalkAt
<1>6. Head(q).kind \in Talk => TalkAt(Tail(q)) = {}
  BY <1>2, <1>3, <1>5
<1>7. ASSUME Head(q).kind \notin Talk, NEW i \in TalkAt(q) PROVE TalkAt(Tail(q)) # {}
  <2>1. i > 1
    BY <1>1, <1>7 DEF TalkAt
  <2> QED BY <1>2, <2>1
<1> QED BY <1>1, <1>2, <1>4, <1>5, <1>6, <1>7

LEMMA NextIInv == IInv /\ [Next]_vars => IInv'
<1> SUFFICES ASSUME IInv, [Next]_vars PROVE IInv'
  OBVIOUS
<1>i. FlagTypes /\ QueueTypes /\ DataTypes /\ LinkInv /\ TalkInv
  BY DEF IInv
<1>t. /\ toRobot \in Seq(RobotMessages) /\ toApp \in Seq(AppMessages) /\ uiQueue \in Seq(Setting)
      /\ Hello \in RobotMessages /\ Poll \in RobotMessages /\ Hello \in AppMessages
  BY <1>i DEF QueueTypes, RobotMessages, AppMessages
<1>k. /\ Hello.kind = "hello" /\ Poll.kind = "poll"
      /\ \A r \in Reading : r.kind = "reading"
      /\ \A s \in Setting : s.kind = "setting"
  BY DEF Hello, Poll, Reading, Setting
\* The steps that move no message.
<1>u. ASSUME UNCHANGED <<link, isConnect, toRobot, toApp, seen, lost>>
      PROVE  LinkInv' /\ TalkInv'
  BY <1>i, <1>u DEF LinkInv, TalkInv, TalkAt
<1>1. CASE Establish
  <2>1. FlagTypes'
    BY <1>i, <1>1 DEF Establish, FlagTypes
  <2>2. QueueTypes'
    BY <1>i, <1>t, <1>1 DEF Establish, QueueTypes
  <2>3. DataTypes'
    BY <1>i, <1>1, SessionAssumption DEF Establish, DataTypes
  <2>4. toRobot' = <<>> /\ toApp' = <<Hello>> /\ ~seen' /\ link'
    BY <1>i, <1>1 DEF Establish, LinkInv
  <2>5. TalkAt(<<>>) = {} /\ TalkAt(<<Hello>>) = {1}
    BY <1>k DEF TalkAt, Talk
  <2>6. LinkInv' /\ TalkInv'
    BY <2>4, <2>5 DEF LinkInv, TalkInv
  <2> QED BY <2>1, <2>2, <2>3, <2>6 DEF IInv
<1>2. CASE Lose
  <2>1. FlagTypes'
    BY <1>i, <1>2 DEF Lose, FlagTypes
  <2>2. QueueTypes' /\ DataTypes'
    BY <1>i, <1>2 DEF Lose, QueueTypes, DataTypes
  <2>3. TalkAt(<<>>) = {}
    BY DEF TalkAt
  <2>4. LinkInv' /\ TalkInv'
    BY <1>2, <2>3 DEF Lose, LinkInv, TalkInv
  <2> QED BY <2>1, <2>2, <2>4 DEF IInv
<1>3. CASE LateListener
  <2>1. FlagTypes'
    BY <1>i, <1>3 DEF LateListener, FlagTypes
  <2>2. QueueTypes' /\ DataTypes'
    BY <1>i, <1>3 DEF LateListener, QueueTypes, DataTypes
  <2>3. LinkInv'
    BY <1>i, <1>3 DEF LateListener, LinkInv
  <2>4. TalkInv'
    BY <1>i, <1>3 DEF LateListener, TalkInv, TalkAt
  <2> QED BY <2>1, <2>2, <2>3, <2>4 DEF IInv
\* A question is answered by the next message or by nothing, with something lost.
<1>4. CASE Receive
  <2>1. /\ toApp # <<>> /\ toApp' = Tail(toApp) /\ link
        /\ UNCHANGED <<link, isConnect, connections, fields, robot, sentBy, misfit>>
    BY <1>i, <1>4 DEF Receive, LinkInv
  <2> DEFINE m == Head(toApp)
  <2>2. /\ m \in AppMessages /\ toApp' \in Seq(AppMessages)
        /\ m = toApp[1]
        /\ \A i, j \in TalkAt(toApp') : i = j
        /\ \A i \in TalkAt(toApp') : i + 1 \in TalkAt(toApp) /\ toApp'[i] = toApp[i + 1]
        /\ m.kind \in Talk => 1 \in TalkAt(toApp) /\ TalkAt(toApp') = {}
        /\ m.kind \notin Talk /\ TalkAt(toApp) # {} => TalkAt(toApp') # {}
    <3>1. \A i, j \in TalkAt(toApp) : i = j
      BY <1>i DEF TalkInv
    <3>2. toApp \in Seq(AppMessages) /\ toApp # <<>>
      BY <1>t, <2>1
    <3>3. /\ m \in AppMessages /\ m = toApp[1] /\ Tail(toApp) \in Seq(AppMessages)
          /\ \A i, j \in TalkAt(Tail(toApp)) : i = j
          /\ \A i \in TalkAt(Tail(toApp)) :
               i + 1 \in TalkAt(toApp) /\ Tail(toApp)[i] = toApp[i + 1]
          /\ m.kind \in Talk => 1 \in TalkAt(toApp) /\ TalkAt(Tail(toApp)) = {}
          /\ m.kind \notin Talk /\ TalkAt(toApp) # {} => TalkAt(Tail(toApp)) # {}
      BY ONLY <3>1, <3>2, FirstRead
    <3>4. toApp' = Tail(toApp)
      BY <2>1
    <3> QED BY ONLY <3>3, <3>4
  <2>3. analyseHello(m) \/ analyseReading(m) \/ analyseSetting(m)
    BY <1>4 DEF Receive
  <2> HIDE DEF m
  <2>4. /\ toRobot' \in Seq(RobotMessages) /\ uiQueue' \in Seq(Setting)
        /\ lost' \subseteq {"send", "number", "sticky", "silent"}
    <3>1. ASSUME NEW x \in RobotMessages, sendData(x)
          PROVE  toRobot' \in Seq(RobotMessages) /\ lost' \subseteq {"send", "number", "sticky", "silent"}
      <4>1. Append(toRobot, x) \in Seq(RobotMessages)
        BY <1>t
      <4> QED BY <1>i, <1>t, <3>1, <4>1 DEF sendData, DataTypes
    <3>2. CASE analyseHello(m)
      BY <1>t, <3>1, <3>2 DEF analyseHello
    <3>3. CASE analyseReading(m)
      <4>1. CASE sendData(Poll) /\ UNCHANGED uiQueue
        BY <1>t, <3>1, <4>1
      <4>2. CASE lost' = lost \cup {"number"} /\ UNCHANGED <<toRobot, uiQueue>>
        BY <1>i, <1>t, <4>2 DEF DataTypes
      <4> QED BY <3>3, <4>1, <4>2 DEF analyseReading
    <3>4. CASE analyseSetting(m)
      <4>1. m \in Setting /\ toRobot' = toRobot
        BY <1>k, <2>2, <3>4 DEF analyseSetting, AppMessages
      <4>2. Append(uiQueue, m) \in Seq(Setting)
        BY <1>t, <4>1
      <4> QED BY <1>i, <1>t, <3>4, <4>1, <4>2 DEF DataTypes, analyseSetting
    <3> QED BY <2>3, <3>2, <3>3, <3>4
  <2>5. FlagTypes'
    <3>1. seen' = seen \/ seen' = TRUE
      BY <2>3 DEF analyseHello, analyseReading, analyseSetting
    <3> QED BY <1>i, <2>1, <3>1 DEF FlagTypes
  <2>6. QueueTypes' /\ DataTypes' /\ LinkInv'
    BY <1>i, <2>1, <2>2, <2>4 DEF QueueTypes, DataTypes, LinkInv
  <2>7. CASE analyseHello(m)
    <3>1. m.kind = "hello" /\ seen' = seen
      BY <1>k, <2>7 DEF analyseHello
    <3>2. TalkAt(toApp') = {} /\ 1 \in TalkAt(toApp) /\ toApp[1].kind = "hello"
      BY <2>2, <3>1 DEF Talk
    <3>3. TalkAt(toRobot) = {} /\ ~seen
      BY <1>i, <3>2 DEF TalkInv
    <3>4. CASE isConnect /\ toRobot' = Append(toRobot, Hello) /\ UNCHANGED lost
      <4>1. TalkAt(toRobot') = {Len(toRobot) + 1}
        BY <1>t, <1>k, <3>3, <3>4, AppendTalk DEF Talk
      <4> QED BY <2>5, <2>6, <3>1, <3>2, <3>3, <4>1 DEF TalkInv, IInv
    <3>5. CASE lost' # {} /\ UNCHANGED toRobot
      <4>1. TalkAt(toRobot') = {}
        BY <3>3, <3>5 DEF TalkAt
      <4> QED BY <2>5, <2>6, <3>2, <3>5, <4>1 DEF TalkInv, IInv
    <3> QED BY <2>7, <3>4, <3>5 DEF analyseHello, sendData
  <2>8. CASE analyseReading(m)
    <3>1. TalkAt(toApp') = {} /\ TalkAt(toRobot) = {}
      BY <1>i, <2>2, <2>8 DEF analyseReading, TalkInv, Talk
    <3>2. CASE toRobot' = Append(toRobot, Poll)
      <4>1. /\ TalkAt(toRobot') = {Len(toRobot) + 1}
            /\ toRobot'[Len(toRobot) + 1] = Poll
        BY <1>t, <1>k, <3>1, <3>2, AppendTalk DEF Talk
      <4> QED BY <1>k, <2>5, <2>6, <3>1, <4>1 DEF TalkInv, IInv
    <3>3. CASE lost' # {} /\ UNCHANGED toRobot
      <4>1. TalkAt(toRobot') = {}
        BY <3>1, <3>3 DEF TalkAt
      <4> QED BY <2>5, <2>6, <3>1, <3>3, <4>1 DEF TalkInv, IInv
    <3> QED BY <2>8, <3>2, <3>3 DEF analyseReading, sendData
  <2>9. CASE analyseSetting(m)
    <3>1. m.kind \notin Talk /\ toRobot' = toRobot /\ seen' = seen /\ (lost' = {} => lost = {})
      BY <2>9 DEF analyseSetting, Talk
    <3>2. TalkAt(toRobot') = TalkAt(toRobot)
      BY <3>1 DEF TalkAt
    <3>3. TalkAt(toApp) = {} => TalkAt(toApp') = {}
      BY <2>2
    <3>4. TalkInv'
      BY <1>i, <2>1, <2>2, <3>1, <3>2, <3>3 DEF TalkInv
    <3> QED BY <2>5, <2>6, <3>4 DEF IInv
  <2> QED BY <2>3, <2>7, <2>8, <2>9
\* Something is lost, and no message is made.
<1>5. CASE ReceiveSticky
  <2>1. PICK n \in 2..Len(toApp) : toApp' = SubSeq(toApp, n + 1, Len(toApp))
    BY <1>5 DEF ReceiveSticky
  <2>2. Len(toApp) \in Nat /\ n \in 1..Len(toApp) /\ toApp # <<>>
    BY <1>t, <2>1
  <2>3. /\ toApp' \in Seq(AppMessages)
        /\ \A i \in TalkAt(toApp') : i + n \in TalkAt(toApp) /\ toApp'[i] = toApp[i + n]
    <3> DEFINE r == SubSeq(toApp, n + 1, Len(toApp))
    <3>1. /\ r \in Seq(AppMessages)
          /\ \A i \in TalkAt(r) : i + n \in TalkAt(toApp) /\ r[i] = toApp[i + n]
      <4>1. r = SubSeq(toApp, n + 1, Len(toApp))
        OBVIOUS
      <4>2. \A p \in Seq(AppMessages), k \in Nat : \A x :
           k \in 1..Len(p) /\ x = SubSeq(p, k + 1, Len(p)) =>
             /\ x \in Seq(AppMessages)
             /\ \A i \in TalkAt(x) : i + k \in TalkAt(p) /\ x[i] = p[i + k]
             /\ \A i \in TalkAt(p) : i > k => i - k \in TalkAt(x)
        BY RestTalk
      <4>3. toApp \in Seq(AppMessages) /\ n \in Nat /\ n \in 1..Len(toApp)
        BY <1>t, <2>2
      <4> HIDE DEF r
      <4> QED BY ONLY <4>1, <4>2, <4>3, Zenon
    <3> QED BY <2>1, <3>1
  <2>4. FlagTypes'
    BY <1>i, <1>5 DEF ReceiveSticky, FlagTypes
  <2>5. QueueTypes' /\ DataTypes'
    BY <1>i, <1>5, <2>3 DEF ReceiveSticky, QueueTypes, DataTypes
  <2>6. LinkInv'
    BY <1>i, <1>5, <2>2 DEF ReceiveSticky, LinkInv
  <2>7. \A i \in TalkAt(toApp') : i \in Nat
    <3>1. DOMAIN toApp' = 1..Len(toApp') /\ Len(toApp') \in Nat
      BY <2>3
    <3> QED BY <3>1 DEF TalkAt
  <2>8. \A i, j \in TalkAt(toApp') : i = j
    BY <1>i, <2>2, <2>3, <2>7 DEF TalkInv
  <2>9. TalkAt(toRobot') = TalkAt(toRobot) /\ toRobot' = toRobot /\ seen' = seen /\ lost' # {}
    BY <1>5 DEF ReceiveSticky, TalkAt
  <2>10. TalkInv'
    BY <1>i, <2>3, <2>8, <2>9 DEF TalkInv
  <2> QED BY <2>4, <2>5, <2>6, <2>10 DEF IInv
<1>6. CASE ShowSetting
  <2>1. FlagTypes'
    BY <1>i, <1>6 DEF ShowSetting, FlagTypes
  <2>2. Head(uiQueue) \in Setting /\ Tail(uiQueue) \in Seq(Setting)
    BY <1>t, <1>6 DEF ShowSetting
  <2>3. Head(uiQueue).group \in Groups /\ Head(uiQueue).value \in Values
    BY <2>2 DEF Setting
  <2>4. QueueTypes' /\ DataTypes'
    BY <1>i, <1>6, <2>2, <2>3 DEF ShowSetting, QueueTypes, DataTypes, Inputs
  <2> QED BY <1>6, <1>u, <2>1, <2>4 DEF ShowSetting, IInv
\* The robot takes the only question there is, and gives the only answer.
<1>7. CASE Answer
  <2>1. /\ toRobot # <<>> /\ toRobot' = Tail(toRobot) /\ link
        /\ UNCHANGED <<connections, link, isConnect, uiQueue, fields, seen, sentBy, misfit>>
    BY <1>i, <1>7 DEF Answer, AnswerHello, AnswerPoll, AnswerSetting, LinkInv
  <2> DEFINE m == Head(toRobot)
  <2>2. /\ m \in RobotMessages /\ toRobot' \in Seq(RobotMessages)
        /\ m = toRobot[1]
        /\ \A i, j \in TalkAt(toRobot') : i = j
        /\ \A i \in TalkAt(toRobot') :
             i + 1 \in TalkAt(toRobot) /\ toRobot'[i] = toRobot[i + 1]
        /\ m.kind \in Talk => 1 \in TalkAt(toRobot) /\ TalkAt(toRobot') = {}
        /\ m.kind \notin Talk /\ TalkAt(toRobot) # {} => TalkAt(toRobot') # {}
    <3>1. \A i, j \in TalkAt(toRobot) : i = j
      BY <1>i DEF TalkInv
    <3>2. toRobot \in Seq(RobotMessages) /\ toRobot # <<>>
      BY <1>t, <2>1
    <3>3. /\ m \in RobotMessages /\ m = toRobot[1] /\ Tail(toRobot) \in Seq(RobotMessages)
          /\ \A i, j \in TalkAt(Tail(toRobot)) : i = j
          /\ \A i \in TalkAt(Tail(toRobot)) :
               i + 1 \in TalkAt(toRobot) /\ Tail(toRobot)[i] = toRobot[i + 1]
          /\ m.kind \in Talk => 1 \in TalkAt(toRobot) /\ TalkAt(Tail(toRobot)) = {}
          /\ m.kind \notin Talk /\ TalkAt(toRobot) # {} => TalkAt(Tail(toRobot)) # {}
      BY ONLY <3>1, <3>2, FirstRead
    <3>4. toRobot' = Tail(toRobot)
      BY <2>1
    <3> QED BY ONLY <3>3, <3>4
  <2>3. \/ m = Hello /\ UNCHANGED <<robot, toApp>> /\ lost' = lost \cup {"silent"}
        \/ /\ m \in {Hello, Poll} /\ UNCHANGED <<robot, lost>>
           /\ \E r \in Reading : toApp' = Append(toApp, r)
        \/ /\ m.kind = "setting" /\ UNCHANGED lost
           /\ \/ UNCHANGED <<robot, toApp>>
              \/ /\ robot' = [robot EXCEPT ![m.group] = m.value]
                 /\ toApp' = Append(toApp, m)
    BY <1>7 DEF Answer, AnswerHello, AnswerPoll, AnswerSetting
  <2> HIDE DEF m
  <2>4. FlagTypes' /\ LinkInv'
    <3>1. FlagTypes'
      BY <1>i, <2>1 DEF FlagTypes
    <3>2. LinkInv'
      BY <2>1 DEF LinkInv
    <3> QED BY <3>1, <3>2
  <2>5. CASE m = Hello /\ UNCHANGED <<robot, toApp>> /\ lost' = lost \cup {"silent"}
    <3>1. TalkAt(toRobot') = {} /\ TalkAt(toApp) = {}
      BY <1>i, <1>k, <2>2, <2>5 DEF TalkInv, Talk
    <3>2. QueueTypes' /\ DataTypes'
      BY <1>i, <2>1, <2>2, <2>5 DEF QueueTypes, DataTypes
    <3>3. TalkAt(toApp') = {} /\ lost' # {}
      BY <2>5, <3>1 DEF TalkAt
    <3> QED BY <2>4, <3>1, <3>2, <3>3 DEF TalkInv, IInv
  <2>6. CASE /\ m \in {Hello, Poll} /\ UNCHANGED <<robot, lost>>
             /\ \E r \in Reading : toApp' = Append(toApp, r)
    <3>1. TalkAt(toRobot') = {} /\ TalkAt(toApp) = {}
      BY <1>i, <1>k, <2>2, <2>6 DEF TalkInv, Talk
    <3>2. PICK r \in Reading : toApp' = Append(toApp, r)
      BY <2>6
    <3>3. r \in AppMessages /\ r.kind = "reading"
      BY <1>k DEF AppMessages
    <3>4. /\ toApp' \in Seq(AppMessages) /\ TalkAt(toApp') = {Len(toApp) + 1}
          /\ toApp'[Len(toApp) + 1] = r
      BY <1>t, <3>1, <3>2, <3>3, AppendTalk DEF Talk
    <3>5. QueueTypes' /\ DataTypes'
      BY <1>i, <2>1, <2>2, <2>6, <3>4 DEF QueueTypes, DataTypes
    <3> QED BY <2>4, <3>1, <3>3, <3>4, <3>5 DEF TalkInv, IInv
  <2>7. CASE /\ m.kind = "setting" /\ UNCHANGED lost
             /\ \/ UNCHANGED <<robot, toApp>>
                \/ /\ robot' = [robot EXCEPT ![m.group] = m.value]
                   /\ toApp' = Append(toApp, m)
    <3>1. m \in Setting /\ m \in AppMessages /\ m.kind \notin Talk
      BY <1>k, <2>2, <2>7 DEF RobotMessages, AppMessages, Talk
    <3>2. /\ toApp' \in Seq(AppMessages) /\ TalkAt(toApp') = TalkAt(toApp)
          /\ \A i \in TalkAt(toApp) : toApp'[i] = toApp[i]
      <4>1. CASE toApp' = toApp
        BY <1>t, <4>1
      <4>2. CASE toApp' = Append(toApp, m)
        BY <1>t, <3>1, <4>2, AppendTalk DEF TalkAt
      <4> QED BY <2>7, <4>1, <4>2
    <3>3. robot' \in [Groups -> Values]
      <4>1. m.group \in Groups /\ m.value \in Values
        BY <3>1 DEF Setting
      <4> QED BY <1>i, <2>7, <4>1 DEF DataTypes
    <3>4. QueueTypes' /\ DataTypes'
      BY <1>i, <2>1, <2>2, <2>7, <3>2, <3>3 DEF QueueTypes, DataTypes
    <3>5. TalkAt(toRobot) = {} => TalkAt(toRobot') = {}
      BY <2>2
    <3>6. lost' = lost /\ seen' = seen /\ link' = link
      BY <2>1, <2>7
    <3>7. TalkInv'
      BY <1>i, <2>2, <3>1, <3>2, <3>5, <3>6 DEF TalkInv
    <3> QED BY <2>4, <3>4, <3>7 DEF IInv
  <2> QED BY <2>3, <2>5, <2>6, <2>7
<1>8. ASSUME NEW g \in Groups, SendSettings(g) PROVE IInv'
  <2> DEFINE m == [kind |-> "setting", group |-> g, value |-> fields[g],
                   digits |-> FrameDigits(fields[g])]
  <2>1. m \in Setting /\ m \in RobotMessages /\ m.kind \notin Talk
    BY <1>i, <1>8, DigitsCount DEF SendSettings, DataTypes, Inputs, Setting, RobotMessages, Talk
  <2>2. /\ UNCHANGED <<connections, link, isConnect, toApp, uiQueue, fields, robot, seen>>
        /\ sentBy' = sentBy \cup {g}
        /\ sendData(m)
    BY <1>8 DEF SendSettings
  <2>3. misfit' \in BOOLEAN
    <3>1. misfit' = (misfit \/ fields[g].number > 255 \/ fields[g].float = "zero")
      BY <1>8 DEF SendSettings
    <3> QED BY ONLY <3>1
  <2> HIDE DEF m
  <2>4. /\ toRobot' \in Seq(RobotMessages) /\ TalkAt(toRobot') = TalkAt(toRobot)
        /\ \A i \in TalkAt(toRobot) : toRobot'[i] = toRobot[i]
        /\ lost' \subseteq {"send", "number", "sticky", "silent"}
        /\ lost' = {} => lost = {}
        /\ isConnect \/ toRobot' = toRobot
    <3>1. CASE isConnect /\ toRobot' = Append(toRobot, m) /\ UNCHANGED lost
      BY <1>i, <1>t, <2>1, <3>1, AppendTalk DEF DataTypes, TalkAt
    <3>2. CASE lost' = lost \cup {"send"} /\ UNCHANGED toRobot
      BY <1>i, <1>t, <3>2 DEF DataTypes
    <3> QED BY <2>2, <3>1, <3>2 DEF sendData
  <2>5. FlagTypes'
    BY <1>i, <2>2, <2>3 DEF FlagTypes
  <2>6. QueueTypes' /\ DataTypes'
    BY <1>i, <2>2, <2>4 DEF QueueTypes, DataTypes
  <2>7. LinkInv'
    BY <1>i, <2>2, <2>4 DEF LinkInv
  <2>8. TalkAt(toApp') = TalkAt(toApp) /\ toApp' = toApp
    BY <2>2 DEF TalkAt
  <2>9. TalkInv'
    BY <1>i, <2>2, <2>4, <2>8 DEF TalkInv
  <2> QED BY <2>5, <2>6, <2>7, <2>9 DEF IInv
<1>9. ASSUME NEW g \in Groups, NEW v \in Inputs, Type(g, v) PROVE IInv'
  <2>1. FlagTypes'
    BY <1>i, <1>9 DEF Type, FlagTypes
  <2>2. QueueTypes' /\ DataTypes'
    BY <1>i, <1>9 DEF Type, QueueTypes, DataTypes
  <2> QED BY <1>9, <1>u, <2>1, <2>2 DEF Type, IInv
<1>10. CASE UNCHANGED vars
  <2>1. FlagTypes'
    BY <1>i, <1>10 DEF vars, FlagTypes
  <2>2. QueueTypes' /\ DataTypes'
    BY <1>i, <1>10 DEF vars, QueueTypes, DataTypes
  <2> QED BY <1>10, <1>u, <2>1, <2>2 DEF vars, IInv
<1>11. ASSUME NEW g \in Groups, SendEmpty(g) PROVE IInv'
  <2>1. FlagTypes'
    BY <1>i, <1>11 DEF SendEmpty, FlagTypes
  <2>2. QueueTypes' /\ DataTypes'
    BY <1>i, <1>11 DEF SendEmpty, QueueTypes, DataTypes, Inputs
  <2>3. TalkAt(<<>>) = {}
    BY DEF TalkAt
  <2>4. LinkInv' /\ TalkInv'
    BY <1>11, <2>3 DEF SendEmpty, LinkInv, TalkInv
  <2> QED BY <2>1, <2>2, <2>4 DEF IInv
<1> QED BY <1>1, <1>2, <1>3, <1>4, <1>5, <1>6, <1>7, <1>8, <1>9, <1>10, <1>11 DEF Next

LEMMA Invariance == Spec => []IInv
BY InitIInv, NextIInv, PTL DEF Spec

-----------------------------------------------------------------------------
(* The telemetry loop *)

\* What of a queue counts for the turn, as TalkAt says it.
LEMMA RobotTalk ==
  ASSUME NEW q \in Seq(RobotMessages)
  PROVE  InFlight(q, "hello") \cup InFlight(q, "poll") = TalkAt(q)
<1>1. \A m \in RobotMessages : m.kind # "reading"
  BY DEF RobotMessages, Hello, Poll, Setting
<1>2. \A i \in DOMAIN q : q[i].kind # "reading"
  BY <1>1
<1> QED BY <1>2, Zenon DEF InFlight, TalkAt, Talk

LEMMA AppTalk ==
  ASSUME NEW q \in Seq(AppMessages)
  PROVE  InFlight(q, "hello") \cup InFlight(q, "reading") = TalkAt(q)
<1>1. \A m \in AppMessages : m.kind # "poll"
  BY DEF AppMessages, Hello, Reading, Setting
<1>2. \A i \in DOMAIN q : q[i].kind # "poll"
  BY <1>1
<1> QED BY <1>2, Zenon DEF InFlight, TalkAt, Talk

\* The turn of two queues, and what a step of the loop is in terms of them.
TurnOf(up, p, q) ==
  IF ~up THEN "down" ELSE IF TalkAt(p) # {} THEN "robot" ELSE IF TalkAt(q) # {} THEN "app"
  ELSE "dropped"

LEMMA LoopStep == IInv /\ IInv' /\ [Next]_vars => [Loop!LoopNext]_(Loop!loopVars)
<1> SUFFICES ASSUME IInv, IInv', [Next]_vars PROVE [Loop!LoopNext]_(Loop!loopVars)
  OBVIOUS
<1>i. /\ FlagTypes /\ LinkInv /\ TalkInv /\ TalkInv'
      /\ toRobot \in Seq(RobotMessages) /\ toApp \in Seq(AppMessages)
      /\ toRobot' \in Seq(RobotMessages) /\ toApp' \in Seq(AppMessages)
  BY DEF IInv, QueueTypes
<1>t. turn = TurnOf(link, toRobot, toApp) /\ turn' = TurnOf(link', toRobot', toApp')
  <2>1. turn = TurnOf(link, toRobot, toApp)
    BY <1>i, RobotTalk, AppTalk DEF turn, TurnOf
  <2>2. /\ InFlight(toRobot', "hello") \cup InFlight(toRobot', "poll") = TalkAt(toRobot')
        /\ InFlight(toApp', "hello") \cup InFlight(toApp', "reading") = TalkAt(toApp')
    BY <1>i, RobotTalk, AppTalk
  <2>3. turn' = TurnOf(link', toRobot', toApp')
    BY <2>2 DEF turn, TurnOf
  <2> QED BY <2>1, <2>3
<1>k. /\ Hello.kind = "hello" /\ Poll.kind = "poll"
      /\ \A r \in Reading : r.kind = "reading"
      /\ \A x \in Setting : x.kind = "setting"
  BY DEF Hello, Poll, Reading, Setting
\* Steps that leave the conversation alone: whatever goes wrong is trouble.
<1>u. ASSUME link' = link, seen' = seen, lost' = lost \/ lost' # {},
             TalkAt(toRobot') = {} <=> TalkAt(toRobot) = {},
             TalkAt(toApp') = {} <=> TalkAt(toApp) = {}
      PROVE  [Loop!LoopNext]_(Loop!loopVars)
  <2>1. turn' = turn
    BY <1>t, <1>u DEF TurnOf
  <2> QED BY <1>u, <2>1 DEF Loop!LoopNext, Loop!Trouble, Loop!loopVars
<1>1. CASE Establish
  <2>1. toRobot' = <<>> /\ toApp' = <<Hello>> /\ ~seen' /\ seen' = FALSE /\ link' /\ ~link /\ lost' = {}
    BY <1>i, <1>1 DEF Establish, LinkInv
  <2>2. TalkAt(<<>>) = {} /\ TalkAt(<<Hello>>) = {1}
    BY <1>k DEF TalkAt, Talk
  <2>3. turn = "down" /\ turn' = "app"
    BY <1>t, <2>1, <2>2 DEF TurnOf
  <2> QED BY <2>1, <2>3 DEF Loop!LoopNext, Loop!Connect
<1>2. CASE Lose
  <2>1. link /\ ~link' /\ seen' = seen /\ lost' = lost
    BY <1>2 DEF Lose
  <2>2. turn # "down" /\ turn' = "down"
    BY <1>t, <2>1 DEF TurnOf
  <2> QED BY <2>1, <2>2 DEF Loop!LoopNext, Loop!Disconnect
<1>3. CASE LateListener
  BY <1>3, <1>u DEF LateListener
<1>4. CASE Receive
  <2> DEFINE m == Head(toApp)
  <2>1. /\ toApp # <<>> /\ toApp' = Tail(toApp) /\ link' = link /\ link
    BY <1>i, <1>4 DEF Receive, LinkInv
  <2>2. /\ m = toApp[1]
        /\ m.kind \in Talk => 1 \in TalkAt(toApp) /\ TalkAt(toApp') = {}
        /\ m.kind \notin Talk /\ TalkAt(toApp) # {} => TalkAt(toApp') # {}
        /\ \A i \in TalkAt(toApp') : i + 1 \in TalkAt(toApp)
    <3>1. \A i, j \in TalkAt(toApp) : i = j
      BY <1>i DEF TalkInv
    <3>2. /\ m = toApp[1]
          /\ \A i \in TalkAt(Tail(toApp)) : i + 1 \in TalkAt(toApp)
          /\ m.kind \in Talk => 1 \in TalkAt(toApp) /\ TalkAt(Tail(toApp)) = {}
          /\ m.kind \notin Talk /\ TalkAt(toApp) # {} => TalkAt(Tail(toApp)) # {}
      BY ONLY <1>i, <2>1, <3>1, FirstRead
    <3> QED BY ONLY <2>1, <3>2
  <2>3. analyseHello(m) \/ analyseReading(m) \/ analyseSetting(m)
    BY <1>4 DEF Receive
  <2> HIDE DEF m
  \* What was asked goes out, or is lost and with it the turn.
  <2>4. ASSUME m.kind \in Talk, NEW x \in {Hello, Poll}, sendData(x)
        PROVE  /\ turn = "app"
               /\ \/ turn' = "robot" /\ lost' = lost
                  \/ turn' = "dropped" /\ lost' # {}
    <3>1. /\ TalkAt(toApp) # {} /\ TalkAt(toApp') = {} /\ TalkAt(toRobot) = {}
      BY <1>i, <2>2, <2>4 DEF TalkInv
    <3>2. turn = "app"
      BY <1>t, <2>1, <3>1 DEF TurnOf
    <3>3. CASE toRobot' = Append(toRobot, x) /\ UNCHANGED lost
      <4>1. x \in RobotMessages /\ x.kind \in Talk
        BY <1>k DEF RobotMessages, Talk
      <4>2. TalkAt(toRobot') # {}
        BY <1>i, <3>3, <4>1, AppendTalk
      <4> QED BY <1>t, <2>1, <3>2, <3>3, <4>2 DEF TurnOf
    <3>4. CASE lost' # {} /\ UNCHANGED toRobot
      BY <1>t, <2>1, <3>1, <3>2, <3>4 DEF TurnOf
    <3> QED BY <2>4, <3>3, <3>4 DEF sendData
  <2>5. CASE analyseHello(m)
    <3>1. m.kind = "hello" /\ seen' = seen /\ sendData(Hello)
      BY <1>k, <2>5 DEF analyseHello
    <3>2. ~seen
      BY <1>i, <2>2, <3>1 DEF TalkInv, Talk
    <3>3. m.kind \in Talk
      BY <3>1 DEF Talk
    <3>4. /\ turn = "app"
          /\ \/ turn' = "robot" /\ lost' = lost
             \/ turn' = "dropped" /\ lost' # {}
      BY <2>4, <3>1, <3>3
    <3> QED BY <3>1, <3>2, <3>4 DEF Loop!LoopNext, Loop!Greet, Loop!AppDrops
  <2>6. CASE analyseReading(m)
    <3>1. m.kind \in Talk
      BY <2>6 DEF analyseReading, Talk
    <3>2. CASE seen' = TRUE /\ sendData(Poll)
      <4>1. /\ turn = "app"
            /\ \/ turn' = "robot" /\ lost' = lost
               \/ turn' = "dropped" /\ lost' # {}
        BY <2>4, <3>1, <3>2
      <4> QED BY <3>2, <4>1 DEF Loop!LoopNext, Loop!ShowAndAsk, Loop!AppDrops
    <3>3. CASE lost' = lost \cup {"number"} /\ UNCHANGED <<toRobot, seen>>
      <4>1. /\ TalkAt(toApp) # {} /\ TalkAt(toApp') = {} /\ TalkAt(toRobot) = {}
        BY <1>i, <2>2, <3>1 DEF TalkInv
      <4>2. turn = "app" /\ turn' = "dropped" /\ lost' # {}
        BY <1>t, <2>1, <3>3, <4>1 DEF TurnOf
      <4> QED BY <3>3, <4>2 DEF Loop!LoopNext, Loop!AppDrops
    <3> QED BY <2>6, <3>2, <3>3 DEF analyseReading
  <2>7. CASE analyseSetting(m)
    <3>1. /\ m.kind \notin Talk /\ toRobot' = toRobot /\ seen' = seen
          /\ lost' = lost \/ lost' # {}
      BY <2>7 DEF analyseSetting, Talk
    <3>2. TalkAt(toApp') = {} <=> TalkAt(toApp) = {}
      BY <2>2, <3>1
    <3> QED BY <1>u, <2>1, <3>1, <3>2
  <2> QED BY <2>3, <2>5, <2>6, <2>7
\* A read of several messages: with the app's among them the turn is lost.
<1>5. CASE ReceiveSticky
  <2>1. /\ lost' # {} /\ UNCHANGED <<link, toRobot, seen>>
        /\ \E n \in 2..Len(toApp) : toApp' = SubSeq(toApp, n + 1, Len(toApp))
    BY <1>5 DEF ReceiveSticky
  <2>2. toApp # <<>>
    BY <1>i, <2>1
  <2>3. link
    BY <1>i, <2>2 DEF LinkInv
  <2>4. TalkAt(toApp) = {} => TalkAt(toApp') = {}
    <3>1. PICK n \in 2..Len(toApp) : toApp' = SubSeq(toApp, n + 1, Len(toApp))
      BY <2>1
    <3>2. toApp \in Seq(AppMessages) /\ n \in Nat /\ n \in 1..Len(toApp)
      BY <1>i
    <3>3. \A p \in Seq(AppMessages), k \in Nat : \A x :
             k \in 1..Len(p) /\ x = SubSeq(p, k + 1, Len(p)) =>
               /\ x \in Seq(AppMessages)
               /\ \A i \in TalkAt(x) : i + k \in TalkAt(p) /\ x[i] = p[i + k]
               /\ \A i \in TalkAt(p) : i > k => i - k \in TalkAt(x)
      BY RestTalk
    <3>4. \A i \in TalkAt(toApp') : i + n \in TalkAt(toApp)
      BY ONLY <3>1, <3>2, <3>3, Zenon
    <3> QED BY <3>4
  <2>5. CASE TalkAt(toApp') = {} <=> TalkAt(toApp) = {}
    BY <1>u, <2>1, <2>5
  <2>6. CASE TalkAt(toApp') = {} /\ TalkAt(toApp) # {}
    <3>1. TalkAt(toRobot) = {}
      BY <1>i, <2>6 DEF TalkInv
    <3>2. turn = "app" /\ turn' = "dropped"
      BY <1>t, <2>1, <2>3, <2>6, <3>1 DEF TurnOf
    <3> QED BY <2>1, <3>2 DEF Loop!LoopNext, Loop!AppDrops
  <2> QED BY <2>4, <2>5, <2>6
<1>6. CASE ShowSetting
  BY <1>6, <1>u DEF ShowSetting
<1>7. CASE Answer
  <2> DEFINE m == Head(toRobot)
  <2>1. /\ toRobot # <<>> /\ toRobot' = Tail(toRobot) /\ link /\ link' = link /\ seen' = seen
    BY <1>i, <1>7 DEF Answer, AnswerHello, AnswerPoll, AnswerSetting, LinkInv
  <2>2. /\ m = toRobot[1]
        /\ m.kind \in Talk => 1 \in TalkAt(toRobot) /\ TalkAt(toRobot') = {}
        /\ m.kind \notin Talk /\ TalkAt(toRobot) # {} => TalkAt(toRobot') # {}
        /\ \A i \in TalkAt(toRobot') : i + 1 \in TalkAt(toRobot)
    <3>1. \A i, j \in TalkAt(toRobot) : i = j
      BY <1>i DEF TalkInv
    <3>2. /\ m = toRobot[1]
          /\ \A i \in TalkAt(Tail(toRobot)) : i + 1 \in TalkAt(toRobot)
          /\ m.kind \in Talk => 1 \in TalkAt(toRobot) /\ TalkAt(Tail(toRobot)) = {}
          /\ m.kind \notin Talk /\ TalkAt(toRobot) # {} => TalkAt(Tail(toRobot)) # {}
      BY ONLY <1>i, <2>1, <3>1, FirstRead
    <3> QED BY ONLY <2>1, <3>2
  <2>3. \/ m = Hello /\ UNCHANGED toApp /\ lost' # {}
        \/ /\ m \in {Hello, Poll} /\ UNCHANGED lost
           /\ \E r \in Reading : toApp' = Append(toApp, r)
        \/ /\ m.kind = "setting" /\ UNCHANGED lost
           /\ UNCHANGED toApp \/ toApp' = Append(toApp, m)
    BY <1>7 DEF Answer, AnswerHello, AnswerPoll, AnswerSetting
  <2> HIDE DEF m
  <2>4. CASE m = Hello /\ UNCHANGED toApp /\ lost' # {}
    <3>1. m.kind = "hello" /\ m.kind \in Talk
      BY <1>k, <2>4 DEF Talk
    <3>2. TalkAt(toRobot) # {} /\ TalkAt(toRobot') = {} /\ TalkAt(toApp) = {} /\ ~seen
      BY <1>i, <2>2, <3>1 DEF TalkInv
    <3>3. turn = "robot" /\ turn' = "dropped"
      BY <1>t, <2>1, <2>4, <3>2 DEF TurnOf
    <3> QED BY <2>1, <2>4, <3>2, <3>3 DEF Loop!LoopNext, Loop!RobotDrops
  <2>5. CASE /\ m \in {Hello, Poll} /\ UNCHANGED lost
             /\ \E r \in Reading : toApp' = Append(toApp, r)
    <3>1. m.kind \in Talk
      BY <1>k, <2>5 DEF Talk
    <3>2. TalkAt(toRobot) # {} /\ TalkAt(toRobot') = {}
      BY <2>2, <3>1
    <3>3. PICK r \in Reading : toApp' = Append(toApp, r)
      BY <2>5
    <3>4. r \in AppMessages /\ r.kind \in Talk
      BY <1>k DEF AppMessages, Talk
    <3>5. TalkAt(toApp') # {}
      BY <1>i, <3>3, <3>4, AppendTalk
    <3>6. turn = "robot" /\ turn' = "app"
      BY <1>t, <2>1, <3>2, <3>5 DEF TurnOf
    <3> QED BY <2>1, <2>5, <3>6 DEF Loop!LoopNext, Loop!RobotTurn
  <2>6. CASE /\ m.kind = "setting" /\ UNCHANGED lost
             /\ UNCHANGED toApp \/ toApp' = Append(toApp, m)
    <3>1. m.kind \notin Talk
      BY <2>6 DEF Talk
    <3>2. TalkAt(toRobot') = {} <=> TalkAt(toRobot) = {}
      BY <2>2, <3>1
    <3>3. TalkAt(toApp') = {} <=> TalkAt(toApp) = {}
      <4>1. CASE toApp' = toApp
        BY <4>1
      <4>2. CASE toApp' = Append(toApp, m)
        <5>1. m \in RobotMessages
          BY <1>i, <2>1, <2>2
        <5>2. m \in AppMessages
          BY <1>k, <2>6, <5>1 DEF RobotMessages, AppMessages
        <5> QED BY <1>i, <3>1, <4>2, <5>2, AppendTalk
      <4> QED BY <2>6, <4>1, <4>2
    <3> QED BY <1>u, <2>1, <2>6, <3>2, <3>3
  <2> QED BY <2>3, <2>4, <2>5, <2>6
<1>8. ASSUME NEW g \in Groups, SendSettings(g) PROVE [Loop!LoopNext]_(Loop!loopVars)
  <2> DEFINE m == [kind |-> "setting", group |-> g, value |-> fields[g],
                   digits |-> FrameDigits(fields[g])]
  <2>1. UNCHANGED <<link, toApp, seen>> /\ sendData(m)
    BY <1>8 DEF SendSettings
  <2>2. m.kind \notin Talk /\ m \in RobotMessages
    <3>1. DataTypes
      BY DEF IInv
    <3> QED BY <1>8, <3>1, DigitsCount DEF SendSettings, DataTypes, Inputs, Setting, RobotMessages, Talk
  <2> HIDE DEF m
  <2>3. CASE toRobot' = Append(toRobot, m) /\ UNCHANGED lost
    <3>1. TalkAt(Append(toRobot, m)) = TalkAt(toRobot) \cup {}
      <4>1. PICK q \in Seq(RobotMessages) : q = toRobot
        BY <1>i
      <4>2. TalkAt(Append(q, m)) = TalkAt(q) \cup (IF m.kind \in Talk THEN {Len(q) + 1} ELSE {})
        BY ONLY <2>2, AppendTalk, q \in Seq(RobotMessages)
      <4> QED BY ONLY <2>2, <4>1, <4>2
    <3> QED BY <1>u, <2>1, <2>3, <3>1
  <2>4. CASE lost' # {} /\ UNCHANGED toRobot
    BY <1>u, <2>1, <2>4
  <2> QED BY <2>1, <2>3, <2>4 DEF sendData
<1>9. ASSUME NEW g \in Groups, NEW v \in Inputs, Type(g, v) PROVE [Loop!LoopNext]_(Loop!loopVars)
  BY <1>9, <1>u DEF Type
<1>10. CASE UNCHANGED vars
  BY <1>10, <1>u DEF vars
<1>11. ASSUME NEW g \in Groups, SendEmpty(g) PROVE [Loop!LoopNext]_(Loop!loopVars)
  <2>1. ~link' /\ seen' = seen /\ lost' = lost
    BY <1>11 DEF SendEmpty
  <2>2. turn' = "down" /\ (turn = "down" <=> ~link)
    BY <1>t, <2>1 DEF TurnOf
  <2> QED BY <2>1, <2>2 DEF Loop!LoopNext, Loop!Disconnect, Loop!loopVars
<1> QED BY <1>1, <1>2, <1>3, <1>4, <1>5, <1>6, <1>7, <1>8, <1>9, <1>10, <1>11 DEF Next

-----------------------------------------------------------------------------
(* The newest setting of a group on each stretch of its way decides what    *)
(* the robot, and then the text fields, will have                           *)

SettingsAt(q, g) == {i \in DOMAIN q : q[i].kind = "setting" /\ q[i].group = g}

\* The newest setting of group g in the queue, if there is one, has value v.
Newest(q, g, v) ==
  \A i \in SettingsAt(q, g) : (\A j \in SettingsAt(q, g) : j <= i) => q[i].value = v

\* The robot's newest answer is what it has.  Without a misfit it takes every frame.
\* Behind the newest answer the coroutines, and behind them the fields, have what
\* the robot has.
AgreeInv ==
  /\ \A g \in Groups : Newest(toApp, g, robot[g])
  /\ ~misfit => \A i \in InFlight(toRobot, "setting") : toRobot[i].digits = Expected
  /\ link /\ lost = {} /\ ~misfit =>
       \A g \in sentBy :
         SettingsAt(toRobot, g) = {} /\ SettingsAt(toApp, g) = {} =>
           /\ Newest(uiQueue, g, robot[g])
           /\ SettingsAt(uiQueue, g) = {} => fields[g] = robot[g]

\* One more message: a setting is the newest of its group.
LEMMA GrowNewest ==
  ASSUME NEW S, NEW q \in Seq(S), NEW m \in S
  PROVE  /\ \A g, v : m.kind = "setting" /\ m.group = g /\ m.value = v
                        => Newest(Append(q, m), g, v) /\ SettingsAt(Append(q, m), g) # {}
         /\ \A g : ~(m.kind = "setting" /\ m.group = g)
                     => /\ SettingsAt(Append(q, m), g) = SettingsAt(q, g)
                        /\ \A v : Newest(q, g, v) => Newest(Append(q, m), g, v)
<1>1. /\ Len(q) \in Nat /\ DOMAIN q = 1..Len(q) /\ DOMAIN Append(q, m) = 1..(Len(q) + 1)
      /\ \A i \in 1..Len(q) : Append(q, m)[i] = q[i]
      /\ Append(q, m)[Len(q) + 1] = m
  OBVIOUS
<1> DEFINE r == Append(q, m)
<1> HIDE DEF r
<1>2. /\ DOMAIN q = 1..Len(q) /\ DOMAIN r = 1..(Len(q) + 1) /\ Len(q) \in Nat
      /\ \A i \in 1..Len(q) : r[i] = q[i] /\ i \in 1..(Len(q) + 1)
      /\ r[Len(q) + 1] = m
      /\ Len(q) + 1 \in 1..(Len(q) + 1)
  BY <1>1 DEF r
<1>3. ASSUME NEW g, NEW v, m.kind = "setting", m.group = g, m.value = v
      PROVE  Newest(r, g, v) /\ SettingsAt(r, g) # {}
  <2>1. Len(q) + 1 \in SettingsAt(r, g)
    BY <1>2, <1>3 DEF SettingsAt
  <2>2. ASSUME NEW i \in SettingsAt(r, g), \A j \in SettingsAt(r, g) : j <= i
        PROVE  r[i].value = v
    <3>1. i \in 1..(Len(q) + 1) /\ Len(q) + 1 <= i
      BY <1>2, <2>1, <2>2 DEF SettingsAt
    <3>2. i = Len(q) + 1
      BY <1>2, <3>1
    <3> QED BY <1>2, <1>3, <3>2
  <2> QED BY <2>1, <2>2 DEF Newest
<1>4. ASSUME NEW g, ~(m.kind = "setting" /\ m.group = g)
      PROVE  /\ SettingsAt(r, g) = SettingsAt(q, g)
             /\ \A v : Newest(q, g, v) => Newest(r, g, v)
  <2>1. SettingsAt(r, g) = SettingsAt(q, g)
    BY <1>2, <1>4 DEF SettingsAt
  <2>2. \A i \in SettingsAt(q, g) : r[i] = q[i]
    BY <1>2 DEF SettingsAt
  <2> QED BY <2>1, <2>2 DEF Newest
<1>5. \A g, v : m.kind = "setting" /\ m.group = g /\ m.value = v
                  => Newest(r, g, v) /\ SettingsAt(r, g) # {}
  BY <1>3
<1>6. \A g : ~(m.kind = "setting" /\ m.group = g)
               => /\ SettingsAt(r, g) = SettingsAt(q, g)
                  /\ \A v : Newest(q, g, v) => Newest(r, g, v)
  BY <1>4
<1> QED BY ONLY <1>5, <1>6 DEF r

\* The first n messages gone: what is newest stays the newest, unless it went too.
LEMMA RestNewest ==
  ASSUME NEW S
  PROVE  \A q \in Seq(S), n \in Nat : \A r :
           n \in 1..Len(q) /\ r = SubSeq(q, n + 1, Len(q)) =>
             \A g : /\ \A v : Newest(q, g, v) => Newest(r, g, v)
                    /\ \A i \in SettingsAt(r, g) : i + n \in SettingsAt(q, g)
                    /\ \A i \in SettingsAt(q, g) : i > n => SettingsAt(r, g) # {}
<1> SUFFICES ASSUME NEW q \in Seq(S), NEW n \in Nat, NEW r,
                    n \in 1..Len(q), r = SubSeq(q, n + 1, Len(q)), NEW g
             PROVE  /\ \A v : Newest(q, g, v) => Newest(r, g, v)
                    /\ \A i \in SettingsAt(r, g) : i + n \in SettingsAt(q, g)
                    /\ \A i \in SettingsAt(q, g) : i > n => SettingsAt(r, g) # {}
  OBVIOUS
<1>1. /\ r \in Seq(S) /\ Len(q) \in Nat /\ Len(r) = Len(q) - n
      /\ DOMAIN q = 1..Len(q) /\ DOMAIN r = 1..(Len(q) - n)
      /\ \A i \in 1..(Len(q) - n) : r[i] = q[i + n] /\ i + n \in 1..Len(q)
  OBVIOUS
<1>2. ASSUME NEW i \in SettingsAt(q, g), i > n PROVE i - n \in SettingsAt(r, g)
  <2>1. i \in 1..Len(q) /\ q[i].kind = "setting" /\ q[i].group = g
    BY ONLY <1>1, <1>2 DEF SettingsAt
  <2>2. i - n \in 1..(Len(q) - n) /\ (i - n) + n = i
    BY ONLY <1>1, <1>2, <2>1, n \in Nat
  <2> QED BY ONLY <1>1, <2>1, <2>2 DEF SettingsAt
<1>3. ASSUME NEW i \in SettingsAt(r, g)
      PROVE  i \in Nat /\ i + n \in SettingsAt(q, g) /\ r[i] = q[i + n]
  <2>1. i \in 1..(Len(q) - n) /\ r[i].kind = "setting" /\ r[i].group = g
    BY ONLY <1>1, <1>3 DEF SettingsAt
  <2>2. r[i] = q[i + n] /\ i + n \in DOMAIN q
    BY ONLY <1>1, <2>1
  <2> QED BY ONLY <1>1, <2>1, <2>2, n \in Nat DEF SettingsAt
<1>4. ASSUME NEW v, Newest(q, g, v), NEW i \in SettingsAt(r, g),
             \A j \in SettingsAt(r, g) : j <= i
      PROVE  r[i].value = v
  <2>1. ASSUME NEW j \in SettingsAt(q, g) PROVE j <= i + n
    <3>1. j \in Nat /\ i \in Nat
      <4>1. j \in 1..Len(q)
        BY ONLY <1>1, <2>1 DEF SettingsAt
      <4> QED BY ONLY <1>1, <1>3, <1>4, <4>1
    <3>2. CASE j > n
      <4>1. j - n <= i
        BY <1>2, <1>4, <3>2
      <4> QED BY <3>1, <4>1
    <3>3. CASE ~(j > n)
      BY <3>1, <3>3
    <3> QED BY <3>2, <3>3
  <2>2. i + n \in SettingsAt(q, g) /\ r[i] = q[i + n]
    BY <1>3
  <2>3. q[i + n].value = v
    <3>1. PICK k : k = i + n
      OBVIOUS
    <3> QED BY <1>4, <2>1, <2>2, <3>1 DEF Newest
  <2> QED BY <2>2, <2>3
<1> QED BY <1>2, <1>3, <1>4 DEF Newest

\* The same for the first message alone, and what is known of it.
LEMMA FirstNewest ==
  ASSUME NEW S, NEW q \in Seq(S), q # <<>>, NEW g
  PROVE  /\ \A v : Newest(q, g, v) => Newest(Tail(q), g, v)
         /\ SettingsAt(q, g) = {} => SettingsAt(Tail(q), g) = {}
         /\ SettingsAt(Tail(q), g) = {} /\ ~(Head(q).kind = "setting" /\ Head(q).group = g)
              => SettingsAt(q, g) = {}
         /\ \A v : SettingsAt(Tail(q), g) = {} /\ Newest(q, g, v)
                   /\ Head(q).kind = "setting" /\ Head(q).group = g
                     => Head(q).value = v
<1>1. /\ Head(q) \in S /\ Head(q) = q[1] /\ Tail(q) = SubSeq(q, 1 + 1, Len(q))
      /\ Len(q) \in Nat /\ 1 \in 1..Len(q) /\ DOMAIN q = 1..Len(q)
  OBVIOUS
<1>2. /\ \A v : Newest(q, g, v) => Newest(Tail(q), g, v)
      /\ \A i \in SettingsAt(Tail(q), g) : SettingsAt(q, g) # {}
      /\ \A i \in SettingsAt(q, g) : i > 1 => SettingsAt(Tail(q), g) # {}
  <2> DEFINE r == Tail(q)
  <2>1. ASSUME NEW n \in Nat, n = 1
        PROVE  /\ \A v : Newest(q, g, v) => Newest(r, g, v)
               /\ \A i \in SettingsAt(r, g) : i + n \in SettingsAt(q, g)
               /\ \A i \in SettingsAt(q, g) : i > n => SettingsAt(r, g) # {}
    <3>1. r = SubSeq(q, n + 1, Len(q))
      BY <1>1, <2>1
    <3>2. \A p \in Seq(S), k \in Nat : \A x :
            k \in 1..Len(p) /\ x = SubSeq(p, k + 1, Len(p)) =>
              \A h : /\ \A v : Newest(p, h, v) => Newest(x, h, v)
                     /\ \A i \in SettingsAt(x, h) : i + k \in SettingsAt(p, h)
                     /\ \A i \in SettingsAt(p, h) : i > k => SettingsAt(x, h) # {}
      BY RestNewest
    <3>3. q \in Seq(S) /\ n \in Nat /\ n \in 1..Len(q)
      BY <1>1, <2>1
    <3> HIDE DEF r
    <3> QED BY ONLY <3>1, <3>2, <3>3, Zenon
  <2> QED BY <2>1
<1>3. \A i \in SettingsAt(q, g) : i = 1 \/ i > 1
  BY <1>1 DEF SettingsAt
<1>4. 1 \in SettingsAt(q, g) <=> Head(q).kind = "setting" /\ Head(q).group = g
  BY <1>1 DEF SettingsAt
<1>5. ASSUME NEW v, SettingsAt(Tail(q), g) = {}, Newest(q, g, v), 1 \in SettingsAt(q, g)
      PROVE  Head(q).value = v
  <2>1. \A j \in SettingsAt(q, g) : j = 1
    BY <1>2, <1>3, <1>5
  <2>2. \A j \in SettingsAt(q, g) : j <= 1
    BY <2>1
  <2> QED BY <1>1, <1>5, <2>2 DEF Newest
<1>6. SettingsAt(q, g) = {} => SettingsAt(Tail(q), g) = {}
  BY ONLY <1>2
<1>7. SettingsAt(Tail(q), g) = {} /\ 1 \notin SettingsAt(q, g) => SettingsAt(q, g) = {}
  BY ONLY <1>2, <1>3
<1>8. SettingsAt(Tail(q), g) = {} /\ ~(Head(q).kind = "setting" /\ Head(q).group = g)
        => SettingsAt(q, g) = {}
  BY ONLY <1>4, <1>7
<1>9. \A v : SettingsAt(Tail(q), g) = {} /\ Newest(q, g, v)
             /\ Head(q).kind = "setting" /\ Head(q).group = g
               => Head(q).value = v
  BY ONLY <1>4, <1>5
<1> QED BY ONLY <1>2, <1>6, <1>8, <1>9

\* A frame that fits has the digits that the robot expects.
LEMMA FittingFrame ==
  ASSUME NEW v \in Values, ~(v.number > 255), v.float # "zero"
  PROVE  FrameDigits(v) = Expected
<1> DEFINE S == 0..4095
<1>1. S \in SUBSET Nat
  OBVIOUS
<1>2. v \in [number : S, float : {"zero", "plus"}]
  BY SessionAssumption
<1> HIDE DEF S
<1>3. v.number \in Nat /\ v.float = "plus"
  BY <1>1, <1>2
<1> QED BY <1>3 DEF FrameDigits, HexDigits, addZeroForNum, singleToHex, Expected

\* The frames on their way to the robot, when one is sent and when one is taken.
LEMMA FramesSent ==
  ASSUME NEW m \in RobotMessages, toRobot \in Seq(RobotMessages),
         \A i \in InFlight(toRobot, "setting") : toRobot[i].digits = Expected,
         m.kind = "setting" => m.digits = Expected,
         toRobot' = Append(toRobot, m)
  PROVE  \A i \in InFlight(toRobot, "setting")' : toRobot'[i].digits = Expected
<1>1. \A i \in DOMAIN toRobot' : (i \in DOMAIN toRobot /\ toRobot'[i] = toRobot[i]) \/ toRobot'[i] = m
  OBVIOUS
<1> QED BY <1>1 DEF InFlight

LEMMA FramesTaken ==
  ASSUME toRobot \in Seq(RobotMessages), toRobot # <<>>,
         \A i \in InFlight(toRobot, "setting") : toRobot[i].digits = Expected,
         toRobot' = Tail(toRobot)
  PROVE  /\ \A i \in InFlight(toRobot, "setting")' : toRobot'[i].digits = Expected
         /\ Head(toRobot).kind = "setting" => Head(toRobot).digits = Expected
<1>1. /\ Len(toRobot) \in Nat /\ DOMAIN toRobot = 1..Len(toRobot)
      /\ DOMAIN toRobot' = 1..(Len(toRobot) - 1)
      /\ \A i \in 1..(Len(toRobot) - 1) : toRobot'[i] = toRobot[i + 1]
      /\ Head(toRobot) = toRobot[1] /\ 1 \in DOMAIN toRobot
  OBVIOUS
<1>2. \A i \in DOMAIN toRobot' : i + 1 \in DOMAIN toRobot /\ toRobot'[i] = toRobot[i + 1]
  BY <1>1
<1> QED BY <1>1, <1>2 DEF InFlight

LEMMA InitAgree == Init => AgreeInv
BY DEF Init, AgreeInv, Newest, SettingsAt, InFlight

LEMMA NextAgree == IInv /\ AgreeInv /\ [Next]_vars => AgreeInv'
<1> SUFFICES ASSUME IInv, AgreeInv, [Next]_vars PROVE AgreeInv'
  OBVIOUS
<1>t. /\ toRobot \in Seq(RobotMessages) /\ toApp \in Seq(AppMessages) /\ uiQueue \in Seq(Setting)
      /\ Hello \in RobotMessages /\ Poll \in RobotMessages /\ Hello \in AppMessages
      /\ fields \in [Groups -> Inputs] /\ robot \in [Groups -> Values] /\ sentBy \subseteq Groups
  BY DEF IInv, QueueTypes, DataTypes, RobotMessages, AppMessages
<1>k. /\ Hello.kind = "hello" /\ Poll.kind = "poll"
      /\ \A r \in Reading : r.kind = "reading" /\ r \in AppMessages
      /\ \A s \in Setting : s.kind = "setting" /\ s.group \in Groups /\ s.value \in Values
  BY DEF Hello, Poll, Reading, Setting, AppMessages
<1>a. \A g \in Groups : Newest(toApp, g, robot[g])
  BY DEF AgreeInv
<1>f. ~misfit => \A i \in InFlight(toRobot, "setting") : toRobot[i].digits = Expected
  BY DEF AgreeInv
<1>g. link /\ lost = {} /\ ~misfit =>
        \A g \in sentBy :
          SettingsAt(toRobot, g) = {} /\ SettingsAt(toApp, g) = {} =>
            /\ Newest(uiQueue, g, robot[g])
            /\ SettingsAt(uiQueue, g) = {} => fields[g] = robot[g]
  BY DEF AgreeInv
<1>e. \A g : SettingsAt(<<>>, g) = {} /\ SettingsAt(<<Hello>>, g) = {}
  BY <1>k DEF SettingsAt
<1>1. CASE Establish
  <2>1. toRobot' = <<>> /\ toApp' = <<Hello>> /\ sentBy' = {}
    BY <1>1 DEF Establish, IInv, LinkInv
  <2> QED BY <1>e, <2>1 DEF AgreeInv, Newest, InFlight
<1>2. CASE Lose
  BY <1>2, <1>e DEF Lose, AgreeInv, Newest, InFlight
<1>3. CASE LateListener
  BY <1>3, <1>a, <1>f, <1>g DEF LateListener, AgreeInv, InFlight
\* What the newest answer says moves on into the newest coroutine.
<1>4. CASE Receive
  <2> DEFINE m == Head(toApp)
  <2>1. /\ toApp # <<>> /\ toApp' = Tail(toApp) /\ m \in AppMessages
        /\ UNCHANGED <<link, fields, robot, sentBy, misfit>>
    BY <1>4, <1>t DEF Receive
  <2>2. \A g : /\ \A v : Newest(toApp, g, v) => Newest(toApp', g, v)
               /\ SettingsAt(toApp', g) = {} /\ ~(m.kind = "setting" /\ m.group = g)
                    => SettingsAt(toApp, g) = {}
               /\ \A v : SettingsAt(toApp', g) = {} /\ Newest(toApp, g, v)
                         /\ m.kind = "setting" /\ m.group = g
                           => m.value = v
    BY <1>t, <2>1, FirstNewest
  <2>3. analyseHello(m) \/ analyseReading(m) \/ analyseSetting(m)
    BY <1>4 DEF Receive
  <2> HIDE DEF m
  <2>4. \A g \in Groups : Newest(toApp', g, robot'[g])
    BY <1>a, <2>1, <2>2
  <2>5. CASE lost' # {} /\ UNCHANGED toRobot
    <3>1. ~misfit' => \A i \in InFlight(toRobot, "setting")' : toRobot'[i].digits = Expected
      BY <1>f, <2>1, <2>5 DEF InFlight
    <3> QED BY <2>4, <2>5, <3>1 DEF AgreeInv
  <2>6. ASSUME NEW x \in {Hello, Poll}, toRobot' = Append(toRobot, x),
               m.kind # "setting", UNCHANGED <<uiQueue, lost>>
        PROVE  AgreeInv'
    <3>1. x \in RobotMessages /\ x.kind # "setting"
      BY <1>k, <1>t
    <3>2. \A g : SettingsAt(toRobot', g) = SettingsAt(toRobot, g)
      BY <1>t, <2>6, <3>1, GrowNewest
    <3>3. ~misfit' => \A i \in InFlight(toRobot, "setting")' : toRobot'[i].digits = Expected
      BY <1>t, <1>f, <2>1, <2>6, <3>1, FramesSent
    <3> QED BY <1>g, <2>1, <2>2, <2>4, <2>6, <3>2, <3>3 DEF AgreeInv
  <2>7. CASE m.kind = "setting" /\ uiQueue' = Append(uiQueue, m) /\ UNCHANGED <<lost, toRobot>>
    <3>1. m \in Setting
      BY <1>k, <2>1, <2>7 DEF AppMessages, Hello, Reading
    <3>2. ~misfit' => \A i \in InFlight(toRobot, "setting")' : toRobot'[i].digits = Expected
      BY <1>f, <2>1, <2>7 DEF InFlight
    <3>3. ASSUME link', lost' = {}, ~misfit', NEW g \in sentBy',
                 SettingsAt(toRobot', g) = {}, SettingsAt(toApp', g) = {}
          PROVE  /\ Newest(uiQueue', g, robot'[g])
                 /\ SettingsAt(uiQueue', g) = {} => fields'[g] = robot'[g]
      <4>0. g \in Groups /\ g \in sentBy
        BY <1>t, <2>1, <3>3
      <4>1. CASE m.group = g
        <5>1. m.value = robot[g]
          BY <1>a, <2>2, <2>7, <3>3, <4>0, <4>1
        <5>2. Newest(uiQueue', g, robot[g]) /\ SettingsAt(uiQueue', g) # {}
          BY <1>t, <2>7, <3>1, <4>1, <5>1, GrowNewest
        <5> QED BY <2>1, <5>2
      <4>2. CASE m.group # g
        <5>1. SettingsAt(toApp, g) = {}
          BY <2>2, <3>3, <4>2
        <5>2. /\ Newest(uiQueue, g, robot[g])
              /\ SettingsAt(uiQueue, g) = {} => fields[g] = robot[g]
          BY <1>g, <2>1, <2>7, <3>3, <4>0, <5>1
        <5>3. /\ SettingsAt(uiQueue', g) = SettingsAt(uiQueue, g)
              /\ Newest(uiQueue', g, robot[g])
          BY <1>t, <2>7, <3>1, <4>2, <5>2, GrowNewest
        <5> QED BY <2>1, <5>2, <5>3
      <4> QED BY <4>1, <4>2
    <3> QED BY <2>4, <3>2, <3>3 DEF AgreeInv
  <2> QED BY <1>k, <2>3, <2>5, <2>6, <2>7 DEF analyseHello, analyseReading, analyseSetting, sendData
<1>5. CASE ReceiveSticky
  <2>1. PICK n \in 2..Len(toApp) : toApp' = SubSeq(toApp, n + 1, Len(toApp))
    BY <1>5 DEF ReceiveSticky
  <2>2. n \in Nat /\ n \in 1..Len(toApp)
    BY <1>t, <2>1
  <2>3. /\ lost' # {} /\ UNCHANGED <<link, toRobot, uiQueue, fields, robot, sentBy, misfit>>
    BY <1>5 DEF ReceiveSticky
  <2>4. \A g \in Groups : Newest(toApp', g, robot[g])
    <3> DEFINE r == SubSeq(toApp, n + 1, Len(toApp))
    <3>1. \A g \in Groups : Newest(r, g, robot[g])
      <4>1. r = SubSeq(toApp, n + 1, Len(toApp))
        OBVIOUS
      <4>2. \A p \in Seq(AppMessages), k \in Nat : \A x :
              k \in 1..Len(p) /\ x = SubSeq(p, k + 1, Len(p)) =>
                \A g : /\ \A v : Newest(p, g, v) => Newest(x, g, v)
                       /\ \A i \in SettingsAt(x, g) : i + k \in SettingsAt(p, g)
                       /\ \A i \in SettingsAt(p, g) : i > k => SettingsAt(x, g) # {}
        BY RestNewest
      <4>3. toApp \in Seq(AppMessages)
        BY <1>t
      <4> HIDE DEF r
      <4> QED BY ONLY <1>a, <2>2, <4>1, <4>2, <4>3, Zenon
    <3> QED BY <2>1, <3>1
  <2> QED BY <1>f, <2>3, <2>4 DEF AgreeInv, InFlight
\* What the newest coroutine says is written into the fields last.
<1>6. CASE ShowSetting
  <2> DEFINE m == Head(uiQueue)
  <2>1. /\ uiQueue # <<>> /\ uiQueue' = Tail(uiQueue) /\ m \in Setting
        /\ fields' = [fields EXCEPT ![m.group] = m.value]
        /\ UNCHANGED <<link, lost, misfit, toRobot, toApp, robot, sentBy>>
    BY <1>6, <1>t DEF ShowSetting
  <2>2. \A g : /\ \A v : Newest(uiQueue, g, v) => Newest(uiQueue', g, v)
               /\ SettingsAt(uiQueue', g) = {} /\ ~(m.kind = "setting" /\ m.group = g)
                    => SettingsAt(uiQueue, g) = {}
               /\ \A v : SettingsAt(uiQueue', g) = {} /\ Newest(uiQueue, g, v)
                         /\ m.kind = "setting" /\ m.group = g
                           => m.value = v
    BY <1>t, <2>1, FirstNewest
  <2> HIDE DEF m
  <2>3. \A g \in Groups : fields'[g] = IF g = m.group THEN m.value ELSE fields[g]
    BY <1>t, <2>1
  <2>4. m.kind = "setting"
    BY <1>k, <2>1
  <2>5. ASSUME link', lost' = {}, ~misfit', NEW g \in sentBy',
               SettingsAt(toRobot', g) = {}, SettingsAt(toApp', g) = {}
        PROVE  /\ Newest(uiQueue', g, robot'[g])
               /\ SettingsAt(uiQueue', g) = {} => fields'[g] = robot'[g]
    <3>1. /\ Newest(uiQueue, g, robot[g])
          /\ SettingsAt(uiQueue, g) = {} => fields[g] = robot[g]
          /\ g \in Groups
      BY <1>g, <1>t, <2>1, <2>5
    <3>2. SettingsAt(uiQueue', g) = {} => fields'[g] = robot[g]
      BY <2>2, <2>3, <2>4, <3>1
    <3> QED BY <2>1, <2>2, <3>1, <3>2
  <2> QED BY <1>a, <1>f, <2>1, <2>5 DEF AgreeInv, InFlight
\* The robot takes a frame and says so, in one step.
<1>7. CASE Answer
  <2> DEFINE m == Head(toRobot)
  <2>1. /\ toRobot # <<>> /\ toRobot' = Tail(toRobot) /\ m \in RobotMessages
        /\ UNCHANGED <<link, uiQueue, fields, sentBy, misfit>>
    BY <1>7, <1>t DEF Answer, AnswerHello, AnswerPoll, AnswerSetting
  <2>2. \A g : SettingsAt(toRobot', g) = {} /\ ~(m.kind = "setting" /\ m.group = g)
                 => SettingsAt(toRobot, g) = {}
    BY <1>t, <2>1, FirstNewest
  <2>3. ~misfit => /\ \A i \in InFlight(toRobot, "setting")' : toRobot'[i].digits = Expected
                   /\ m.kind = "setting" => m.digits = Expected
    BY <1>t, <1>f, <2>1, FramesTaken
  <2>4. \/ m.kind # "setting" /\ UNCHANGED <<robot, toApp>> /\ lost' # {}
        \/ /\ m.kind # "setting" /\ UNCHANGED <<robot, lost>>
           /\ \E r \in Reading : toApp' = Append(toApp, r)
        \/ m.kind = "setting" /\ m.digits # Expected /\ UNCHANGED <<robot, toApp, lost>>
        \/ /\ m.kind = "setting" /\ UNCHANGED lost
           /\ robot' = [robot EXCEPT ![m.group] = m.value]
           /\ toApp' = Append(toApp, m)
    BY <1>7, <1>k DEF Answer, AnswerHello, AnswerPoll, AnswerSetting
  <2> HIDE DEF m
  <2>5. CASE m.kind # "setting" /\ UNCHANGED <<robot, toApp>> /\ lost' # {}
    BY <1>a, <2>1, <2>3, <2>5 DEF AgreeInv
  <2>6. CASE m.kind = "setting" /\ m.digits # Expected /\ UNCHANGED <<robot, toApp, lost>>
    BY <1>a, <2>1, <2>3, <2>6 DEF AgreeInv
  <2>7. CASE /\ m.kind # "setting" /\ UNCHANGED <<robot, lost>>
             /\ \E r \in Reading : toApp' = Append(toApp, r)
    <3>1. PICK r \in Reading : toApp' = Append(toApp, r)
      BY <2>7
    <3>2. r \in AppMessages /\ r.kind # "setting"
      BY <1>k
    <3>3. \A g : /\ SettingsAt(toApp', g) = SettingsAt(toApp, g)
                 /\ \A v : Newest(toApp, g, v) => Newest(toApp', g, v)
      BY <1>t, <3>1, <3>2, GrowNewest
    <3>4. \A g \in Groups : Newest(toApp', g, robot'[g])
      BY <1>a, <2>7, <3>3
    <3> QED BY <1>g, <2>1, <2>2, <2>3, <2>7, <3>3, <3>4 DEF AgreeInv
  <2>8. CASE /\ m.kind = "setting" /\ UNCHANGED lost
             /\ robot' = [robot EXCEPT ![m.group] = m.value]
             /\ toApp' = Append(toApp, m)
    <3>1. m \in Setting /\ m \in AppMessages /\ m.group \in Groups
      BY <1>k, <2>1, <2>8 DEF RobotMessages, AppMessages, Hello, Poll
    <3>2. \A g \in Groups : robot'[g] = IF g = m.group THEN m.value ELSE robot[g]
      BY <1>t, <2>8, <3>1
    <3>3. /\ \A v : m.value = v => Newest(toApp', m.group, v) /\ SettingsAt(toApp', m.group) # {}
          /\ \A g : g # m.group => /\ SettingsAt(toApp', g) = SettingsAt(toApp, g)
                                   /\ \A v : Newest(toApp, g, v) => Newest(toApp', g, v)
      <4>1. toApp \in Seq(AppMessages) /\ m \in AppMessages /\ m.kind = "setting"
        BY <1>t, <2>8, <3>1
      <4>2. /\ \A g, v : m.kind = "setting" /\ m.group = g /\ m.value = v
                  => /\ Newest(Append(toApp, m), g, v)
                     /\ SettingsAt(Append(toApp, m), g) # {}
            /\ \A g : ~(m.kind = "setting" /\ m.group = g)
                 => /\ SettingsAt(Append(toApp, m), g) = SettingsAt(toApp, g)
                    /\ \A v : Newest(toApp, g, v) => Newest(Append(toApp, m), g, v)
        BY ONLY <4>1, GrowNewest
      <4> QED BY ONLY <2>8, <4>1, <4>2
    <3>4. \A g \in Groups : Newest(toApp', g, robot'[g])
      BY <1>a, <3>2, <3>3
    <3>5. ASSUME link', lost' = {}, ~misfit', NEW g \in sentBy',
                 SettingsAt(toRobot', g) = {}, SettingsAt(toApp', g) = {}
          PROVE  /\ Newest(uiQueue', g, robot'[g])
                 /\ SettingsAt(uiQueue', g) = {} => fields'[g] = robot'[g]
      <4>1. g # m.group /\ g \in Groups
        BY <1>t, <2>1, <3>3, <3>5
      <4>2. SettingsAt(toRobot, g) = {} /\ SettingsAt(toApp, g) = {} /\ robot'[g] = robot[g]
        BY <2>2, <3>2, <3>3, <3>5, <4>1
      <4> QED BY <1>g, <2>1, <2>8, <3>5, <4>2
    <3> QED BY <2>1, <2>3, <3>4, <3>5 DEF AgreeInv
  <2> QED BY <2>4, <2>5, <2>6, <2>7, <2>8
\* What is sent now is the newest setting of its group.
<1>8. ASSUME NEW g \in Groups, SendSettings(g) PROVE AgreeInv'
  <2> DEFINE m == [kind |-> "setting", group |-> g, value |-> fields[g],
                   digits |-> FrameDigits(fields[g])]
  <2>1. /\ m \in Setting /\ m \in RobotMessages
        /\ m.kind = "setting" /\ m.group = g /\ m.digits = FrameDigits(fields[g])
        /\ fields[g] \in Values
    BY <1>t, <1>8, DigitsCount DEF SendSettings, Inputs, Setting, RobotMessages
  <2>2. /\ UNCHANGED <<link, toApp, uiQueue, fields, robot>>
        /\ sentBy' = sentBy \cup {g} /\ sendData(m)
    BY <1>8 DEF SendSettings
  <2>3. ~misfit' => ~misfit /\ m.digits = Expected
    <3>1. misfit' = (misfit \/ fields[g].number > 255 \/ fields[g].float = "zero")
      BY <1>8 DEF SendSettings
    <3>2. ~misfit' => ~misfit /\ ~(fields[g].number > 255) /\ fields[g].float # "zero"
      BY ONLY <3>1, Zenon
    <3> QED BY <2>1, <3>2, FittingFrame
  <2> HIDE DEF m
  <2>4. CASE lost' # {} /\ UNCHANGED toRobot
    BY <1>a, <1>f, <2>2, <2>3, <2>4 DEF AgreeInv, InFlight
  <2>5. CASE toRobot' = Append(toRobot, m) /\ UNCHANGED lost
    <3>1. ~misfit' => \A i \in InFlight(toRobot, "setting")' : toRobot'[i].digits = Expected
      BY <1>t, <1>f, <2>1, <2>3, <2>5, FramesSent
    <3>2. /\ SettingsAt(toRobot', g) # {}
          /\ \A h : h # g => SettingsAt(toRobot', h) = SettingsAt(toRobot, h)
      BY <1>t, <2>1, <2>5, GrowNewest
    <3> QED BY <1>a, <1>g, <2>2, <2>3, <2>5, <3>1, <3>2 DEF AgreeInv
  <2> QED BY <2>2, <2>4, <2>5 DEF sendData
<1>9. ASSUME NEW g \in Groups, NEW v \in Inputs, Type(g, v) PROVE AgreeInv'
  <2>1. /\ fields' = [fields EXCEPT ![g] = v] /\ sentBy' = sentBy \ {g}
        /\ UNCHANGED <<link, lost, misfit, toRobot, toApp, uiQueue, robot>>
    BY <1>9 DEF Type
  <2>2. \A h \in sentBy' : h \in sentBy /\ fields'[h] = fields[h]
    BY <1>t, <2>1
  <2> QED BY <1>a, <1>f, <1>g, <2>1, <2>2 DEF AgreeInv, InFlight
<1>10. CASE UNCHANGED vars
  BY <1>10, <1>a, <1>f, <1>g DEF vars, AgreeInv, InFlight
<1>11. ASSUME NEW g \in Groups, SendEmpty(g) PROVE AgreeInv'
  BY <1>11, <1>e DEF SendEmpty, AgreeInv, Newest, InFlight
<1> QED BY <1>1, <1>2, <1>3, <1>4, <1>5, <1>6, <1>7, <1>8, <1>9, <1>10, <1>11 DEF Next

-----------------------------------------------------------------------------
(* Theorems about the framing *)

\* What the framing holds is made of cells of messages that were sent, and what it
\* acted on has the length of its kind, whatever the robot sends and however its
\* stream is cut and lost.
THEOREM FramingTypes == StreamSpec => []StreamTypeOK
<1>1. StreamInv => StreamTypeOK
  BY DEF StreamInv
<1> QED BY <1>1, FramingInductive, PTL

\* No chunk of one connection is glued to what another left in firstData.
THEOREM OneConnectionAtATime == StreamSpec => []NoMixedConnections
<1>1. StreamInv => NoMixedConnections
  BY DEF StreamInv, OriginInv
<1> QED BY <1>1, FramingInductive, PTL

\* A message that was read to its end and cut cleanly is acted on, whatever was
\* read before it.
THEOREM CleanMessagesActedOn == StreamSpec => []CleanFramesArrive
<1>1. StreamInv => CleanFramesArrive
  BY DEF StreamInv
<1> QED BY <1>1, FramingInductive, PTL

\* Whatever the messages, the cuts and the losses: nothing that is acted on mixes
\* connections, leaves bytes out or takes them out of their order.
THEOREM NothingGluedAcross == StreamSpec => []ActsOnStretches
<1>1. StreamInv /\ StretchInv => ActsOnStretches
  <2> SUFFICES ASSUME StreamInv, StretchInv, NEW m \in Range(accepted)
               PROVE  Stretch(sent, m) /\ analysisAccepts(Bytes(m))
    BY DEF ActsOnStretches
  <2>1. accepted \in Seq(Seq(Cell))
    BY DEF StreamInv, StreamTypes
  <2>2. PICK i \in 1..Len(accepted) : m = accepted[i]
    BY <2>1 DEF Range
  <2> QED BY <2>2 DEF StretchInv
<1> QED BY <1>1, FramingInductive, StretchInductive, PTL

\* If no four messages in a row hide another one, then whatever the robot sends of
\* them, however often and however it is cut and lost, nothing is acted on but a
\* message as it was sent.
THEOREM NoPhantoms ==
  ASSUME Unambiguous
  PROVE  StreamSpec => []OnlySentFrames
<1>1. StreamInv /\ StretchInv /\ GenuineInv => OnlySentFrames
  <2> SUFFICES ASSUME StreamInv, StretchInv, GenuineInv, NEW m \in Range(accepted)
               PROVE  \E f \in Frames : m = Cells(f[1], f[2])
    BY DEF OnlySentFrames
  <2>1. accepted \in Seq(Seq(Cell)) /\ StreamTypes
    BY DEF StreamInv, StreamTypes
  <2>2. PICK i \in 1..Len(accepted) : m = accepted[i]
    BY <2>1 DEF Range
  <2>3. m \in Seq(Cell) /\ Stretch(sent, m) /\ analysisAccepts(Bytes(m)) /\ Genuine(sent, m)
    BY <2>1, <2>2 DEF StretchInv, GenuineInv
  <2> QED BY <2>1, <2>3, WholeMessage
<1> QED BY <1>1, FramingInductive, StretchInductive, GenuineInductive, PTL

\* The same for messages that can be told by their first two bytes alone, without
\* their checksums.
THEOREM NoPhantomsByHeader ==
  ASSUME HeadersOnlyAtStart
  PROVE  StreamSpec => []OnlySentFrames
BY HeadersSuffice, NoPhantoms

\* Messages are acted on in the order in which they were sent, across lost
\* connections too, and no byte is acted on twice.
THEOREM InSendingOrder == StreamSpec => []ActsInOrder
<1>1. StreamInv /\ OrderInv => ActsInOrder
  <2> SUFFICES ASSUME StreamInv, OrderInv, NEW m \in DOMAIN accepted, NEW n \in DOMAIN accepted, m < n,
                      NEW i \in DOMAIN accepted[m], NEW j \in DOMAIN accepted[n]
               PROVE  Before(accepted[m][i], accepted[n][j])
    BY DEF ActsInOrder
  <2>1. accepted \in Seq(Seq(Cell))
    BY DEF StreamInv, StreamTypes
  <2>2. m \in 1..Len(accepted) /\ n \in 1..Len(accepted)
    BY <2>1
  <2>3. i \in 1..Len(accepted[m]) /\ j \in 1..Len(accepted[n])
    BY <2>1, <2>2
  <2> QED BY <2>2, <2>3 DEF OrderInv, Precedes
<1> QED BY <1>1, FramingInductive, OrderInductive, PTL

-----------------------------------------------------------------------------
(* Theorems about the conversation *)

\* Every variable keeps its type: no message reaches a reader it is not meant for.
THEOREM TypeCorrect == Spec => []TypeOK
<1>1. IInv => TypeOK
  BY DEF IInv, FlagTypes, QueueTypes, DataTypes, TypeOK, RobotMessages, AppMessages
<1> QED BY <1>1, Invariance, PTL

\* However connections, settings, losses and listeners interleave, one question or
\* answer is under way at most, and one is while telemetry comes and nothing is
\* lost.
THEOREM OneQuestion == Spec => []OnePoll
<1>1. IInv => OnePoll
  <2> SUFFICES ASSUME IInv PROVE OnePoll
    OBVIOUS
  <2>1. /\ toRobot \in Seq(RobotMessages) /\ toApp \in Seq(AppMessages)
    BY DEF IInv, QueueTypes
  <2>2. \A i \in DOMAIN toRobot : toRobot[i].kind \in {"hello", "poll", "setting"}
    BY <2>1 DEF RobotMessages, Hello, Poll, Setting
  <2>3. \A i \in DOMAIN toApp : toApp[i].kind \in {"hello", "reading", "setting"}
    BY <2>1 DEF AppMessages, Hello, Reading, Setting
  <2>4. InFlight(toRobot, "poll") \subseteq TalkAt(toRobot)
    BY DEF InFlight, TalkAt, Talk
  <2>5. InFlight(toApp, "reading") \subseteq TalkAt(toApp)
    BY DEF InFlight, TalkAt, Talk
  <2>6. ASSUME seen
        PROVE  /\ TalkAt(toRobot) \subseteq InFlight(toRobot, "poll")
               /\ TalkAt(toApp) \subseteq InFlight(toApp, "reading")
    BY <2>2, <2>3, <2>6 DEF IInv, TalkInv, TalkAt, Talk, InFlight
  <2> QED BY <2>4, <2>5, <2>6 DEF IInv, TalkInv, OnePoll
<1> QED BY <1>1, Invariance, PTL

\* The telemetry of a connection is one turn that app and robot hand to each
\* other among whatever else they send, and that is dropped only with trouble, for
\* any settings, losses, listeners and connections.
THEOREM LoopImplemented == Spec => ImplementsPollLoop
<1>1. Init => Loop!LoopInit
  BY DEF Init, turn, Loop!LoopInit
<1> QED BY <1>1, LoopStep, Invariance, PTL DEF Spec, ImplementsPollLoop, Loop!LoopSpec

\* Whatever was typed, sent, answered and shown in whatever order: with nothing
\* under way, nothing lost and no misfit, the fields of a group not typed in since
\* it was sent show what the robot has, stale coroutines of earlier connections
\* included.
THEOREM ShowsSettings == Spec => []SettingsAgree
<1>1. IInv /\ AgreeInv => SettingsAgree
  <2> SUFFICES ASSUME IInv, AgreeInv, link, lost = {}, ~misfit, uiQueue = <<>>,
                      InFlight(toRobot, "setting") = {}, InFlight(toApp, "setting") = {},
                      NEW g \in sentBy
               PROVE  fields[g] = robot[g]
    BY DEF SettingsAgree
  <2>1. SettingsAt(toRobot, g) = {} /\ SettingsAt(toApp, g) = {} /\ SettingsAt(uiQueue, g) = {}
    BY DEF SettingsAt, InFlight
  <2> QED BY <2>1 DEF AgreeInv
<1>2. Spec => []AgreeInv
  BY Invariance, InitAgree, NextAgree, PTL DEF Spec
<1> QED BY <1>1, <1>2, Invariance, PTL
=============================================================================
