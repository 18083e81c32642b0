--------------------------- MODULE LedControlProofs ---------------------------
(***************************************************************************)
(* Theorems about LedControl for any number of toggles.                    *)
(***************************************************************************)
EXTENDS LedControl, TLAPS

-----------------------------------------------------------------------------
(* Sequences that hold no command twice *)

Distinct(s) == \A k, l \in DOMAIN s : s[k] = s[l] => k = l

LEMMA AppendFacts ==
  ASSUME NEW s \in Seq(Toggles), NEW e \in Toggles
  PROVE  /\ Append(s, e) \in Seq(Toggles)
         /\ Commands(Append(s, e)) = Commands(s) \cup {e}
         /\ Distinct(s) /\ e \notin Commands(s) => Distinct(Append(s, e))
<1>1. /\ Append(s, e) \in Seq(Toggles)
      /\ DOMAIN s = 1..Len(s) /\ DOMAIN Append(s, e) = 1..(Len(s) + 1)
      /\ \A k \in 1..Len(s) : Append(s, e)[k] = s[k]
      /\ Append(s, e)[Len(s) + 1] = e
      /\ Len(s) \in Nat
  OBVIOUS
<1>2. Commands(Append(s, e)) = Commands(s) \cup {e}
  <2>1. ASSUME NEW c \in Commands(Append(s, e)) PROVE c \in Commands(s) \cup {e}
    BY <1>1 DEF Commands
  <2>2. ASSUME NEW c \in Commands(s) PROVE c \in Commands(Append(s, e))
    BY <1>1 DEF Commands
  <2>3. e \in Commands(Append(s, e))
    BY <1>1 DEF Commands
  <2> QED BY <2>1, <2>2, <2>3
<1>3. Distinct(s) /\ e \notin Commands(s) => Distinct(Append(s, e))
  BY <1>1 DEF Distinct, Commands
<1> QED BY <1>1, <1>2, <1>3

LEMMA ConcatFacts ==
  ASSUME NEW s \in Seq(Toggles), NEW t \in Seq(Toggles)
  PROVE  /\ s \o t \in Seq(Toggles)
         /\ Commands(s \o t) = Commands(s) \cup Commands(t)
         /\ Distinct(s) /\ Distinct(t) /\ Commands(s) \cap Commands(t) = {}
              => Distinct(s \o t)
<1>1. /\ s \o t \in Seq(Toggles)
      /\ DOMAIN s = 1..Len(s) /\ DOMAIN t = 1..Len(t) /\ Len(s) \in Nat /\ Len(t) \in Nat
      /\ DOMAIN (s \o t) = 1..(Len(s) + Len(t))
  OBVIOUS
<1>2. ASSUME NEW k \in 1..Len(s) PROVE k \in DOMAIN (s \o t) /\ (s \o t)[k] = s[k]
  BY <1>1
<1>3. ASSUME NEW k \in DOMAIN (s \o t), k > Len(s)
      PROVE  k - Len(s) \in 1..Len(t) /\ (s \o t)[k] = t[k - Len(s)]
  BY <1>1, <1>3
<1>4. ASSUME NEW k \in 1..Len(t)
      PROVE  k + Len(s) \in DOMAIN (s \o t) /\ (s \o t)[k + Len(s)] = t[k]
  BY <1>1
<1>5. Commands(s \o t) = Commands(s) \cup Commands(t)
  <2>1. ASSUME NEW k \in DOMAIN (s \o t) PROVE (s \o t)[k] \in Commands(s) \cup Commands(t)
    <3>1. CASE k \in 1..Len(s)  BY <1>1, <1>2, <3>1 DEF Commands
    <3>2. CASE k > Len(s)       BY <1>1, <1>3, <3>2 DEF Commands
    <3> QED BY <1>1, <3>1, <3>2
  <2>2. ASSUME NEW k \in DOMAIN s PROVE s[k] \in Commands(s \o t)
    BY <1>1, <1>2 DEF Commands
  <2>3. ASSUME NEW k \in DOMAIN t PROVE t[k] \in Commands(s \o t)
    BY <1>1, <1>4 DEF Commands
  <2> QED BY <2>1, <2>2, <2>3 DEF Commands
<1>6. ASSUME Distinct(s), Distinct(t), Commands(s) \cap Commands(t) = {}
      PROVE  Distinct(s \o t)
  <2> SUFFICES ASSUME NEW k \in DOMAIN (s \o t), NEW l \in DOMAIN (s \o t),
                      (s \o t)[k] = (s \o t)[l]
               PROVE  k = l
    BY DEF Distinct
  <2>1. CASE k \in 1..Len(s) /\ l \in 1..Len(s)
    BY <1>1, <1>2, <1>6, <2>1 DEF Distinct
  <2>2. CASE k > Len(s) /\ l > Len(s)
    BY <1>1, <1>3, <1>6, <2>2 DEF Distinct
  <2>3. ASSUME NEW m \in 1..Len(s), NEW n \in DOMAIN (s \o t), n > Len(s)
        PROVE  (s \o t)[m] # (s \o t)[n]
    BY <1>1, <1>2, <1>3, <1>6, <2>3 DEF Commands
  <2> QED BY <1>1, <2>1, <2>2, <2>3
<1> QED BY <1>1, <1>5, <1>6

LEMMA TailFacts ==
  ASSUME NEW s \in Seq(Toggles), s # <<>>
  PROVE  /\ Head(s) \in Toggles /\ Tail(s) \in Seq(Toggles)
         /\ Head(s) \in Commands(s)
         /\ Commands(Tail(s)) \subseteq Commands(s)
         /\ Distinct(s) => Distinct(Tail(s)) /\ Head(s) \notin Commands(Tail(s))
<1>1. /\ Head(s) \in Toggles /\ Tail(s) \in Seq(Toggles) /\ Head(s) = s[1]
      /\ Len(s) \in Nat \ {0} /\ DOMAIN s = 1..Len(s)
      /\ DOMAIN Tail(s) = 1..(Len(s) - 1)
      /\ \A k \in 1..(Len(s) - 1) : Tail(s)[k] = s[k + 1]
  OBVIOUS
<1>2. Head(s) \in Commands(s) /\ Commands(Tail(s)) \subseteq Commands(s)
  BY <1>1 DEF Commands
<1>3. ASSUME Distinct(s) PROVE Distinct(Tail(s)) /\ Head(s) \notin Commands(Tail(s))
  BY <1>1, <1>3 DEF Distinct, Commands
<1> QED BY <1>1, <1>2, <1>3

-----------------------------------------------------------------------------
(* The inductive invariant *)

\* A command is in no place before it is written, and then in one place at most,
\* and there once.
OnePlace ==
  /\ Distinct(applied)
  /\ \A i \in Toggles : Distinct(buffer[i]) /\ Distinct(wire[i])
  /\ \A i \in Toggles : /\ Commands(applied) \cap Commands(buffer[i]) = {}
                        /\ Commands(applied) \cap Commands(wire[i]) = {}
  /\ \A i, j \in Toggles : Commands(buffer[i]) \cap Commands(wire[j]) = {}
  /\ \A i, j \in Toggles : i # j => /\ Commands(buffer[i]) \cap Commands(buffer[j]) = {}
                                    /\ Commands(wire[i]) \cap Commands(wire[j]) = {}

Unwritten ==
  \A i \in Toggles : pc[i] \in {"unused", "connect", "writer", "write"} =>
    /\ i \notin Commands(applied)
    /\ \A j \in Toggles : i \notin Commands(buffer[j]) /\ i \notin Commands(wire[j])

\* A thread that writes finds a writer in the field, its own or a later one.
WriterMade ==
  \A i \in Toggles : pc[i] \in {"write", "flush", "close", "done"} => pw \in Toggles

IInv == TypeOK /\ OnePlace /\ Unwritten /\ WriterMade

-----------------------------------------------------------------------------
LEMMA InitIInv == Init => IInv
<1> SUFFICES ASSUME Init PROVE IInv
  OBVIOUS
<1> USE ToggleAssumption DEF Init, Toggles
<1>1. /\ buffer \in [Toggles -> Seq(Toggles)] /\ wire \in [Toggles -> Seq(Toggles)]
      /\ \A i \in Toggles : buffer[i] = <<>> /\ wire[i] = <<>>
  OBVIOUS
<1>2. Commands(<<>>) = {} /\ Distinct(<<>>)
  BY DEF Commands, Distinct
<1>3. TypeOK
  <2>1. pc \in [Toggles -> {"unused"}]
    OBVIOUS
  <2>2. toggled \in 0..MaxToggles /\ pw \in 0..MaxToggles /\ applied \in Seq(Toggles)
    OBVIOUS
  <2> QED BY <1>1, <2>1, <2>2 DEF TypeOK
<1>4. OnePlace /\ Unwritten /\ WriterMade
  BY <1>1, <1>2 DEF OnePlace, Unwritten, WriterMade
<1> QED BY <1>3, <1>4 DEF IInv

\* The steps that move no command.
LEMMA NothingMoves ==
  ASSUME IInv, UNCHANGED <<buffer, wire, applied>>,
         \A i \in Toggles : pc'[i] \in {"unused", "connect", "writer", "write"} =>
                            pc[i] \in {"unused", "connect", "writer", "write"}
  PROVE  OnePlace' /\ Unwritten'
BY DEF IInv, OnePlace, Unwritten

LEMMA NextIInv == IInv /\ [Next]_vars => IInv'
<1> SUFFICES ASSUME IInv, [Next]_vars PROVE IInv'
  OBVIOUS
<1> USE ToggleAssumption DEF IInv
<1>1. ASSUME NEW i \in Toggles, Toggle(i) PROVE IInv'
  <2>1. TypeOK' /\ WriterMade'
    <3>1. overlapped' \in BOOLEAN
      <4>1. overlapped' = (overlapped \/ Len(applied) # toggled)
        BY <1>1 DEF Toggle
      <4> QED BY ONLY <4>1
    <3>2. open' \subseteq {j \in Toggles : pc'[j] \notin {"unused", "connect"}}
      BY <1>1 DEF Toggle, Goto, TypeOK
    <3> QED BY <1>1, <3>1, <3>2 DEF Toggle, Goto, TypeOK, WriterMade, Toggles
  <2>2. OnePlace' /\ Unwritten'
    BY <1>1, NothingMoves DEF Toggle, Goto, TypeOK
  <2> QED BY <2>1, <2>2
<1>2. ASSUME NEW i \in Toggles, Connect(i) PROVE IInv'
  <2>1. TypeOK' /\ WriterMade'
    BY <1>2 DEF Connect, Goto, TypeOK, WriterMade, Toggles
  <2>2. OnePlace' /\ Unwritten'
    BY <1>2, NothingMoves DEF Connect, Goto, TypeOK
  <2> QED BY <2>1, <2>2
<1>3. ASSUME NEW i \in Toggles, MakeWriter(i) PROVE IInv'
  <2>1. TypeOK' /\ WriterMade'
    BY <1>3 DEF MakeWriter, Goto, TypeOK, WriterMade, Toggles
  <2>2. OnePlace' /\ Unwritten'
    BY <1>3, NothingMoves DEF MakeWriter, Goto, TypeOK
  <2> QED BY <2>1, <2>2
\* The command was nowhere; now it is in the buffer of the newest writer.
<1>4. ASSUME NEW i \in Toggles, Write(i) PROVE IInv'
  <2>1. pw \in Toggles /\ pc[i] = "write"
    BY <1>4 DEF Write, Goto, WriterMade
  <2>2. /\ buffer[pw] \in Seq(Toggles)
        /\ buffer' = [buffer EXCEPT ![pw] = Append(buffer[pw], i)]
        /\ UNCHANGED <<wire, applied>>
    BY <1>4, <2>1 DEF Write, TypeOK
  <2>3. /\ Append(buffer[pw], i) \in Seq(Toggles)
        /\ Commands(Append(buffer[pw], i)) = Commands(buffer[pw]) \cup {i}
        /\ Distinct(buffer[pw]) /\ i \notin Commands(buffer[pw])
             => Distinct(Append(buffer[pw], i))
    BY <2>2, AppendFacts
  <2>4. \A j \in Toggles :
          buffer'[j] = IF j = pw THEN Append(buffer[pw], i) ELSE buffer[j]
    BY <2>1, <2>2 DEF TypeOK
  <2>5. /\ i \notin Commands(applied)
        /\ \A j \in Toggles : i \notin Commands(buffer[j]) /\ i \notin Commands(wire[j])
    BY <2>1 DEF Unwritten
  <2>6. TypeOK' /\ WriterMade'
    BY <1>4, <2>1, <2>3 DEF Write, Goto, TypeOK, WriterMade
  <2>7. \A j \in Toggles : /\ Distinct(buffer'[j])
                           /\ Commands(buffer'[j]) \subseteq Commands(buffer[j]) \cup {i}
                           /\ i \in Commands(buffer'[j]) => j = pw
    BY <2>1, <2>3, <2>4, <2>5 DEF OnePlace
  <2>8. OnePlace'
    <3>1. \A j \in Toggles : Commands(applied) \cap Commands(buffer'[j]) = {}
      BY <2>5, <2>7 DEF OnePlace
    <3>2. \A j, k \in Toggles : Commands(buffer'[j]) \cap Commands(wire[k]) = {}
      BY <2>5, <2>7 DEF OnePlace
    <3>3. \A j, k \in Toggles : j # k => Commands(buffer'[j]) \cap Commands(buffer'[k]) = {}
      BY <2>1, <2>5, <2>7 DEF OnePlace
    <3> QED BY <2>2, <2>7, <3>1, <3>2, <3>3 DEF OnePlace
  <2>9. Unwritten'
    BY <1>4, <2>2, <2>7 DEF Unwritten, Write, Goto, TypeOK
  <2> QED BY <2>6, <2>8, <2>9
\* What the newest writer held goes to its socket, or is swallowed.
<1>5. ASSUME NEW i \in Toggles, Flush(i) PROVE IInv'
  <2>1. pw \in Toggles /\ pc[i] = "flush"
    BY <1>5 DEF Flush, Goto, WriterMade
  <2>2. /\ buffer[pw] \in Seq(Toggles) /\ wire[pw] \in Seq(Toggles)
        /\ buffer' = [buffer EXCEPT ![pw] = <<>>]
        /\ UNCHANGED applied
    BY <1>5, <2>1 DEF Flush, TypeOK
  <2>3. /\ wire[pw] \o buffer[pw] \in Seq(Toggles)
        /\ Commands(wire[pw] \o buffer[pw]) = Commands(wire[pw]) \cup Commands(buffer[pw])
        /\ Distinct(wire[pw] \o buffer[pw])
    BY <2>1, <2>2, ConcatFacts DEF OnePlace
  <2>4. \A j \in Toggles :
          /\ buffer'[j] = IF j = pw THEN <<>> ELSE buffer[j]
          /\ \/ wire'[j] = wire[j]
             \/ j = pw /\ wire'[j] = wire[pw] \o buffer[pw]
    BY <1>5, <2>1 DEF Flush, TypeOK
  <2>5. Commands(<<>>) = {} /\ Distinct(<<>>)
    BY DEF Commands, Distinct
  <2>6. TypeOK' /\ WriterMade'
    BY <1>5, <2>1, <2>3 DEF Flush, Goto, TypeOK, WriterMade
  <2>7. \A j \in Toggles :
          /\ Distinct(buffer'[j]) /\ Distinct(wire'[j])
          /\ Commands(buffer'[j]) \subseteq Commands(buffer[j])
          /\ j = pw => Commands(buffer'[j]) = {}
          /\ Commands(wire'[j]) \subseteq
               Commands(wire[j]) \cup (IF j = pw THEN Commands(buffer[j]) ELSE {})
    BY <2>3, <2>4, <2>5 DEF OnePlace
  <2>8. OnePlace'
    <3>1. \A j \in Toggles : /\ Commands(applied) \cap Commands(buffer'[j]) = {}
                             /\ Commands(applied) \cap Commands(wire'[j]) = {}
      BY <2>7 DEF OnePlace
    <3>2. \A j, k \in Toggles : Commands(buffer'[j]) \cap Commands(wire'[k]) = {}
      BY <2>7 DEF OnePlace
    <3>3. \A j, k \in Toggles : j # k => /\ Commands(buffer'[j]) \cap Commands(buffer'[k]) = {}
                                         /\ Commands(wire'[j]) \cap Commands(wire'[k]) = {}
      BY <2>7 DEF OnePlace
    <3> QED BY <2>2, <2>7, <3>1, <3>2, <3>3 DEF OnePlace
  <2>9. Unwritten'
    BY <1>5, <2>2, <2>7 DEF Unwritten, Flush, Goto, TypeOK
  <2> QED BY <2>6, <2>8, <2>9
<1>6. ASSUME NEW i \in Toggles, Close(i) PROVE IInv'
  <2>1. TypeOK' /\ WriterMade'
    BY <1>6 DEF Close, Goto, TypeOK, WriterMade, Toggles
  <2>2. OnePlace' /\ Unwritten'
    BY <1>6, NothingMoves DEF Close, Goto, TypeOK
  <2> QED BY <2>1, <2>2
\* The oldest command of a socket leaves it and is obeyed.
<1>7. ASSUME NEW i \in Toggles, Obey(i) PROVE IInv'
  <2>1. /\ wire[i] \in Seq(Toggles) /\ wire[i] # <<>> /\ applied \in Seq(Toggles)
        /\ applied' = Append(applied, Head(wire[i]))
        /\ wire' = [wire EXCEPT ![i] = Tail(wire[i])]
        /\ UNCHANGED <<buffer, pc, pw>>
    BY <1>7 DEF Obey, TypeOK
  <2> DEFINE c == Head(wire[i])
  <2>2. /\ c \in Toggles /\ Tail(wire[i]) \in Seq(Toggles)
        /\ c \in Commands(wire[i])
        /\ Commands(Tail(wire[i])) \subseteq Commands(wire[i])
        /\ Distinct(Tail(wire[i])) /\ c \notin Commands(Tail(wire[i]))
    BY <2>1, TailFacts DEF OnePlace
  <2>3. c \notin Commands(applied)
    BY <2>2 DEF OnePlace
  <2>4. /\ applied' \in Seq(Toggles)
        /\ Commands(applied') = Commands(applied) \cup {c}
        /\ Distinct(applied')
    BY <2>1, <2>2, <2>3, AppendFacts DEF OnePlace
  <2>5. \A j \in Toggles : wire'[j] = IF j = i THEN Tail(wire[i]) ELSE wire[j]
    BY <2>1 DEF TypeOK
  <2>6. TypeOK' /\ WriterMade'
    BY <1>7, <2>2, <2>4 DEF Obey, TypeOK, WriterMade
  <2> HIDE DEF c
  <2>7. \A j \in Toggles : /\ Distinct(wire'[j])
                           /\ Commands(wire'[j]) \subseteq Commands(wire[j])
                           /\ c \notin Commands(wire'[j])
                           /\ c \notin Commands(buffer[j])
    BY <2>2, <2>5 DEF OnePlace
  <2>8. OnePlace'
    <3>1. \A j \in Toggles : /\ Commands(applied') \cap Commands(buffer[j]) = {}
                             /\ Commands(applied') \cap Commands(wire'[j]) = {}
      BY <2>4, <2>7 DEF OnePlace
    <3>2. \A j, k \in Toggles : Commands(buffer[j]) \cap Commands(wire'[k]) = {}
      BY <2>7 DEF OnePlace
    <3>3. \A j, k \in Toggles : j # k => Commands(wire'[j]) \cap Commands(wire'[k]) = {}
      BY <2>7 DEF OnePlace
    <3> QED BY <2>1, <2>4, <2>7, <3>1, <3>2, <3>3 DEF OnePlace
  <2>9. Unwritten'
    BY <2>1, <2>2, <2>4, <2>7 DEF Unwritten
  <2> QED BY <2>6, <2>8, <2>9
<1>8. CASE UNCHANGED vars
  <2>1. TypeOK' /\ WriterMade'
    BY <1>8 DEF vars, TypeOK, WriterMade
  <2>2. OnePlace' /\ Unwritten'
    BY <1>8, NothingMoves DEF vars
  <2> QED BY <2>1, <2>2
<1> QED BY <1>1, <1>2, <1>3, <1>4, <1>5, <1>6, <1>7, <1>8 DEF Next, Step

LEMMA Invariance == Spec => []IInv
BY InitIInv, NextIInv, PTL DEF Spec

-----------------------------------------------------------------------------
(* Theorems *)

\* Every variable keeps its type: no thread writes before a writer was made.
THEOREM TypeCorrect == Spec => []TypeOK
BY Invariance, PTL DEF IInv

\* Whichever socket it went to, no command is obeyed twice.
THEOREM CommandsObeyedOnce == Spec => []ObeyedOnce
<1>1. IInv => ObeyedOnce
  BY DEF IInv, OnePlace, ObeyedOnce, Distinct
<1> QED BY <1>1, Invariance, PTL

-----------------------------------------------------------------------------
(* Toggles that wait for the light *)

Upto(n) == [i \in 1..n |-> i]

Only(held, i) == \A j \in Toggles : held[j] = IF j = i THEN <<i>> ELSE <<>>

\* Where the command of a lone toggle is: not written, held by its own writer, or
\* on its own socket, which stays open until then.
UnderWay(i) ==
  \/ pc[i] = "connect" /\ Only(buffer, 0) /\ Only(wire, 0)
  \/ pc[i] = "writer" /\ i \in open /\ Only(buffer, 0) /\ Only(wire, 0)
  \/ pc[i] = "write" /\ i \in open /\ pw = i /\ Only(buffer, 0) /\ Only(wire, 0)
  \/ pc[i] = "flush" /\ i \in open /\ pw = i /\ Only(buffer, i) /\ Only(wire, 0)
  \/ pc[i] \in {"close", "done"} /\ Only(buffer, 0) /\ Only(wire, i)

LoneInv ==
  /\ \A i \in Toggles : pc[i] = "unused" <=> i > toggled
  /\ ~overlapped =>
       /\ \A i \in Toggles : i < toggled => pc[i] \in {"close", "done"}
       /\ \/ /\ applied = Upto(toggled) /\ Only(buffer, 0) /\ Only(wire, 0)
             /\ toggled > 0 => pc[toggled] \in {"close", "done"}
          \/ toggled > 0 /\ applied = Upto(toggled - 1) /\ UnderWay(toggled)

LEMMA UptoFacts ==
  ASSUME NEW n \in Nat
  PROVE  Len(Upto(n)) = n /\ Append(Upto(n), n + 1) = Upto(n + 1)
<1>1. Upto(n) \in Seq(Nat) /\ Upto(n + 1) \in Seq(Nat)
  BY DEF Upto
<1>2. Len(Upto(n)) = n /\ Len(Upto(n + 1)) = n + 1
  BY DEF Upto
<1>3. Append(Upto(n), n + 1) \in Seq(Nat) /\ Len(Append(Upto(n), n + 1)) = n + 1
  BY <1>1, <1>2
<1>4. ASSUME NEW k \in 1..(n + 1) PROVE Append(Upto(n), n + 1)[k] = Upto(n + 1)[k]
  BY <1>1, <1>2 DEF Upto
<1> QED BY <1>1, <1>2, <1>3, <1>4

LEMMA LoneHolds == IInv /\ LoneInv /\ [Next]_vars => LoneInv'
<1> SUFFICES ASSUME IInv, LoneInv, [Next]_vars PROVE LoneInv'
  OBVIOUS
<1> USE ToggleAssumption DEF IInv
<1>a. toggled \in Nat /\ toggled <= MaxToggles /\ (toggled > 0 => toggled \in Toggles)
  BY DEF TypeOK, Toggles
\* The new toggle is lone only if the one before has been obeyed.
<1>1. ASSUME NEW i \in Toggles, Toggle(i) PROVE LoneInv'
  <2>0. /\ toggled' = i /\ i = toggled + 1 /\ toggled \in Nat
        /\ \A j \in Toggles : pc'[j] = IF j = i THEN "connect" ELSE pc[j]
        /\ UNCHANGED <<buffer, wire, applied>>
    BY <1>1, <1>a DEF Toggle, Goto, TypeOK
  <2>1. \A j \in Toggles : pc'[j] = "unused" <=> j > toggled'
    <3>1. \A j \in Toggles : pc[j] = "unused" <=> j > toggled
      BY DEF LoneInv
    <3> QED BY <2>0, <3>1 DEF Toggles
  <2>2. ASSUME ~overlapped'
        PROVE  /\ \A j \in Toggles : j < toggled' => pc'[j] \in {"close", "done"}
               /\ applied' = Upto(toggled' - 1) /\ UnderWay(toggled)'
    <3>1. overlapped' = (overlapped \/ Len(applied) # toggled)
      BY <1>1 DEF Toggle
    <3>2. ~overlapped /\ Len(applied) = toggled
      BY ONLY <3>1, <2>2
    <3>3. applied # Upto(toggled - 1) \/ toggled = 0
      <4>1. ASSUME toggled > 0 PROVE Len(Upto(toggled - 1)) = toggled - 1
        <5>1. PICK n \in Nat : n = toggled - 1
          BY <2>0, <4>1
        <5>2. Len(Upto(n)) = n
          BY UptoFacts
        <5> QED BY ONLY <5>1, <5>2, Zenon
      <4> QED BY <2>0, <3>2, <4>1
    <3>4. /\ \A j \in Toggles : j < toggled => pc[j] \in {"close", "done"}
          /\ applied = Upto(toggled) /\ Only(buffer, 0) /\ Only(wire, 0)
          /\ toggled > 0 => pc[toggled] \in {"close", "done"}
      BY <3>2, <3>3 DEF LoneInv
    <3>5. \A j \in Toggles : j < toggled' => pc'[j] \in {"close", "done"}
      <4>1. ASSUME NEW j \in Toggles, j < toggled' PROVE pc'[j] = pc[j] /\ j <= toggled
        BY <2>0, <4>1 DEF Toggles
      <4>2. ASSUME NEW j \in Toggles, j <= toggled PROVE pc[j] \in {"close", "done"}
        BY <2>0, <3>4, <4>2 DEF Toggles
      <4> QED BY <4>1, <4>2
    <3>6. UnderWay(toggled)'
      BY <2>0, <3>4 DEF UnderWay, Only
    <3>7. applied' = Upto(toggled' - 1)
      BY <2>0, <3>4
    <3> QED BY <3>5, <3>6, <3>7
  <2>3. toggled' > 0
    BY <2>0
  <2> QED BY <2>1, <2>2, <2>3 DEF LoneInv
\* A thread that is not the newest can only close.
<1>2. ASSUME NEW i \in Toggles, Step(i) PROVE LoneInv'
  <2>1. /\ toggled' = toggled /\ applied' = applied /\ overlapped' = overlapped
        /\ i <= toggled
        /\ \A j \in Toggles : j # i => pc'[j] = pc[j]
        /\ \A j \in Toggles : j # i => (j \in open' <=> j \in open)
    BY <1>2, <1>a
    DEF Step, Connect, MakeWriter, Write, Flush, Close, Goto, LoneInv, TypeOK, Toggles
  <2>2. \A j \in Toggles : pc'[j] = "unused" <=> j > toggled'
    BY <1>2, <2>1, <1>a
    DEF Step, Connect, MakeWriter, Write, Flush, Close, Goto, LoneInv, TypeOK
  <2>3. CASE ~overlapped /\ i < toggled
    <3>1. Close(i) /\ pc'[i] = "done"
      BY <1>2, <2>3 DEF Step, Connect, MakeWriter, Write, Flush, Close, Goto, LoneInv, TypeOK
    <3>2. /\ UNCHANGED <<buffer, wire, pw>>
          /\ toggled > 0 => pc'[toggled] = pc[toggled] /\ (toggled \in open' <=> toggled \in open)
      BY <3>1, <2>1, <2>3, <1>a DEF Close
    <3>3. \A j \in Toggles : j < toggled => pc'[j] \in {"close", "done"}
      BY <2>1, <2>3, <3>1 DEF LoneInv
    <3> QED BY <2>1, <2>2, <2>3, <3>2, <3>3 DEF LoneInv, UnderWay, Only
  <2>4. CASE ~overlapped /\ i = toggled
    <3>1. \A j \in Toggles : j < toggled' => pc'[j] \in {"close", "done"}
      BY <2>1, <2>4 DEF LoneInv, Toggles
    <3>2. CASE Close(i)
      BY <2>1, <2>2, <2>4, <3>1, <3>2, <1>a DEF Close, Goto, LoneInv, UnderWay, Only, TypeOK
    <3>3. CASE ~Close(i)
      <4>1. i \in Toggles /\ pc[i] \in {"connect", "writer", "write", "flush"}
        BY <1>2, <3>3 DEF Step, Connect, MakeWriter, Write, Flush, Goto
      <4>2. applied = Upto(toggled - 1) /\ UnderWay(i)
        <5>1. toggled > 0 /\ ~(pc[toggled] \in {"close", "done"})
          BY <2>4, <4>1, <1>a DEF Toggles
        <5>2. ~overlapped
          BY <2>4
        <5>3. applied = Upto(toggled - 1) /\ UnderWay(toggled)
          BY <5>1, <5>2, Zenon DEF LoneInv
        <5> QED BY <2>4, <5>3
      <4>3. UnderWay(i)'
        <5>1. CASE Connect(i)
          BY <4>2, <5>1 DEF Connect, Goto, UnderWay, Only, TypeOK
        <5>2. CASE MakeWriter(i)
          BY <4>2, <5>2 DEF MakeWriter, Goto, UnderWay, Only, TypeOK
        <5>3. CASE Write(i)
          <6>1. pw = i /\ i \in open /\ Only(buffer, 0) /\ Only(wire, 0) /\ pc'[i] = "flush"
            BY <4>2, <5>3 DEF Write, Goto, UnderWay, TypeOK
          <6>2. Append(<<>>, i) = <<i>> /\ i # 0
            BY DEF Toggles
          <6>a. \A j \in Toggles : buffer[j] = <<>>
            BY <6>1 DEF Only, Toggles
          <6>b. buffer' = [buffer EXCEPT ![i] = Append(<<>>, i)]
            BY <5>3, <6>1, <6>a DEF Write
          <6>3. \A j \in Toggles : buffer'[j] = IF j = i THEN <<i>> ELSE <<>>
            BY <6>a, <6>b, <6>2 DEF TypeOK
          <6> QED BY <5>3, <6>1, <6>3 DEF Write, UnderWay, Only
        <5>4. CASE Flush(i)
          <6>1. pw = i /\ i \in open /\ Only(buffer, i) /\ Only(wire, 0) /\ pc'[i] = "close"
            BY <4>2, <5>4 DEF Flush, Goto, UnderWay, TypeOK
          <6>2. <<>> \o <<i>> = <<i>> /\ i # 0
            BY DEF Toggles
          <6>a. \A j \in Toggles : /\ wire[j] = <<>>
                                   /\ buffer[j] = IF j = i THEN <<i>> ELSE <<>>
            BY <6>1 DEF Only, Toggles
          <6>b. /\ buffer' = [buffer EXCEPT ![i] = <<>>]
                /\ wire' = [wire EXCEPT ![i] = <<>> \o <<i>>]
            BY <5>4, <6>1, <6>a DEF Flush
          <6>3. \A j \in Toggles : /\ buffer'[j] = <<>>
                                   /\ wire'[j] = IF j = i THEN <<i>> ELSE <<>>
            BY <6>a, <6>b, <6>2 DEF TypeOK
          <6> QED BY <6>1, <6>3 DEF UnderWay, Only, Toggles
        <5> QED BY <1>2, <3>3, <5>1, <5>2, <5>3, <5>4 DEF Step
      <4> QED BY <2>1, <2>2, <2>4, <3>1, <4>2, <4>3, <1>a DEF LoneInv, Toggles
    <3> QED BY <3>2, <3>3
  <2> QED BY <2>1, <2>2, <2>3, <2>4, <1>a DEF LoneInv, Toggles
\* Only the command of the newest toggle can be on its way.
<1>3. ASSUME NEW i \in Toggles, Obey(i) PROVE LoneInv'
  <2> USE <1>3 DEF Obey
  <2>1. \A j \in Toggles : pc'[j] = "unused" <=> j > toggled'
    BY DEF LoneInv
  <2>2. ASSUME ~overlapped
        PROVE  /\ applied' = Upto(toggled) /\ Only(buffer, 0) /\ Only(wire, 0)'
               /\ toggled > 0 /\ pc[toggled] \in {"close", "done"}
    <3>1. ~Only(wire, 0)
      BY DEF Only, Toggles
    <3>2. toggled > 0 /\ applied = Upto(toggled - 1) /\ UnderWay(toggled)
      BY <2>2, <3>1 DEF LoneInv
    <3>3. pc[toggled] \in {"close", "done"} /\ Only(buffer, 0) /\ Only(wire, toggled)
      BY <3>1, <3>2 DEF UnderWay
    <3>4. i = toggled /\ wire[i] = <<i>>
      BY <3>3 DEF Only
    <3>5. Head(<<i>>) = i /\ Tail(<<i>>) = <<>>
      OBVIOUS
    <3>6. applied' = Append(Upto(i - 1), i)
      BY <3>2, <3>4, <3>5
    <3>7. applied' = Upto(i)
      BY <3>4, <3>6, UptoFacts, i - 1 \in Nat, (i - 1) + 1 = i DEF Toggles
    <3>8. \A j \in Toggles : wire'[j] = <<>>
      BY <3>3, <3>4, <3>5 DEF Only, TypeOK
    <3> QED BY <3>2, <3>3, <3>4, <3>7, <3>8 DEF Only, Toggles
  <2> QED BY <2>1, <2>2 DEF LoneInv, Only
<1>4. CASE UNCHANGED vars
  BY <1>4 DEF vars, LoneInv, UnderWay, Only
<1> QED BY <1>1, <1>2, <1>3, <1>4 DEF Next

\* Toggles each of which waits for the light lose nothing and change nothing's
\* order, however many there are.
THEOREM LoneTogglesInOrder == Spec => []LoneTogglesObeyed
<1>1. Init => LoneInv
  <2> SUFFICES ASSUME Init PROVE LoneInv
    OBVIOUS
  <2>1. Upto(0) = <<>>
    BY DEF Upto
  <2> QED BY <2>1, ToggleAssumption DEF Init, LoneInv, Only, Toggles
<1>2. IInv /\ LoneInv => LoneTogglesObeyed
  BY DEF IInv, LoneInv, LoneTogglesObeyed, Upto
<1> QED BY <1>1, <1>2, LoneHolds, Invariance, PTL DEF Spec
=============================================================================
