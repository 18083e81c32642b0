-------------------------- MODULE FpvPlaybackProofs --------------------------
(***************************************************************************)
(* Theorems about FpvPlayback, for every number of starts and of frames.   *)
(*                                                                         *)
(* None of the invariants is inductive.  That the newest renderer is the   *)
(* only one needs the phases of stopPlayback: the field is empty exactly   *)
(* from join() to the next startPlayback, and a thread no start has made   *)
(* has not run.  That the queue is sound needs who is in the monitor, what *)
(* an offer or a poll half-way through has already changed, and that the   *)
(* size stays within the units that were decoded.  The order of the frames *)
(* needs that order in the queue and the decoder as well, and what a       *)
(* renderer holds after a poll.                                            *)
(***************************************************************************)
EXTENDS FpvPlayback, SequenceTheorems, TLAPS

Alive(r) == rpc[r] \notin {"none", "dead"}

\* The phases of the main thread, the flag and the field rendererThread.
ThreadInv ==
  /\ \A r \in Renderers : r > starts => rpc[r] = "none"
  /\ main # "idle" => ~mRun
  /\ main \in {"notify", "join"} => rendererThread # 0
  /\ main \in {"clear", "zero", "destroy"} => rendererThread = 0
  /\ main = "idle" => (mRun <=> rendererThread # 0)
  /\ ~restarted => \A r \in Renderers : Alive(r) => r = rendererThread

\* The monitor has one holder; what the poll in it has read is the queue, unless
\* clear has come by, which a poll meets only if it is of a renderer left over.
MonitorInv ==
  /\ \A r, q \in Renderers : rpc[r] \in InPoll /\ rpc[q] \in InPoll => r = q
  /\ Offering => ~Polling
  /\ \A r \in Renderers : rpc[r] = "unlink" => nodes # <<>>
  /\ (\A r \in Renderers : rpc[r] # "unlink") => nodes = <<>>
  /\ \A r \in Renderers : rpc[r] = "empty" => items = <<>>
  /\ "poll" \notin torn => \A r \in Renderers : rpc[r] = "unlink" => nodes = items
  /\ ~restarted => "poll" \notin torn

\* Units the executor is done with; nodes that are in the queue and not yet in its
\* size, and those that are out of it and still counted.
Made == units - (IF exec = "idle" THEN 0 ELSE 1)
Linked == IF exec = "count" THEN 1 ELSE 0
Unlinked == IF \E r \in Renderers : rpc[r] \in {"empty", "less"} THEN 1 ELSE 0

\* However a clear falls into offers and polls, the size stays within the units done
\* with, above zero and below, because the nodes do.
Balanced(made, linked, unlinked, inQueue, inHand, count) ==
  /\ 0 <= made /\ count <= made
  /\ inQueue + unlinked <= made + linked
  /\ inQueue + unlinked <= count + made + linked
  /\ inHand <= made /\ inHand <= count + made

SizeInv == Balanced(Made, Linked, Unlinked, Len(items), Len(nodes), size)

\* What the queue's fields hold between any two steps, unless a clear has run
\* inside an offer or a poll.
QueueInv ==
  torn = {} =>
    /\ last = (IF items = <<>> /\ \A r \in Renderers : rpc[r] # "empty" THEN "null" ELSE "linked")
    /\ main = "zero" => items = <<>> /\ ~Locked
    /\ exec = "link" => oldLast = last
    /\ main # "zero" => Len(items) + Unlinked = size + Linked

IInv == TypeOK /\ ThreadInv /\ MonitorInv /\ SizeInv /\ QueueInv

-----------------------------------------------------------------------------
USE DEF RendererStates, InPoll

\* notify() moves at most renderers that wait.
LEMMA NotifyWakes ==
  ASSUME rpc \in [Renderers -> RendererStates],
         Notify(rpc)
  PROVE  /\ rpc' \in [Renderers -> RendererStates]
         /\ \A r \in Renderers : rpc'[r] = rpc[r] \/ (rpc[r] = "wait" /\ rpc'[r] = "woken")
BY DEF Notify, Waiting

\* What Head, Tail and Append give of a sequence over S.
LEMMA SeqFacts ==
  ASSUME NEW S, NEW q \in Seq(S)
  PROVE  /\ Len(q) \in Nat
         /\ q = <<>> <=> Len(q) = 0
         /\ q # <<>> => Head(q) \in S /\ Tail(q) \in Seq(S) /\ Len(Tail(q)) = Len(q) - 1
         /\ \A e \in S : /\ Append(q, e) \in Seq(S) /\ Append(q, e) # <<>>
                         /\ Len(Append(q, e)) = Len(q) + 1
BY HeadTailProperties, AppendProperties, EmptySeq

\* What a sequence over S holds is in S.
LEMMA ElementOf ==
  ASSUME NEW S, NEW q \in Seq(S), NEW k \in DOMAIN q
  PROVE  q[k] \in S
OBVIOUS

\* The numbers of SizeInv are integers; what the invariant leaves room for.
LEMMA SizeBounds ==
  ASSUME TypeOK, SizeInv
  PROVE  /\ Made \in Int /\ Linked \in 0..1 /\ Unlinked \in 0..1
         /\ Len(items) \in Nat /\ Len(nodes) \in Nat /\ size \in Int
         /\ exec # "idle" => size + 1 <= units
         /\ \A r \in Renderers : rpc[r] \in {"empty", "less"} /\ exec # "count" => size - 1 >= -units
<1>1. Made \in Int /\ Made <= units /\ (exec # "idle" => Made + 1 = units) /\ units \in Int
  BY PlaybackAssumption DEF TypeOK, Made
<1>2. Linked \in 0..1 /\ Unlinked \in 0..1 /\ (exec # "count" => Linked = 0)
  BY DEF Linked, Unlinked
<1>3. Len(items) \in Nat /\ Len(nodes) \in Nat /\ size \in Int
  BY PlaybackAssumption, SeqFacts DEF TypeOK
<1>4. exec # "idle" => size + 1 <= units
  BY <1>1, <1>3 DEF SizeInv, Balanced
<1>5. ASSUME NEW r \in Renderers, rpc[r] \in {"empty", "less"}, exec # "count"
      PROVE  size - 1 >= -units
  <2>1. Unlinked = 1 /\ Linked = 0
    BY <1>2, <1>5 DEF Unlinked
  <2>2. PICK l \in Nat : l = Len(items)
    BY <1>3
  <2>3. l + Unlinked <= size + Made + Linked
    BY <2>2 DEF SizeInv, Balanced
  <2> QED BY <1>1, <1>3, <2>1, <2>2, <2>3
<1> QED BY <1>1, <1>2, <1>3, <1>4, <1>5

\* Every step keeps the types.
LEMMA TypeHolds ==
  TypeOK /\ ThreadInv /\ MonitorInv /\ SizeInv /\ [Next]_vars => TypeOK'
<1> SUFFICES ASSUME TypeOK, ThreadInv, MonitorInv, SizeInv, [Next]_vars PROVE TypeOK'
  OBVIOUS
<1> USE PlaybackAssumption DEF TypeOK, ThreadInv, Renderers, Frame, NoFrame, vars, playback, render, decoding, queue
<1>1. CASE Take
  BY <1>1 DEF Take
<1>2. CASE Decode
  <2>1. CASE decoder /\ frame' = [unit |-> units, whole |-> TRUE, during |-> starts]
    <3>1. units \in 0..MaxFrames /\ starts \in 0..MaxStarts
      OBVIOUS
    <3>2. frame' \in Frame
      BY ONLY <2>1, <3>1 DEF Frame
    <3> HIDE DEF Frame
    <3> QED
      BY <1>2, <3>2 DEF Decode
  <2>2. CASE frame' = frame
    <3> HIDE DEF Frame
    <3> QED
      BY <1>2, <2>2 DEF Decode
  <2> QED
    BY <1>2, <2>1, <2>2 DEF Decode
<1>3. CASE Size
  BY <1>3 DEF Size
<1>4. CASE Offer
  BY <1>4 DEF Offer
<1>5. CASE Link
  <2> HIDE DEF Frame
  <2>1. <<frame>> \in Seq(Frame)
    OBVIOUS
  <2>2. Append(items, frame) \in Seq(Frame)
    BY SeqFacts
  <2> QED
    BY <1>5, <2>1, <2>2 DEF Link
<1>6. CASE Count
  <2>1. size + 1 <= units
    BY <1>6, SizeBounds DEF Count
  <2> QED
    BY <1>6, <2>1, NotifyWakes DEF Count
<1>7. CASE startPlayback
  BY <1>7 DEF startPlayback, Goto
<1>8. CASE stopPlayback
  BY <1>8 DEF stopPlayback
<1>9. CASE NotifyOne
  BY <1>9, NotifyWakes DEF NotifyOne
<1>10. CASE Join
  BY <1>10 DEF Join
<1>11. CASE Clear
  <2> HIDE DEF Frame
  <2>1. nodes' \in Seq(Frame)
    <3>1. CASE nodes' = nodes
      BY <3>1
    <3>2. CASE Len(nodes) > 1 /\ nodes' = <<Head(nodes), NoFrame>>
      <4>1. Head(nodes) \in Frame
        BY <3>2, SeqFacts
      <4>2. NoFrame \in Frame
        BY DEF Frame
      <4>3. <<Head(nodes), NoFrame>> \in Seq(Frame)
        BY <4>1, <4>2 DEF NoFrame
      <4> QED BY <3>2, <4>3
    <3> QED
      BY <1>11, <3>1, <3>2 DEF Clear
  <2>2. torn' \subseteq {"offer", "poll"}
    BY <1>11 DEF Clear
  <2> QED
    BY <1>11, <2>1, <2>2 DEF Clear
<1>12. CASE ClearSize
  BY <1>12 DEF ClearSize
<1>13. CASE Destroy
  BY <1>13 DEF Destroy
<1>14. ASSUME NEW r \in Renderers, Render(r) PROVE TypeOK'
  <2>1. CASE Loop(r)
    BY <2>1 DEF Loop, Goto
  <2>2. CASE Wait(r)
    BY <2>2 DEF Wait, Goto
  <2>3. CASE WaitThrows(r)
    BY <2>3 DEF WaitThrows, Goto
  <2>4. CASE Wake(r)
    BY <2>4 DEF Wake, Goto
  <2>5. CASE Poll(r)
    <3> HIDE DEF Frame
    <3>1. nodes' \in Seq(Frame)
      BY <2>5 DEF Poll
    <3>2. rpc' \in [Renderers -> RendererStates]
      BY <2>5 DEF Poll, Goto
    <3> QED
      BY <2>5, <3>1, <3>2 DEF Poll
  <2>6. CASE Show(r)
    <3> DEFINE Shown == [frame : Frame, by : Renderers]
    <3>1. ASSUME NEW f \in polled[r], shown' = Append(shown, [frame |-> f, by |-> r])
          PROVE  shown' \in Seq(Shown)
      <4>1. [frame |-> f, by |-> r] \in Shown
        BY <3>1
      <4> HIDE DEF Shown
      <4> QED
        BY <3>1, <4>1, SeqFacts DEF Shown
    <3>2. shown' \in Seq(Shown)
      BY <2>6, <3>1 DEF Show
    <3> HIDE DEF Frame
    <3> QED
      BY <2>6, <3>2 DEF Show, Goto
  <2>7. CASE Pace(r)
    BY <2>7 DEF Pace, Goto
  <2>8. CASE UnlinkFirst(r)
    <3> HIDE DEF Frame
    <3>1. nodes # <<>>
      BY <2>8 DEF UnlinkFirst, MonitorInv
    <3>2. Head(nodes) \in Frame /\ Tail(nodes) \in Seq(Frame)
      BY <3>1, SeqFacts
    <3>3. {Head(nodes)} \ {NoFrame} \in SUBSET Frame
      BY <3>2
    <3>4. polled' \in [Renderers -> SUBSET Frame] /\ items' \in Seq(Frame)
      BY <2>8, <3>2, <3>3 DEF UnlinkFirst
    <3>5. nodes' \in Seq(Frame)
      BY <2>8 DEF UnlinkFirst
    <3> QED
      BY <2>8, <3>4, <3>5 DEF UnlinkFirst, Goto
  <2>9. CASE UnlinkLast(r)
    BY <2>9 DEF UnlinkLast, Goto
  <2>10. CASE Less(r)
    <3>1. size - 1 >= -units
      <4>1. exec # "count"
        BY <2>10 DEF Less, MonitorInv, Offering, Polling
      <4> QED BY <2>10, <4>1, SizeBounds DEF Less
    <3> QED
      BY <2>10, <3>1 DEF Less, Goto
  <2> QED BY <1>14, <2>1, <2>2, <2>3, <2>4, <2>5, <2>6, <2>7, <2>8, <2>9, <2>10 DEF Render
<1>15. CASE UNCHANGED vars
  BY <1>15
<1> QED
  BY <1>1, <1>2, <1>3, <1>4, <1>5, <1>6, <1>7, <1>8, <1>9, <1>10, <1>11, <1>12, <1>13, <1>14, <1>15 DEF Next, Execute, Stopping

\* Every step keeps the phases of stopPlayback and the one renderer.
LEMMA ThreadHolds == TypeOK /\ ThreadInv /\ [Next]_vars => ThreadInv'
<1> SUFFICES ASSUME TypeOK, ThreadInv, [Next]_vars PROVE ThreadInv'
  OBVIOUS
<1> USE PlaybackAssumption DEF TypeOK, ThreadInv, Alive, Renderers, vars, playback, render, decoding, queue
<1>1. CASE Take
  BY <1>1 DEF Take
<1>2. CASE Decode
  BY <1>2 DEF Decode
<1>3. CASE Size
  BY <1>3 DEF Size
<1>4. CASE Offer
  BY <1>4 DEF Offer
<1>5. CASE Link
  BY <1>5 DEF Link
<1>6. CASE Count
  BY <1>6, NotifyWakes DEF Count
<1>7. CASE startPlayback
  BY <1>7 DEF startPlayback, Goto
<1>8. CASE stopPlayback
  BY <1>8 DEF stopPlayback
<1>9. CASE NotifyOne
  BY <1>9, NotifyWakes DEF NotifyOne
<1>10. CASE Join
  BY <1>10 DEF Join
<1>11. CASE Clear
  BY <1>11 DEF Clear
<1>12. CASE ClearSize
  BY <1>12 DEF ClearSize
<1>13. CASE Destroy
  BY <1>13 DEF Destroy
<1>14. ASSUME NEW r \in Renderers, Render(r) PROVE ThreadInv'
  <2>1. CASE Loop(r)
    BY <2>1 DEF Loop, Goto
  <2>2. CASE Wait(r)
    BY <2>2 DEF Wait, Goto
  <2>3. CASE WaitThrows(r)
    BY <2>3 DEF WaitThrows, Goto
  <2>4. CASE Wake(r)
    BY <2>4 DEF Wake, Goto
  <2>5. CASE Poll(r)
    BY <2>5 DEF Poll, Goto
  <2>6. CASE Show(r)
    BY <2>6 DEF Show, Goto
  <2>7. CASE Pace(r)
    BY <2>7 DEF Pace, Goto
  <2>8. CASE UnlinkFirst(r)
    BY <2>8 DEF UnlinkFirst, Goto
  <2>9. CASE UnlinkLast(r)
    BY <2>9 DEF UnlinkLast, Goto
  <2>10. CASE Less(r)
    BY <2>10 DEF Less, Goto
  <2> QED BY <1>14, <2>1, <2>2, <2>3, <2>4, <2>5, <2>6, <2>7, <2>8, <2>9, <2>10 DEF Render
<1>15. CASE UNCHANGED vars
  BY <1>15
<1> QED
  BY <1>1, <1>2, <1>3, <1>4, <1>5, <1>6, <1>7, <1>8, <1>9, <1>10, <1>11, <1>12, <1>13, <1>14, <1>15 DEF Next, Execute, Stopping

\* Every step keeps the monitor's one holder and what it has read.
LEMMA MonitorHolds == TypeOK /\ ThreadInv /\ MonitorInv /\ [Next]_vars => MonitorInv'
<1> SUFFICES ASSUME TypeOK, ThreadInv, MonitorInv, [Next]_vars PROVE MonitorInv'
  OBVIOUS
<1> USE PlaybackAssumption DEF TypeOK, MonitorInv, Offering, Polling, vars, playback, render, decoding, queue
<1>1. CASE Take
  BY <1>1 DEF Take
<1>2. CASE Decode
  BY <1>2 DEF Decode
<1>3. CASE Size
  BY <1>3 DEF Size
<1>4. CASE Offer
  BY <1>4 DEF Offer
<1>5. CASE Link
  BY <1>5 DEF Link
<1>6. CASE Count
  BY <1>6, NotifyWakes DEF Count
<1>7. CASE startPlayback
  <2>1. starts + 1 \in Renderers /\ rpc[starts + 1] = "none"
    BY <1>7 DEF startPlayback, ThreadInv, Renderers
  <2>2. \A r \in Renderers : rpc'[r] \in InPoll \/ rpc[r] \in InPoll => rpc'[r] = rpc[r]
    BY <1>7, <2>1 DEF startPlayback, Goto
  <2> QED BY <1>7, <2>2 DEF startPlayback
<1>8. CASE stopPlayback
  BY <1>8 DEF stopPlayback
<1>9. CASE NotifyOne
  BY <1>9, NotifyWakes DEF NotifyOne
<1>10. CASE Join
  BY <1>10 DEF Join
\* A poll is under way only if a renderer is alive, which none is after a join()
\* unless a playback was started over another.
<1>11. CASE Clear
  <2>1. ~restarted => ~Polling
    <3>1. ~restarted => \A r \in Renderers : ~Alive(r)
      BY <1>11 DEF Clear, ThreadInv, Renderers
    <3> QED BY <3>1 DEF Alive
  <2>2. \A r \in Renderers : rpc[r] = "unlink" => nodes' # <<>> /\ "poll" \in torn'
    <3> SUFFICES ASSUME NEW r \in Renderers, rpc[r] = "unlink"
                 PROVE  nodes' # <<>> /\ "poll" \in torn'
      OBVIOUS
    <3>1. nodes # <<>> /\ rpc[r] \in InPoll
      OBVIOUS
    <3>2. nodes' # <<>>
      <4>1. <<Head(nodes), NoFrame>> # <<>>
        OBVIOUS
      <4> QED BY ONLY <1>11, <3>1, <4>1 DEF Clear
    <3> QED BY <1>11, <3>1, <3>2 DEF Clear
  <2>3. (\A r \in Renderers : rpc[r] # "unlink") => nodes' = <<>>
    <3>1. Len(<<>>) = 0
      BY EmptySeq
    <3> QED BY <1>11, <3>1 DEF Clear
  <2>4. ~restarted => "poll" \notin torn'
    BY <1>11, <2>1 DEF Clear
  <2>5. UNCHANGED <<rpc, exec, restarted>> /\ items' = <<>>
    BY <1>11 DEF Clear
  <2> HIDE DEF InPoll, TypeOK
  <2> QED BY ONLY MonitorInv, <2>2, <2>3, <2>4, <2>5 DEF MonitorInv, Offering, Polling
<1>12. CASE ClearSize
  BY <1>12 DEF ClearSize
<1>13. CASE Destroy
  BY <1>13 DEF Destroy
<1>14. ASSUME NEW r \in Renderers, Render(r) PROVE MonitorInv'
  <2>1. CASE Loop(r)
    BY <2>1 DEF Loop, Goto
  <2>2. CASE Wait(r)
    BY <2>2 DEF Wait, Goto
  <2>3. CASE WaitThrows(r)
    BY <2>3 DEF WaitThrows, Goto
  <2>4. CASE Wake(r)
    BY <2>4 DEF Wake, Goto
  <2>5. CASE Poll(r)
    BY <2>5 DEF Poll, Locked, Goto
  <2>6. CASE Show(r)
    BY <2>6 DEF Show, Goto
  <2>7. CASE Pace(r)
    BY <2>7 DEF Pace, Goto
  <2>8. CASE UnlinkFirst(r)
    BY <2>8 DEF UnlinkFirst, Goto
  <2>9. CASE UnlinkLast(r)
    BY <2>9 DEF UnlinkLast, Goto
  <2>10. CASE Less(r)
    BY <2>10 DEF Less, Goto
  <2> QED BY <1>14, <2>1, <2>2, <2>3, <2>4, <2>5, <2>6, <2>7, <2>8, <2>9, <2>10 DEF Render
<1>15. CASE UNCHANGED vars
  BY <1>15
<1> QED
  BY <1>1, <1>2, <1>3, <1>4, <1>5, <1>6, <1>7, <1>8, <1>9, <1>10, <1>11, <1>12, <1>13, <1>14, <1>15 DEF Next, Execute, Stopping

\* What Unlinked is before and after a step.
LEMMA UnlinkedMoves ==
  ASSUME NEW pcs,
         \A r \in Renderers : rpc[r] \in {"empty", "less"} <=> pcs[r] \in {"empty", "less"}
  PROVE  Unlinked = IF \E r \in Renderers : pcs[r] \in {"empty", "less"} THEN 1 ELSE 0
BY DEF Unlinked

\* A unit that is done with leaves the room there was.
LEMMA MoreMade ==
  ASSUME NEW made \in Int, NEW more \in Int, more = made \/ more = made + 1,
         NEW linked \in Int, NEW unlinked \in Int, NEW inQueue \in Int, NEW inHand \in Int,
         NEW count \in Int, Balanced(made, linked, unlinked, inQueue, inHand, count)
  PROVE  Balanced(more, linked, unlinked, inQueue, inHand, count)
BY DEF Balanced

\* Every step keeps the size and the nodes within the units done with.
LEMMA SizeHolds == TypeOK /\ ThreadInv /\ MonitorInv /\ SizeInv /\ [Next]_vars => SizeInv'
<1> SUFFICES ASSUME TypeOK, ThreadInv, MonitorInv, SizeInv, [Next]_vars PROVE SizeInv'
  OBVIOUS
<1> DEFINE i == Len(items)
           n == Len(nodes)
<1>0. /\ Made \in Int /\ Linked \in 0..1 /\ Unlinked \in 0..1 /\ i \in Nat /\ n \in Nat /\ size \in Int
      /\ Balanced(Made, Linked, Unlinked, i, n, size)
  BY SizeBounds DEF SizeInv
<1> USE DEF TypeOK, vars, playback, render, decoding, queue
\* Steps that move no node and do not write the size.
<1>a. ASSUME Made' \in {Made, Made + 1}, Linked' = Linked, Unlinked' = Unlinked,
             UNCHANGED <<items, nodes, size>>
      PROVE  SizeInv'
  <2> HIDE DEF TypeOK, i, n
  <2>1. PICK m \in Int : m = Made' /\ (m = Made \/ m = Made + 1)
    BY ONLY <1>0, <1>a
  <2>2. Balanced(m, Linked, Unlinked, i, n, size)
    BY ONLY <1>0, <2>1, MoreMade
  <2> QED BY <1>a, <2>1, <2>2 DEF SizeInv, i, n
<1>b. ASSUME rpc' = rpc PROVE Unlinked' = Unlinked
  BY <1>b DEF Unlinked
<1>c. ASSUME UNCHANGED <<exec, units>> PROVE Made' = Made /\ Linked' = Linked
  BY <1>c DEF Made, Linked
<1>1. CASE Take
  <2>1. Made' = Made /\ Linked' = Linked
    BY <1>1, PlaybackAssumption DEF Take, Made, Linked
  <2> QED BY <1>1, <1>a, <1>b, <2>1 DEF Take
<1>2. CASE Decode
  <2>1. Made' \in {Made, Made + 1} /\ Linked' = Linked
    BY <1>2, PlaybackAssumption DEF Decode, Made, Linked
  <2> QED BY <1>2, <1>a, <1>b, <2>1 DEF Decode
<1>3. CASE Size
  <2>1. Made' = Made /\ Linked' = Linked
    BY <1>3 DEF Size, Made, Linked
  <2> QED BY <1>3, <1>a, <1>b, <2>1 DEF Size
<1>4. CASE Offer
  <2>1. Made' = Made /\ Linked' = Linked
    BY <1>4 DEF Offer, Made, Linked
  <2> QED BY <1>4, <1>a, <1>b, <2>1 DEF Offer
\* The queue gains a node at most, or is the new node alone.
<1>5. CASE Link
  <2>1. /\ Made' = Made /\ Linked = 0 /\ Linked' = 1 /\ Unlinked' = Unlinked
        /\ size' = size /\ nodes' = nodes
    BY <1>5, <1>b DEF Link, Made, Linked
  <2>2. Unlinked = 0
    BY <1>5 DEF Link, MonitorInv, Offering, Polling, Unlinked
  <2>3. items' \in {items, <<frame>>, Append(items, frame)}
    BY <1>5 DEF Link
  <2>4. Len(items') \in Nat /\ Len(items') <= i + 1
    <3>1. Len(<<frame>>) = 1 /\ Len(Append(items, frame)) = i + 1
      BY SeqFacts
    <3> HIDE DEF TypeOK
    <3>2. CASE items' = items
      BY <1>0, <3>2
    <3>3. CASE items' = <<frame>>
      BY ONLY <1>0, <3>1, <3>3
    <3>4. CASE items' = Append(items, frame)
      BY ONLY <1>0, <3>1, <3>4
    <3> QED BY <2>3, <3>2, <3>3, <3>4
  <2>5. PICK j \in Nat : j = Len(items') /\ j <= i + 1
    BY <2>4
  <2> HIDE DEF i, n
  <2>6. Balanced(Made, 1, Unlinked, j, n, size)
    BY ONLY <1>0, <2>1, <2>2, <2>5 DEF Balanced
  <2> QED BY <2>1, <2>5, <2>6 DEF SizeInv, n
<1>6. CASE Count
  <2>1. /\ Made' = Made + 1 /\ Linked = 1 /\ Linked' = 0 /\ size' = size + 1
        /\ items' = items /\ nodes' = nodes
    BY <1>6, PlaybackAssumption DEF Count, Made, Linked
  <2>2. Unlinked' = Unlinked
    <3>1. \A r \in Renderers : rpc'[r] = rpc[r] \/ (rpc[r] = "wait" /\ rpc'[r] = "woken")
      BY <1>6, NotifyWakes DEF Count
    <3>2. \A r \in Renderers : rpc[r] \in {"empty", "less"} <=> rpc'[r] \in {"empty", "less"}
      BY <3>1
    <3> QED BY <3>2, UnlinkedMoves DEF Unlinked
  <2> HIDE DEF i, n, TypeOK
  <2>3. Balanced(Made + 1, 0, Unlinked, i, n, size + 1)
    BY ONLY <1>0, <2>1 DEF Balanced
  <2> QED BY <2>1, <2>2, <2>3 DEF SizeInv, i, n
<1>7. CASE startPlayback
  <2>0. starts + 1 \in Renderers /\ rpc[starts + 1] = "none"
    BY <1>7, PlaybackAssumption DEF startPlayback, ThreadInv, Renderers
  <2>1. \A r \in Renderers : rpc[r] \in {"empty", "less"} <=> rpc'[r] \in {"empty", "less"}
    BY <1>7, <2>0 DEF startPlayback, Goto
  <2>2. Unlinked' = Unlinked
    BY <2>1, UnlinkedMoves DEF Unlinked
  <2> QED BY <1>7, <1>a, <1>c, <2>2 DEF startPlayback
<1>8. CASE stopPlayback \/ Join \/ Destroy
  BY <1>8, <1>a, <1>b, <1>c DEF stopPlayback, Join, Destroy
<1>9. CASE NotifyOne
  <2>1. \A r \in Renderers : rpc'[r] = rpc[r] \/ (rpc[r] = "wait" /\ rpc'[r] = "woken")
    BY <1>9, NotifyWakes DEF NotifyOne
  <2>2. \A r \in Renderers : rpc[r] \in {"empty", "less"} <=> rpc'[r] \in {"empty", "less"}
    BY <2>1
  <2>3. Unlinked' = Unlinked
    BY <2>2, UnlinkedMoves DEF Unlinked
  <2> QED BY <1>9, <1>a, <1>c, <2>3 DEF NotifyOne
\* The nodes that a poll has in hand do not become more.
<1>10. CASE Clear
  <2>1. /\ Made' = Made /\ Linked' = Linked /\ Unlinked' = Unlinked
        /\ size' = size /\ Len(items') = 0
    BY <1>10, <1>b, <1>c DEF Clear
  <2>2. Len(nodes') \in Nat /\ Len(nodes') <= n
    BY <1>0, <1>10 DEF Clear
  <2>3. PICK m \in Nat : m = Len(nodes') /\ m <= n
    BY <2>2
  <2> HIDE DEF i, n, TypeOK
  <2>4. Balanced(Made, Linked, Unlinked, 0, m, size)
    BY ONLY <1>0, <2>3 DEF Balanced
  <2> QED BY <2>1, <2>3, <2>4 DEF SizeInv
<1>11. CASE ClearSize
  <2>1. /\ Made' = Made /\ Linked' = Linked /\ Unlinked' = Unlinked
        /\ size' = 0 /\ items' = items /\ nodes' = nodes
    BY <1>11, <1>b, <1>c DEF ClearSize
  <2> HIDE DEF i, n, TypeOK
  <2>2. Balanced(Made, Linked, Unlinked, i, n, 0)
    BY ONLY <1>0 DEF Balanced
  <2> QED BY <2>1, <2>2 DEF SizeInv, i, n
<1>12. ASSUME NEW r \in Renderers, Render(r) PROVE SizeInv'
  <2>1. ASSUME NEW pc, Goto(r, pc), pc \notin {"empty", "less"}, rpc[r] \notin {"empty", "less"}
        PROVE  Unlinked' = Unlinked
    <3>1. \A q \in Renderers : rpc[q] \in {"empty", "less"} <=> rpc'[q] \in {"empty", "less"}
      BY <2>1 DEF Goto
    <3> QED BY <3>1, UnlinkedMoves DEF Unlinked
  <2>2. CASE Loop(r) \/ Wait(r) \/ WaitThrows(r) \/ Wake(r) \/ Show(r) \/ Pace(r)
    <3>1. UNCHANGED <<exec, units, items, nodes, size>>
      BY <2>2 DEF Loop, Wait, WaitThrows, Wake, Show, Pace
    <3>2. \A q \in Renderers : rpc[q] \in {"empty", "less"} <=> rpc'[q] \in {"empty", "less"}
      BY <2>2 DEF Loop, Wait, WaitThrows, Wake, Show, Pace, Goto
    <3>3. Unlinked' = Unlinked
      BY <3>2, UnlinkedMoves DEF Unlinked
    <3> QED BY <1>a, <1>c, <3>1, <3>3
  <2>3. CASE Poll(r)
    <3>1. /\ Made' = Made /\ Linked' = Linked /\ items' = items /\ size' = size
          /\ nodes' \in {nodes, items}
      BY <2>3, <1>c DEF Poll
    <3>2. Unlinked' = Unlinked
      BY <2>1, <2>3 DEF Poll
    <3>3. Linked = 0
      BY <2>3 DEF Poll, Locked, Offering, Linked
    <3>4. PICK m \in Nat : m = Len(nodes') /\ m \in {n, i}
      BY <1>0, <3>1
    <3> HIDE DEF i, n, TypeOK
    <3>5. Balanced(Made, Linked, Unlinked, i, m, size)
      BY ONLY <1>0, <3>3, <3>4 DEF Balanced
    <3> QED BY <3>1, <3>2, <3>4, <3>5 DEF SizeInv, i
  \* The first of the nodes in hand is out of the queue and still counted.
  <2>4. CASE UnlinkFirst(r)
    <3>1. /\ Made' = Made /\ Linked' = Linked /\ size' = size
          /\ nodes # <<>> /\ items' = Tail(nodes) /\ nodes' = <<>>
      BY <2>4, <1>c DEF UnlinkFirst, MonitorInv
    <3>2. rpc'[r] \in {"empty", "less"} /\ rpc[r] = "unlink"
      BY <2>4 DEF UnlinkFirst, Goto
    <3>3. Unlinked = 0 /\ Unlinked' = 1 /\ Linked = 0
      BY <3>2 DEF MonitorInv, Polling, Offering, Unlinked, Linked
    <3>4. Len(items') = n - 1 /\ Len(nodes') = 0
      BY <3>1, SeqFacts
    <3> HIDE DEF i, n, TypeOK
    <3>5. Balanced(Made, Linked, 1, n - 1, 0, size)
      BY ONLY <1>0, <3>3 DEF Balanced
    <3> QED BY <3>1, <3>3, <3>4, <3>5 DEF SizeInv
  <2>5. CASE UnlinkLast(r)
    <3>1. UNCHANGED <<exec, units, items, nodes, size>>
      BY <2>5 DEF UnlinkLast
    <3>2. \A q \in Renderers : rpc[q] \in {"empty", "less"} <=> rpc'[q] \in {"empty", "less"}
      BY <2>5 DEF UnlinkLast, Goto
    <3>3. Unlinked' = Unlinked
      BY <3>2, UnlinkedMoves DEF Unlinked
    <3> QED BY <1>a, <1>c, <3>1, <3>3
  <2>6. CASE Less(r)
    <3>1. /\ Made' = Made /\ Linked' = Linked /\ size' = size - 1
          /\ items' = items /\ nodes' = nodes
      BY <2>6, <1>c DEF Less
    <3>2. /\ rpc[r] = "less" /\ rpc'[r] = "render"
          /\ \A q \in Renderers : q # r => rpc'[q] = rpc[q]
      BY <2>6 DEF Less, Goto
    <3>3. \A q \in Renderers : q # r => rpc[q] \notin InPoll
      BY <3>2 DEF MonitorInv
    <3>4. Unlinked = 1 /\ Unlinked' = 0 /\ Linked = 0 /\ nodes = <<>>
      BY <3>2, <3>3 DEF MonitorInv, Polling, Offering, Unlinked, Linked
    <3>5. n = 0
      BY <3>4
    <3> HIDE DEF i, n, TypeOK
    <3>6. Balanced(Made, Linked, 0, i, n, size - 1)
      BY ONLY <1>0, <3>4, <3>5 DEF Balanced
    <3> QED BY <3>1, <3>4, <3>6 DEF SizeInv, i, n
  <2> QED BY <1>12, <2>2, <2>3, <2>4, <2>5, <2>6 DEF Render
<1>13. CASE UNCHANGED vars
  BY <1>13, <1>a, <1>b, <1>c
<1> QED
  BY <1>1, <1>2, <1>3, <1>4, <1>5, <1>6, <1>7, <1>8, <1>9, <1>10, <1>11, <1>12, <1>13 DEF Next, Execute, Stopping

\* No renderer is between the two writes that empty the queue.
NoneEmpties == \A r \in Renderers : rpc[r] # "empty"

\* Every step keeps the queue's fields in agreement, as long as clear has run inside
\* no offer and no poll.
LEMMA QueueHolds == TypeOK /\ ThreadInv /\ MonitorInv /\ SizeInv /\ QueueInv /\ [Next]_vars => QueueInv'
<1> SUFFICES ASSUME TypeOK, ThreadInv, MonitorInv, SizeInv, QueueInv, [Next]_vars, torn' = {} PROVE QueueInv'
  BY DEF QueueInv
<1>0. /\ Len(items) \in Nat /\ size \in Int /\ Linked \in 0..1 /\ Unlinked \in 0..1
      /\ (items = <<>> <=> Len(items) = 0)
  BY SizeBounds, SeqFacts DEF TypeOK
<1>t. torn = {}
  BY DEF Next, Take, Execute, Decode, Size, Offer, Link, Count, Render, Loop, Wait, WaitThrows,
         Wake, Poll, UnlinkFirst, UnlinkLast, Less, Show, Pace, startPlayback, stopPlayback,
         Stopping, NotifyOne, Join, Clear, ClearSize, Destroy, vars
<1>q. /\ last = IF items = <<>> /\ NoneEmpties THEN "null" ELSE "linked"
      /\ main = "zero" => items = <<>> /\ ~Locked
      /\ exec = "link" => oldLast = last
      /\ main # "zero" => Len(items) + Unlinked = size + Linked
  BY <1>t, Zenon DEF QueueInv, NoneEmpties
<1>g. ASSUME /\ last' = IF items' = <<>> /\ NoneEmpties' THEN "null" ELSE "linked"
             /\ main' = "zero" => items' = <<>> /\ ~Locked'
             /\ exec' = "link" => oldLast' = last'
             /\ main' # "zero" => Len(items') + Unlinked' = size' + Linked'
      PROVE  QueueInv'
  BY <1>g, Zenon DEF QueueInv, NoneEmpties
<1> USE DEF TypeOK, vars, playback, render, decoding, queue
\* Steps of renderers outside a poll, and of the executor outside an offer.
<1>a. ASSUME UNCHANGED <<items, last, size>>, main' = "zero" => main = "zero",
             Linked' = Linked, exec' = "link" => exec = "link" /\ oldLast' = oldLast,
             \A r \in Renderers : rpc'[r] \in InPoll \/ rpc[r] \in InPoll => rpc'[r] = rpc[r],
             Offering' => Offering, main = "zero" => main' = "zero"
      PROVE  QueueInv'
  <2>1. Unlinked' = Unlinked
    <3>1. \A r \in Renderers : rpc[r] \in {"empty", "less"} <=> rpc'[r] \in {"empty", "less"}
      BY <1>a
    <3> QED BY <3>1, UnlinkedMoves DEF Unlinked
  <2>2. (NoneEmpties' <=> NoneEmpties) /\ (Locked' => Locked)
    BY <1>a DEF NoneEmpties, Locked, Polling
  <2> HIDE DEF TypeOK
  <2> QED BY <1>a, <1>g, <1>q, <2>1, <2>2
<1>1. CASE Take \/ Decode \/ Size
  BY <1>1, <1>a DEF Take, Decode, Size, Linked, Offering
<1>4. CASE Offer
  <2>1. main # "zero"
    BY <1>4, <1>t DEF Offer
  <2>2. /\ exec' = "link" /\ oldLast' = last /\ Linked = 0 /\ Linked' = 0
        /\ UNCHANGED <<main, items, last, size, rpc>>
    BY <1>4 DEF Offer, Linked
  <2>3. Unlinked' = Unlinked /\ NoneEmpties' = NoneEmpties
    BY <2>2 DEF Unlinked, NoneEmpties
  <2> HIDE DEF TypeOK
  <2> QED BY <1>g, <1>q, <2>1, <2>2, <2>3
<1>5. CASE Link
  <2>1. /\ exec = "link" /\ exec' = "count" /\ Linked = 0 /\ Linked' = 1
        /\ UNCHANGED <<main, size, rpc, oldLast>> /\ oldLast = last
    BY <1>5, <1>q DEF Link, Linked
  <2>2. Unlinked = 0 /\ Unlinked' = 0 /\ NoneEmpties /\ NoneEmpties'
    BY <2>1 DEF MonitorInv, Offering, Polling, Unlinked, NoneEmpties
  <2>3. main # "zero"
    BY <1>q, <2>1 DEF Locked, Offering
  <2>4. /\ Append(items, frame) # <<>> /\ Len(Append(items, frame)) = Len(items) + 1
        /\ Len(<<frame>>) = 1 /\ <<frame>> # <<>>
    BY SeqFacts
  <2>5. items' # <<>> /\ last' = "linked" /\ Len(items') = Len(items) + 1
    <3>1. CASE items = <<>>
      <4>1. items' = <<frame>> /\ last' = "linked"
        BY <1>5, <1>q, <2>1, <2>2, <3>1 DEF Link
      <4> QED BY <1>0, <2>4, <3>1, <4>1
    <3>2. CASE items # <<>>
      <4>1. items' = Append(items, frame) /\ last' = "linked"
        BY <1>5, <1>q, <2>1, <2>2, <3>2 DEF Link
      <4> QED BY <2>4, <4>1
    <3> QED BY <3>1, <3>2
  <2>6. PICK l \in Nat : l = Len(items)
    BY <1>0
  <2> HIDE DEF TypeOK
  <2>7. Len(items') + Unlinked' = size' + Linked'
    BY <1>0, <1>q, <2>1, <2>2, <2>3, <2>5, <2>6
  <2> QED BY <1>g, <2>1, <2>3, <2>5, <2>7
<1>6. CASE Count
  <2>1. /\ exec = "count" /\ exec' = "idle" /\ Linked = 1 /\ Linked' = 0 /\ size' = size + 1
        /\ UNCHANGED <<main, items, last>>
        /\ \A r \in Renderers : rpc'[r] = rpc[r] \/ (rpc[r] = "wait" /\ rpc'[r] = "woken")
    BY <1>6, NotifyWakes DEF Count, Linked
  <2>2. Unlinked' = Unlinked /\ (NoneEmpties' <=> NoneEmpties)
    <3>1. \A r \in Renderers : rpc[r] \in {"empty", "less"} <=> rpc'[r] \in {"empty", "less"}
      BY <2>1
    <3> QED BY <2>1, <3>1, UnlinkedMoves DEF Unlinked, NoneEmpties
  <2>3. main # "zero"
    BY <1>q, <2>1 DEF Locked, Offering
  <2>4. PICK l \in Nat : l = Len(items)
    BY <1>0
  <2> HIDE DEF TypeOK
  <2>5. Len(items') + Unlinked' = size' + Linked'
    BY <1>0, <1>q, <2>1, <2>2, <2>3, <2>4
  <2> QED BY <1>g, <1>q, <2>1, <2>2, <2>3, <2>5
<1>7. CASE startPlayback
  <2>0. starts + 1 \in Renderers /\ rpc[starts + 1] = "none"
    BY <1>7, PlaybackAssumption DEF startPlayback, ThreadInv, Renderers
  <2>1. \A r \in Renderers : rpc'[r] \in InPoll \/ rpc[r] \in InPoll => rpc'[r] = rpc[r]
    BY <1>7, <2>0 DEF startPlayback, Goto
  <2> QED BY <1>7, <1>a, <2>1 DEF startPlayback, Linked, Offering
<1>8. CASE stopPlayback \/ Join
  BY <1>8, <1>a DEF stopPlayback, Join, Linked, Offering
<1>9. CASE NotifyOne
  <2>1. \A r \in Renderers : rpc'[r] = rpc[r] \/ (rpc[r] = "wait" /\ rpc'[r] = "woken")
    BY <1>9, NotifyWakes DEF NotifyOne
  <2> QED BY <1>9, <1>a, <2>1 DEF NotifyOne, Linked, Offering
<1>10. CASE Clear
  <2>1. ~Offering /\ ~Polling
    BY <1>10, <1>t DEF Clear
  <2>2. /\ items' = <<>> /\ last' = "null" /\ main' = "zero" /\ UNCHANGED <<exec, rpc, oldLast>>
    BY <1>10 DEF Clear
  <2>3. ~Locked' /\ NoneEmpties' /\ exec' # "link"
    BY <2>1, <2>2 DEF Locked, Offering, Polling, NoneEmpties
  <2> QED BY <1>g, <2>2, <2>3
<1>11. CASE ClearSize
  <2>1. /\ main = "zero" /\ main' = "destroy" /\ size' = 0
        /\ UNCHANGED <<items, last, exec, rpc, oldLast>>
    BY <1>11 DEF ClearSize
  <2>2. items = <<>> /\ exec # "count" /\ NoneEmpties' /\ Unlinked' = 0 /\ NoneEmpties
    BY <1>q, <2>1 DEF Locked, Offering, Polling, Unlinked, NoneEmpties
  <2>3. Linked' = 0 /\ Len(items') = 0
    BY <2>1, <2>2 DEF Linked
  <2> QED BY <1>g, <1>q, <2>1, <2>2, <2>3
<1>12. CASE Destroy
  BY <1>12, <1>a DEF Destroy, Linked, Offering
<1>13. ASSUME NEW r \in Renderers, Render(r) PROVE QueueInv'
  <2>1. CASE Loop(r) \/ Wait(r) \/ WaitThrows(r) \/ Wake(r) \/ Show(r) \/ Pace(r)
    BY <2>1, <1>a DEF Loop, Wait, WaitThrows, Wake, Show, Pace, Goto, Linked, Offering
  <2>2. CASE Poll(r) /\ items = <<>>
    BY <2>2, <1>a DEF Poll, Goto, Linked, Offering
  <2>3. CASE Poll(r) /\ items # <<>>
    <3>1. /\ ~Locked /\ UNCHANGED <<main, items, last, size, exec, oldLast>>
          /\ \A q \in Renderers : rpc'[q] \in {"empty", "less"} <=> rpc[q] \in {"empty", "less"}
          /\ NoneEmpties' <=> NoneEmpties
      BY <2>3 DEF Poll, Goto, NoneEmpties
    <3>2. Unlinked' = Unlinked /\ Linked' = Linked
      BY <3>1, UnlinkedMoves DEF Unlinked, Linked
    <3> QED BY <1>g, <1>q, <2>3, <3>1, <3>2
  <2>4. CASE UnlinkFirst(r)
    <3>1. /\ rpc[r] = "unlink" /\ nodes = items /\ items # <<>>
          /\ items' = Tail(items) /\ UNCHANGED <<main, last, size, exec, oldLast>>
          /\ rpc' = [rpc EXCEPT ![r] = IF Tail(items) = <<>> THEN "empty" ELSE "less"]
      BY <2>4, <1>t DEF UnlinkFirst, Goto, MonitorInv
    <3>2. \A q \in Renderers : q # r => rpc[q] \notin InPoll
      BY <3>1 DEF MonitorInv
    <3>3. /\ Unlinked = 0 /\ Unlinked' = 1 /\ NoneEmpties
          /\ NoneEmpties' <=> items' # <<>>
      BY <3>1, <3>2 DEF Unlinked, NoneEmpties
    <3>4. Linked' = Linked /\ main # "zero" /\ exec # "link"
      BY <1>q, <3>1 DEF Linked, Locked, Polling, MonitorInv, Offering
    <3>5. Len(Tail(items)) = Len(items) - 1
      BY <3>1, SeqFacts
    <3>6. PICK l \in Nat : l = Len(items)
      BY <1>0
    <3> HIDE DEF TypeOK
    <3>7. Len(items') + Unlinked' = size' + Linked'
      BY <1>0, <1>q, <3>1, <3>3, <3>4, <3>5, <3>6
    <3> QED BY <1>g, <1>q, <3>1, <3>3, <3>4, <3>7
  <2>5. CASE UnlinkLast(r)
    <3>1. /\ rpc[r] = "empty" /\ items = <<>> /\ last' = "null"
          /\ UNCHANGED <<items, main, size, exec, oldLast>>
          /\ rpc' = [rpc EXCEPT ![r] = "less"]
      BY <2>5 DEF UnlinkLast, Goto, MonitorInv
    <3>2. \A q \in Renderers : q # r => rpc[q] \notin InPoll
      BY <3>1 DEF MonitorInv
    <3>3. Unlinked = 1 /\ Unlinked' = 1 /\ NoneEmpties' /\ Linked' = Linked
      BY <3>1, <3>2 DEF Unlinked, NoneEmpties, Linked
    <3>4. main # "zero" /\ exec # "link"
      BY <1>q, <3>1 DEF Locked, Polling, MonitorInv, Offering
    <3> QED BY <1>g, <1>q, <3>1, <3>3, <3>4
  <2>6. CASE Less(r)
    <3>1. /\ rpc[r] = "less" /\ size' = size - 1
          /\ UNCHANGED <<items, last, main, exec, oldLast>>
          /\ rpc' = [rpc EXCEPT ![r] = "render"]
      BY <2>6 DEF Less, Goto
    <3>2. \A q \in Renderers : q # r => rpc[q] \notin InPoll
      BY <3>1 DEF MonitorInv
    <3>3. Unlinked = 1 /\ Unlinked' = 0 /\ NoneEmpties /\ NoneEmpties' /\ Linked' = Linked
      BY <3>1, <3>2 DEF Unlinked, NoneEmpties, Linked
    <3>4. main # "zero" /\ exec # "link"
      BY <1>q, <3>1 DEF Locked, Polling, MonitorInv, Offering
    <3>5. PICK l \in Nat : l = Len(items)
      BY <1>0
    <3> HIDE DEF TypeOK
    <3>6. Len(items') + Unlinked' = size' + Linked'
      BY <1>0, <1>q, <3>1, <3>3, <3>4, <3>5
    <3> QED BY <1>g, <1>q, <3>1, <3>3, <3>4, <3>6
  <2> QED BY <1>13, <2>1, <2>2, <2>3, <2>4, <2>5, <2>6 DEF Render
<1>14. CASE UNCHANGED vars
  BY <1>14, <1>a DEF Linked, Offering
<1> QED
  BY <1>1, <1>4, <1>5, <1>6, <1>7, <1>8, <1>9, <1>10, <1>11, <1>12, <1>13, <1>14 DEF Next, Execute, Stopping

\* The threads, the queue's fields and the phases of stopPlayback keep IInv.
THEOREM Inductive == Spec => []IInv
<1>1. Init => IInv
  <2> SUFFICES ASSUME Init PROVE IInv
    OBVIOUS
  <2>1. TypeOK
    <3>1. frame \in Frame
      BY PlaybackAssumption DEF Init, Frame, NoFrame
    <3>2. items \in Seq(Frame) /\ nodes \in Seq(Frame) /\ shown \in Seq([frame : Frame, by : Renderers])
      BY DEF Init
    <3>3. /\ rpc \in [Renderers -> RendererStates]
          /\ interrupted \in [Renderers -> BOOLEAN]
          /\ polled \in [Renderers -> SUBSET Frame]
      BY DEF Init
    <3>4. starts \in 0..MaxStarts /\ rendererThread \in 0..starts /\ units \in 0..MaxFrames
          /\ size \in -MaxFrames..MaxFrames
      BY PlaybackAssumption DEF Init
    <3>5. /\ main = "idle" /\ exec = "idle" /\ last = "null" /\ oldLast = "null"
          /\ mRun \in BOOLEAN /\ restarted \in BOOLEAN /\ torn \subseteq {"offer", "poll"} /\ decoder \in BOOLEAN
      BY DEF Init
    <3> QED
      BY <3>1, <3>2, <3>3, <3>4, <3>5 DEF TypeOK
  <2>2. ThreadInv
    BY DEF Init, ThreadInv, Alive
  <2>3. MonitorInv
    BY DEF Init, MonitorInv, Offering
  <2>4. /\ Made = 0 /\ Linked = 0 /\ Unlinked = 0
        /\ Len(items) = 0 /\ Len(nodes) = 0 /\ size = 0
    BY DEF Init, Made, Linked, Unlinked
  <2>5. SizeInv
    BY <2>4 DEF SizeInv, Balanced
  <2>6. QueueInv
    BY <2>4 DEF Init, QueueInv
  <2> QED
    BY <2>1, <2>2, <2>3, <2>5, <2>6 DEF IInv
<1>2. IInv /\ [Next]_vars => IInv'
  BY TypeHolds, ThreadHolds, MonitorHolds, SizeHolds, QueueHolds DEF IInv
<1> QED
  BY <1>1, <1>2, PTL DEF Spec

\* Every variable keeps its type; the size of the queue, which clear() writes without
\* the lock that offer() and poll() hold, stays within the units decoded, though a
\* poll of a left-over renderer may bring it below zero.
THEOREM TypeCorrect == Spec => []TypeOK
<1>1. IInv => TypeOK
  BY DEF IInv
<1> QED
  BY <1>1, Inductive, PTL

\* However often playback is stopped and started, only the newest renderer is
\* alive, unless startPlayback was called while playing.
THEOREM SingleRenderer == Spec => []OneRenderer
<1>1. IInv => OneRenderer
  BY DEF IInv, ThreadInv, OneRenderer, Alive
<1> QED
  BY <1>1, Inductive, PTL

\* Only a clear() that runs inside an offer() or a poll() can leave the queue's fields
\* at odds, and it meets a poll() only if a playback was started over another.
THEOREM SoundQueue == Spec => []QueueIsSound
<1>1. IInv => QueueIsSound
  <2> SUFFICES ASSUME IInv PROVE QueueIsSound
    OBVIOUS
  <2>1. ~restarted => "poll" \notin torn
    BY DEF IInv, MonitorInv
  <2>2. ASSUME torn = {}, ~Locked, main # "zero"
        PROVE  size = Len(items) /\ last = (IF items = <<>> THEN "null" ELSE "linked")
    <3>1. Linked = 0 /\ Unlinked = 0 /\ \A q \in Renderers : rpc[q] # "empty"
      BY <2>2 DEF Locked, Offering, Polling, Linked, Unlinked
    <3>2. Len(items) + Unlinked = size + Linked
      BY <2>2 DEF IInv, QueueInv
    <3>3. Len(items) \in Nat /\ size \in Int
      BY SizeBounds DEF IInv
    <3>4. size = Len(items)
      BY ONLY <3>1, <3>2, <3>3
    <3> QED BY <2>2, <3>1, <3>4 DEF IInv, QueueInv
  <2> QED BY <2>1, <2>2 DEF QueueIsSound
<1> QED
  BY <1>1, Inductive, PTL
-----------------------------------------------------------------------------
(* Waiting and stopping *)

\* A renderer does not sleep while there is a frame for it: the size is tested and
\* the wait begun in one hold of the monitor, and each frame's notify() wakes the
\* only renderer there is.
NoLostWakeUp == ~restarted => \A r \in Renderers : rpc[r] = "wait" => size = 0

\* From its notify() to the end of its join() stopPlayback has done all that the
\* renderer needs to end: the interrupt, which is never taken back, and the flag.
BeyondRecall ==
  /\ \A r \in 1..starts : rpc[r] # "none"
  /\ main \in {"notify", "join"} =>
       interrupted[rendererThread] /\ ~mRun /\ rpc[rendererThread] # "none"

\* The most steps an interrupted renderer can still take.
StepsToEnd(pc) ==
  IF pc = "dead" THEN 0
  ELSE IF pc \in {"loop", "woken", "pace"} THEN 1
  ELSE IF pc \in {"wait", "render"} THEN 2
  ELSE IF pc = "less" THEN 3
  ELSE IF pc = "empty" THEN 4
  ELSE IF pc = "unlink" THEN 5 ELSE 6

\* While the main thread waits in join() nothing puts the renderer further from its
\* end, and each of its own steps brings it nearer, wherever the stop met it and
\* whatever the executor decodes.
StopAdvances ==
  main = "join" =>
    /\ StepsToEnd(rpc'[rendererThread]) <= StepsToEnd(rpc[rendererThread])
    /\ Render(rendererThread)
         => StepsToEnd(rpc'[rendererThread]) < StepsToEnd(rpc[rendererThread])

LEMMA WakeUpHolds == TypeOK /\ ThreadInv /\ NoLostWakeUp /\ [Next]_vars => NoLostWakeUp'
<1> SUFFICES ASSUME TypeOK, ThreadInv, NoLostWakeUp, [Next]_vars, ~restarted',
                    NEW q \in Renderers, rpc'[q] = "wait"
             PROVE  size' = 0
  BY DEF NoLostWakeUp
<1> USE PlaybackAssumption DEF TypeOK, NoLostWakeUp, Renderers, vars, playback, render, decoding, queue
<1>0. ~restarted
  BY DEF Next, Take, Execute, Decode, Size, Offer, Link, Count, Render, Loop, Wait, WaitThrows,
         Wake, Poll, UnlinkFirst,
         UnlinkLast, Less, Show, Pace, startPlayback, stopPlayback, Stopping, NotifyOne, Join, Clear,
         ClearSize, Destroy
<1>1. ASSUME UNCHANGED <<rpc, size>> PROVE size' = 0
  BY <1>0, <1>1
<1>2. CASE Take \/ Decode \/ Size \/ Offer \/ Link
  BY <1>1, <1>2 DEF Take, Decode, Size, Offer, Link
\* The only renderer that can wait has been woken.
<1>3. CASE Count
  <2>1. rpc[q] = "wait"
    BY <1>3, NotifyWakes DEF Count
  <2>2. \A r \in Waiting : r = q
    BY <1>0, <2>1 DEF ThreadInv, Alive, Waiting
  <2>3. q \in Waiting
    BY <2>1 DEF Waiting
  <2>4. rpc'[q] = "woken"
    <3>1. PICK r \in Waiting : rpc' = [rpc EXCEPT ![r] = "woken"]
      BY <1>3, <2>3 DEF Count, Notify
    <3> QED BY <2>2, <3>1
  <2> QED BY <2>4
<1>4. CASE startPlayback
  <2>1. rpc[q] = "wait" /\ size' = size
    BY <1>4 DEF startPlayback, Goto
  <2> QED BY <1>0, <2>1
<1>5. CASE stopPlayback \/ Join \/ Clear \/ Destroy
  BY <1>1, <1>5 DEF stopPlayback, Join, Clear, Destroy
<1>6. CASE NotifyOne
  <2>1. rpc[q] = "wait" /\ size' = size
    BY <1>6, NotifyWakes DEF NotifyOne
  <2> QED BY <1>0, <2>1
<1>7. CASE ClearSize
  BY <1>7 DEF ClearSize
<1>8. ASSUME NEW r \in Renderers, Render(r) PROVE size' = 0
  <2>1. CASE Wait(r)
    BY <1>0, <2>1 DEF Wait, Goto
  \* The only renderer that is alive is in its poll, and so none waits.
  <2>2. CASE Less(r)
    <3>1. rpc[r] = "less" /\ rpc[q] = "wait"
      BY <2>2 DEF Less, Goto
    <3> QED BY <1>0, <3>1 DEF ThreadInv, Alive
  <2>3. CASE Loop(r) \/ WaitThrows(r) \/ Wake(r) \/ Show(r) \/ Pace(r)
    <3>1. size' = size /\ rpc[q] = "wait"
      BY <2>3 DEF Loop, WaitThrows, Wake, Show, Pace, Goto
    <3> QED BY <1>0, <3>1
  <2>4. CASE Poll(r) \/ UnlinkFirst(r) \/ UnlinkLast(r)
    <3>1. size' = size /\ rpc[q] = "wait"
      BY <2>4 DEF Poll, UnlinkFirst, UnlinkLast, Goto
    <3> QED BY <1>0, <3>1
  <2> QED BY <1>8, <2>1, <2>2, <2>3, <2>4 DEF Render
<1>9. CASE UNCHANGED vars
  BY <1>1, <1>9
<1> QED BY <1>2, <1>3, <1>4, <1>5, <1>6, <1>7, <1>8, <1>9 DEF Next, Execute, Stopping

LEMMA RecallHolds == TypeOK /\ ThreadInv /\ BeyondRecall /\ [Next]_vars => BeyondRecall'
<1> SUFFICES ASSUME TypeOK, ThreadInv, BeyondRecall, [Next]_vars PROVE BeyondRecall'
  OBVIOUS
<1> USE PlaybackAssumption DEF TypeOK, ThreadInv, BeyondRecall, Renderers, vars, playback, render,
        decoding, queue
<1>1. CASE Take \/ Decode \/ Size \/ Offer \/ Link
  BY <1>1 DEF Take, Decode, Size, Offer, Link
<1>2. CASE Count
  BY <1>2, NotifyWakes DEF Count
<1>3. CASE startPlayback
  BY <1>3 DEF startPlayback, Goto
<1>4. CASE stopPlayback
  BY <1>4 DEF stopPlayback
<1>5. CASE NotifyOne
  BY <1>5, NotifyWakes DEF NotifyOne
<1>6. CASE Join \/ Clear \/ ClearSize \/ Destroy
  BY <1>6 DEF Join, Clear, ClearSize, Destroy
<1>7. ASSUME NEW r \in Renderers, Render(r) PROVE BeyondRecall'
  <2>1. UNCHANGED <<main, starts, mRun, rendererThread, interrupted>>
    BY <1>7 DEF Render, Loop, Wait, WaitThrows, Wake, Poll, UnlinkFirst, UnlinkLast, Less, Show, Pace
  <2>2. \E pc : Goto(r, pc) /\ pc # "none"
    BY <1>7 DEF Render, Loop, Wait, WaitThrows, Wake, Poll, UnlinkFirst, UnlinkLast, Less, Show, Pace
  <2>3. \A q \in Renderers : rpc[q] # "none" => rpc'[q] # "none"
    BY <2>2 DEF Goto
  <2> QED BY <2>1, <2>3
<1>8. CASE UNCHANGED vars
  BY <1>8
<1> QED BY <1>1, <1>2, <1>3, <1>4, <1>5, <1>6, <1>7, <1>8 DEF Next, Execute, Stopping

\* No frame waits in the queue for a renderer that sleeps, unless a second
\* playback was started over the first, whose renderers share one notify().
THEOREM WokenForFrames == Spec => []NoLostWakeUp
<1>1. Init => NoLostWakeUp
  BY DEF Init, NoLostWakeUp
<1>2. IInv => TypeOK /\ ThreadInv
  BY DEF IInv
<1> QED BY <1>1, <1>2, WakeUpHolds, Inductive, PTL DEF Spec

\* join() has at most six steps of the renderer to wait for, however often
\* playback was started, and nothing anybody does makes them more.
THEOREM StopsInSixSteps == Spec => []BeyondRecall /\ [][StopAdvances]_vars
<1>1. Init => BeyondRecall
  BY PlaybackAssumption DEF Init, BeyondRecall
<1>2. IInv => TypeOK /\ ThreadInv
  BY DEF IInv
<1>3. TypeOK /\ ThreadInv /\ BeyondRecall /\ [Next]_vars => [StopAdvances]_vars
  <2> SUFFICES ASSUME TypeOK, ThreadInv, BeyondRecall, [Next]_vars, main = "join"
               PROVE  StopAdvances
    BY DEF StopAdvances
  <2>1. /\ rendererThread \in Renderers /\ interrupted[rendererThread]
        /\ ~mRun /\ rpc[rendererThread] # "none"
        /\ rpc \in [Renderers -> RendererStates]
    BY PlaybackAssumption DEF TypeOK, ThreadInv, BeyondRecall, Renderers
  \* Steps that are not the renderer's own change nothing or wake it.
  <2>2. ASSUME NEW r \in Renderers, Render(r), r # rendererThread PROVE StopAdvances
    <3>1. rpc'[rendererThread] = rpc[rendererThread]
      BY <2>1, <2>2 DEF Render, Loop, Wait, WaitThrows, Wake, Poll, UnlinkFirst,
         UnlinkLast, Less, Show, Pace, Goto
    <3>2. ~Render(rendererThread)
      BY <2>1, <2>2, <3>1 DEF Render, Loop, Wait, WaitThrows, Wake, Poll, UnlinkFirst,
         UnlinkLast, Less, Show, Pace, Goto
    <3> QED BY <3>1, <3>2 DEF StopAdvances, StepsToEnd
  <2>3. CASE Render(rendererThread)
    BY <2>1, <2>3
       DEF Render, Loop, Wait, WaitThrows, Wake, Poll, UnlinkFirst,
         UnlinkLast, Less, Show, Pace, Goto, StopAdvances, StepsToEnd
  <2>4. ASSUME rpc' = rpc PROVE StopAdvances
    <3>1. ~Render(rendererThread)
      BY <2>1, <2>4 DEF Render, Loop, Wait, WaitThrows, Wake, Poll, UnlinkFirst,
         UnlinkLast, Less, Show, Pace, Goto
    <3> QED BY <2>4, <3>1 DEF StopAdvances, StepsToEnd
  <2>5. CASE Count
    <3>1. rpc'[rendererThread] = rpc[rendererThread]
            \/ (rpc[rendererThread] = "wait" /\ rpc'[rendererThread] = "woken")
      BY <2>1, <2>5, NotifyWakes DEF Count
    <3>2. ~Render(rendererThread)
      BY <2>1, <2>5 DEF Count, Render, Loop, Wait, WaitThrows, Wake, Poll, UnlinkFirst,
         UnlinkLast, Less, Show, Pace, decoding
    <3> QED BY <3>1, <3>2 DEF StopAdvances, StepsToEnd
  <2>6. main = "join"
    OBVIOUS
  <2>7. CASE Take \/ Decode \/ Size \/ Offer \/ Link
    BY <2>4, <2>7 DEF Take, Decode, Size, Offer, Link, render
  <2>8. CASE startPlayback \/ stopPlayback \/ Stopping
    BY <2>4, <2>6, <2>8 DEF startPlayback, stopPlayback, Stopping, NotifyOne, Join, Clear,
       ClearSize, Destroy, render
  <2>9. CASE UNCHANGED vars
    BY <2>4, <2>9 DEF vars, render
  <2> QED BY <2>2, <2>3, <2>5, <2>7, <2>8, <2>9 DEF Next, Execute
<1> QED BY <1>1, <1>2, <1>3, RecallHolds, Inductive, PTL DEF Spec

-----------------------------------------------------------------------------
(* Blank frames *)

\* A frame is harmless if it is whole or if every renderer there is was started
\* after its playback.
Harmless(f) ==
  /\ f.during <= starts
  /\ f.whole \/ \A r \in Renderers : Alive(r) => r > f.during

\* All frames on their way to the screen are harmless; the one whose size is
\* about to be asked for is if the decoder is gone.
BlankInv ==
  ~restarted =>
    /\ \A k \in DOMAIN items : Harmless(items[k])
    /\ \A r \in Renderers : \A f \in polled[r] : Harmless(f)
    /\ exec \in {"offer", "link", "count"} => Harmless(frame)
    /\ exec = "size" => Harmless([frame EXCEPT !.whole = decoder])
    /\ NoBlankOfItsOwn

\* No step brings a renderer to life but the next start.
LEMMA AliveGrows ==
  ASSUME TypeOK, ThreadInv, [Next]_vars
  PROVE  /\ starts' \in Nat /\ starts' >= starts
         /\ restarted => restarted'
         /\ \A r \in Renderers : Alive(r)' => Alive(r) \/ r > starts
<1> DEFINE Goal == /\ starts' \in Nat /\ starts' >= starts
                   /\ restarted => restarted'
                   /\ \A r \in Renderers : Alive(r)' => Alive(r) \/ r > starts
<1> USE PlaybackAssumption DEF TypeOK, Alive, Renderers, vars, playback, render, decoding, queue
<1>1. CASE Take
  BY <1>1 DEF Take
<1>2. CASE Decode
  BY <1>2 DEF Decode
<1>3. CASE Size
  BY <1>3 DEF Size
<1>4. CASE Offer
  BY <1>4 DEF Offer
<1>5. CASE Link
  BY <1>5 DEF Link
<1>6. CASE Count
  BY <1>6, NotifyWakes DEF Count
<1>7. CASE startPlayback
  BY <1>7 DEF startPlayback, Goto
<1>8. CASE stopPlayback
  BY <1>8 DEF stopPlayback
<1>9. CASE NotifyOne
  BY <1>9, NotifyWakes DEF NotifyOne
<1>10. CASE Join
  BY <1>10 DEF Join
<1>11. CASE Clear
  BY <1>11 DEF Clear
<1>12. CASE ClearSize
  BY <1>12 DEF ClearSize
<1>13. CASE Destroy
  BY <1>13 DEF Destroy
<1>14. ASSUME NEW r \in Renderers, Render(r) PROVE Goal
  <2>1. CASE Loop(r)
    BY <2>1 DEF Loop, Goto
  <2>2. CASE Wait(r)
    BY <2>2 DEF Wait, Goto
  <2>3. CASE WaitThrows(r)
    BY <2>3 DEF WaitThrows, Goto
  <2>4. CASE Wake(r)
    BY <2>4 DEF Wake, Goto
  <2>5. CASE Poll(r)
    BY <2>5 DEF Poll, Goto
  <2>6. CASE Show(r)
    BY <2>6 DEF Show, Goto
  <2>7. CASE Pace(r)
    BY <2>7 DEF Pace, Goto
  <2>8. CASE UnlinkFirst(r)
    BY <2>8 DEF UnlinkFirst, Goto
  <2>9. CASE UnlinkLast(r)
    BY <2>9 DEF UnlinkLast, Goto
  <2>10. CASE Less(r)
    BY <2>10 DEF Less, Goto
  <2> QED BY <1>14, <2>1, <2>2, <2>3, <2>4, <2>5, <2>6, <2>7, <2>8, <2>9, <2>10 DEF Render
<1>15. CASE UNCHANGED vars
  BY <1>15
<1> QED
  BY <1>1, <1>2, <1>3, <1>4, <1>5, <1>6, <1>7, <1>8, <1>9, <1>10, <1>11, <1>12, <1>13, <1>14, <1>15 DEF Next, Execute, Stopping

\* A harmless frame stays harmless.
LEMMA HarmlessKept ==
  ASSUME TypeOK, ThreadInv, [Next]_vars, NEW f \in Frame, Harmless(f)
  PROVE  Harmless(f)'
BY AliveGrows, PlaybackAssumption DEF Harmless, Frame, TypeOK, Renderers

\* Frames come into the queue from the executor and leave it at the front.
LEMMA ItemsMove ==
  ASSUME TypeOK, ThreadInv, MonitorInv, ~restarted, [Next]_vars
  PROVE  \/ items' \in {items, <<>>}
         \/ exec = "link" /\ items' \in {<<frame>>, Append(items, frame)}
         \/ items # <<>> /\ items' = Tail(items)
<1> DEFINE Goal == \/ items' \in {items, <<>>}
                   \/ exec = "link" /\ items' \in {<<frame>>, Append(items, frame)}
                   \/ items # <<>> /\ items' = Tail(items)
<1> USE PlaybackAssumption DEF vars, playback, render, decoding, queue
<1>1. CASE Take
  BY <1>1 DEF Take
<1>2. CASE Decode
  BY <1>2 DEF Decode
<1>3. CASE Size
  BY <1>3 DEF Size
<1>4. CASE Offer
  BY <1>4 DEF Offer
<1>5. CASE Link
  BY <1>5 DEF Link
<1>6. CASE Count
  BY <1>6, NotifyWakes DEF Count
<1>7. CASE startPlayback
  BY <1>7 DEF startPlayback, Goto
<1>8. CASE stopPlayback
  BY <1>8 DEF stopPlayback
<1>9. CASE NotifyOne
  BY <1>9, NotifyWakes DEF NotifyOne
<1>10. CASE Join
  BY <1>10 DEF Join
<1>11. CASE Clear
  BY <1>11 DEF Clear
<1>12. CASE ClearSize
  BY <1>12 DEF ClearSize
<1>13. CASE Destroy
  BY <1>13 DEF Destroy
<1>14. ASSUME NEW r \in Renderers, Render(r) PROVE Goal
  <2>1. CASE Loop(r)
    BY <2>1 DEF Loop, Goto
  <2>2. CASE Wait(r)
    BY <2>2 DEF Wait, Goto
  <2>3. CASE WaitThrows(r)
    BY <2>3 DEF WaitThrows, Goto
  <2>4. CASE Wake(r)
    BY <2>4 DEF Wake, Goto
  <2>5. CASE Poll(r)
    BY <2>5 DEF Poll, Goto
  <2>6. CASE Show(r)
    BY <2>6 DEF Show, Goto
  <2>7. CASE Pace(r)
    BY <2>7 DEF Pace, Goto
  <2>8. CASE UnlinkFirst(r)
    BY <2>8 DEF UnlinkFirst, MonitorInv
  <2>9. CASE UnlinkLast(r)
    BY <2>9 DEF UnlinkLast, Goto
  <2>10. CASE Less(r)
    BY <2>10 DEF Less, Goto
  <2> QED BY <1>14, <2>1, <2>2, <2>3, <2>4, <2>5, <2>6, <2>7, <2>8, <2>9, <2>10 DEF Render
<1>15. CASE UNCHANGED vars
  BY <1>15
<1> QED
  BY <1>1, <1>2, <1>3, <1>4, <1>5, <1>6, <1>7, <1>8, <1>9, <1>10, <1>11, <1>12, <1>13, <1>14, <1>15 DEF Next, Execute, Stopping

\* A renderer holds what it has polled.
LEMMA PolledMove ==
  ASSUME TypeOK, ThreadInv, MonitorInv, ~restarted, [Next]_vars
  PROVE  \A r \in Renderers : \A f \in polled'[r] :
           f \in polled[r] \/ (items # <<>> /\ f = Head(items))
<1> DEFINE Goal == \A r \in Renderers : \A f \in polled'[r] :
                     f \in polled[r] \/ (items # <<>> /\ f = Head(items))
<1> USE PlaybackAssumption DEF TypeOK, vars, playback, render, decoding, queue
<1>1. CASE Take
  BY <1>1 DEF Take
<1>2. CASE Decode
  BY <1>2 DEF Decode
<1>3. CASE Size
  BY <1>3 DEF Size
<1>4. CASE Offer
  BY <1>4 DEF Offer
<1>5. CASE Link
  BY <1>5 DEF Link
<1>6. CASE Count
  BY <1>6, NotifyWakes DEF Count
<1>7. CASE startPlayback
  BY <1>7 DEF startPlayback, Goto
<1>8. CASE stopPlayback
  BY <1>8 DEF stopPlayback
<1>9. CASE NotifyOne
  BY <1>9, NotifyWakes DEF NotifyOne
<1>10. CASE Join
  BY <1>10 DEF Join
<1>11. CASE Clear
  BY <1>11 DEF Clear
<1>12. CASE ClearSize
  BY <1>12 DEF ClearSize
<1>13. CASE Destroy
  BY <1>13 DEF Destroy
<1>14. ASSUME NEW r \in Renderers, Render(r) PROVE Goal
  <2>1. CASE Loop(r)
    BY <2>1 DEF Loop, Goto
  <2>2. CASE Wait(r)
    BY <2>2 DEF Wait, Goto
  <2>3. CASE WaitThrows(r)
    BY <2>3 DEF WaitThrows, Goto
  <2>4. CASE Wake(r)
    BY <2>4 DEF Wake, Goto
  <2>5. CASE Poll(r)
    BY <2>5 DEF Poll, Goto
  <2>6. CASE Show(r)
    BY <2>6 DEF Show, Goto
  <2>7. CASE Pace(r)
    BY <2>7 DEF Pace, Goto
  <2>8. CASE UnlinkFirst(r)
    BY <2>8 DEF UnlinkFirst, MonitorInv
  <2>9. CASE UnlinkLast(r)
    BY <2>9 DEF UnlinkLast, Goto
  <2>10. CASE Less(r)
    BY <2>10 DEF Less, Goto
  <2> QED BY <1>14, <2>1, <2>2, <2>3, <2>4, <2>5, <2>6, <2>7, <2>8, <2>9, <2>10 DEF Render
<1>15. CASE UNCHANGED vars
  BY <1>15
<1> QED
  BY <1>1, <1>2, <1>3, <1>4, <1>5, <1>6, <1>7, <1>8, <1>9, <1>10, <1>11, <1>12, <1>13, <1>14, <1>15 DEF Next, Execute, Stopping

\* The frame in the executor's hands.
LEMMA FrameMoves ==
  ASSUME TypeOK, ThreadInv, [Next]_vars
  PROVE  /\ exec' \in {"offer", "link", "count"} =>
              \/ exec \in {"offer", "link", "count"} /\ frame' = frame
              \/ exec = "size" /\ frame' = [frame EXCEPT !.whole = decoder]
         /\ exec' = "size" =>
              \/ exec = "size" /\ frame' = frame /\ (decoder' = decoder \/ main = "destroy")
              \/ frame' = [unit |-> units, whole |-> TRUE, during |-> starts] /\ decoder' /\ UNCHANGED starts
<1> DEFINE Goal == /\ exec' \in {"offer", "link", "count"} =>
                        \/ exec \in {"offer", "link", "count"} /\ frame' = frame
                        \/ exec = "size" /\ frame' = [frame EXCEPT !.whole = decoder]
                   /\ exec' = "size" =>
                        \/ exec = "size" /\ frame' = frame /\ (decoder' = decoder \/ main = "destroy")
                        \/ frame' = [unit |-> units, whole |-> TRUE, during |-> starts] /\ decoder' /\ UNCHANGED starts
<1> USE PlaybackAssumption DEF TypeOK, vars, playback, render, decoding, queue
<1>1. CASE Take
  BY <1>1 DEF Take
<1>2. CASE Decode
  BY <1>2 DEF Decode
<1>3. CASE Size
  BY <1>3 DEF Size
<1>4. CASE Offer
  BY <1>4 DEF Offer
<1>5. CASE Link
  BY <1>5 DEF Link
<1>6. CASE Count
  BY <1>6, NotifyWakes DEF Count
<1>7. CASE startPlayback
  BY <1>7 DEF startPlayback, Goto
<1>8. CASE stopPlayback
  BY <1>8 DEF stopPlayback
<1>9. CASE NotifyOne
  BY <1>9, NotifyWakes DEF NotifyOne
<1>10. CASE Join
  BY <1>10 DEF Join
<1>11. CASE Clear
  BY <1>11 DEF Clear
<1>12. CASE ClearSize
  BY <1>12 DEF ClearSize
<1>13. CASE Destroy
  BY <1>13 DEF Destroy
<1>14. ASSUME NEW r \in Renderers, Render(r) PROVE Goal
  <2>1. CASE Loop(r)
    BY <2>1 DEF Loop, Goto
  <2>2. CASE Wait(r)
    BY <2>2 DEF Wait, Goto
  <2>3. CASE WaitThrows(r)
    BY <2>3 DEF WaitThrows, Goto
  <2>4. CASE Wake(r)
    BY <2>4 DEF Wake, Goto
  <2>5. CASE Poll(r)
    BY <2>5 DEF Poll, Goto
  <2>6. CASE Show(r)
    BY <2>6 DEF Show, Goto
  <2>7. CASE Pace(r)
    BY <2>7 DEF Pace, Goto
  <2>8. CASE UnlinkFirst(r)
    BY <2>8 DEF UnlinkFirst, Goto
  <2>9. CASE UnlinkLast(r)
    BY <2>9 DEF UnlinkLast, Goto
  <2>10. CASE Less(r)
    BY <2>10 DEF Less, Goto
  <2> QED BY <1>14, <2>1, <2>2, <2>3, <2>4, <2>5, <2>6, <2>7, <2>8, <2>9, <2>10 DEF Render
<1>15. CASE UNCHANGED vars
  BY <1>15
<1> QED
  BY <1>1, <1>2, <1>3, <1>4, <1>5, <1>6, <1>7, <1>8, <1>9, <1>10, <1>11, <1>12, <1>13, <1>14, <1>15 DEF Next, Execute, Stopping

\* Only a renderer that is alive shows a frame, one it has polled.
LEMMA ShownMoves ==
  ASSUME TypeOK, ThreadInv, [Next]_vars
  PROVE  \/ shown' = shown
         \/ \E r \in Renderers : \E f \in polled[r] :
              Alive(r) /\ shown' = Append(shown, [frame |-> f, by |-> r])
<1> DEFINE Goal == \/ shown' = shown
                   \/ \E r \in Renderers : \E f \in polled[r] :
                        Alive(r) /\ shown' = Append(shown, [frame |-> f, by |-> r])
<1> USE PlaybackAssumption DEF Alive, vars, playback, render, decoding, queue
<1>1. CASE Take
  BY <1>1 DEF Take
<1>2. CASE Decode
  BY <1>2 DEF Decode
<1>3. CASE Size
  BY <1>3 DEF Size
<1>4. CASE Offer
  BY <1>4 DEF Offer
<1>5. CASE Link
  BY <1>5 DEF Link
<1>6. CASE Count
  BY <1>6, NotifyWakes DEF Count
<1>7. CASE startPlayback
  BY <1>7 DEF startPlayback, Goto
<1>8. CASE stopPlayback
  BY <1>8 DEF stopPlayback
<1>9. CASE NotifyOne
  BY <1>9, NotifyWakes DEF NotifyOne
<1>10. CASE Join
  BY <1>10 DEF Join
<1>11. CASE Clear
  BY <1>11 DEF Clear
<1>12. CASE ClearSize
  BY <1>12 DEF ClearSize
<1>13. CASE Destroy
  BY <1>13 DEF Destroy
<1>14. ASSUME NEW r \in Renderers, Render(r) PROVE Goal
  <2>1. CASE Loop(r)
    BY <2>1 DEF Loop, Goto
  <2>2. CASE Wait(r)
    BY <2>2 DEF Wait, Goto
  <2>3. CASE WaitThrows(r)
    BY <2>3 DEF WaitThrows, Goto
  <2>4. CASE Wake(r)
    BY <2>4 DEF Wake, Goto
  <2>5. CASE Poll(r)
    BY <2>5 DEF Poll, Goto
  <2>6. CASE Show(r)
    BY <2>6 DEF Show, Goto
  <2>7. CASE Pace(r)
    BY <2>7 DEF Pace, Goto
  <2>8. CASE UnlinkFirst(r)
    BY <2>8 DEF UnlinkFirst, Goto
  <2>9. CASE UnlinkLast(r)
    BY <2>9 DEF UnlinkLast, Goto
  <2>10. CASE Less(r)
    BY <2>10 DEF Less, Goto
  <2> QED BY <1>14, <2>1, <2>2, <2>3, <2>4, <2>5, <2>6, <2>7, <2>8, <2>9, <2>10 DEF Render
<1>15. CASE UNCHANGED vars
  BY <1>15
<1> QED
  BY <1>1, <1>2, <1>3, <1>4, <1>5, <1>6, <1>7, <1>8, <1>9, <1>10, <1>11, <1>12, <1>13, <1>14, <1>15 DEF Next, Execute, Stopping

\* Every step keeps the frames on their way harmless.
LEMMA BlankHolds == TypeOK /\ ThreadInv /\ MonitorInv /\ BlankInv /\ [Next]_vars => BlankInv'
<1> SUFFICES ASSUME TypeOK, ThreadInv, MonitorInv, BlankInv, [Next]_vars, ~restarted' PROVE BlankInv'
  BY DEF BlankInv
<1>1. ~restarted
  BY AliveGrows
<1>2. ASSUME NEW f \in Frame, Harmless(f) PROVE Harmless(f)'
  BY <1>2, HarmlessKept
<1>3. items \in Seq(Frame) /\ frame \in Frame /\ \A k \in DOMAIN items : items[k] \in Frame
  BY DEF TypeOK
<1>5. (\A k \in DOMAIN items : Harmless(items[k]))'
  <2>1. CASE items' \in {items, <<>>}
    BY <1>1, <1>2, <1>3, <2>1 DEF BlankInv
  <2>2. CASE exec = "link" /\ items' = <<frame>>
    BY <1>2, <1>3, <1>1, <2>2 DEF BlankInv
  <2>3. CASE exec = "link" /\ items' = Append(items, frame)
    BY <1>2, <1>3, <1>1, <2>3, AppendProperties DEF BlankInv
  <2>4. CASE items # <<>> /\ items' = Tail(items)
    BY <1>1, <1>2, <1>3, <2>4, HeadTailProperties DEF BlankInv
  <2> QED
    BY <1>1, <2>1, <2>2, <2>3, <2>4, ItemsMove
<1>6. (\A r \in Renderers : \A f \in polled[r] : Harmless(f))'
  <2> SUFFICES ASSUME NEW r \in Renderers, NEW f \in polled'[r] PROVE Harmless(f)'
    OBVIOUS
  <2>1. CASE f \in polled[r]
    BY <1>1, <1>2, <2>1 DEF BlankInv, TypeOK
  <2>2. CASE items # <<>> /\ f = Head(items)
    BY <1>1, <1>2, <1>3, <2>2, EmptySeq DEF BlankInv
  <2> QED
    BY <1>1, <2>1, <2>2, PolledMove
<1>7. (exec \in {"offer", "link", "count"} => Harmless(frame))'
  <2> SUFFICES ASSUME exec' \in {"offer", "link", "count"} PROVE Harmless(frame)'
    OBVIOUS
  <2>1. CASE exec \in {"offer", "link", "count"} /\ frame' = frame
    BY <1>1, <1>2, <1>3, <2>1 DEF BlankInv
  <2>2. CASE exec = "size" /\ frame' = [frame EXCEPT !.whole = decoder]
    <3>1. frame' \in Frame
      BY <1>3, <2>2 DEF Frame, TypeOK
    <3>2. Harmless([frame EXCEPT !.whole = decoder])
      BY <1>1, <2>2 DEF BlankInv
    <3> QED
      BY <1>2, <2>2, <3>1, <3>2
  <2> QED
    BY <2>1, <2>2, FrameMoves
<1>8. (exec = "size" => Harmless([frame EXCEPT !.whole = decoder]))'
  <2> SUFFICES ASSUME exec' = "size" PROVE Harmless([frame EXCEPT !.whole = decoder])'
    OBVIOUS
  <2>1. CASE exec = "size" /\ frame' = frame /\ decoder' = decoder
    <3>1. [frame EXCEPT !.whole = decoder] \in Frame
      BY <1>3 DEF Frame, TypeOK
    <3> QED
      BY <1>1, <1>2, <2>1, <3>1 DEF BlankInv
  <2>2. CASE exec = "size" /\ frame' = frame /\ main = "destroy"
    <3>1. \A r \in Renderers : ~Alive(r)
      BY <1>1, <2>2 DEF ThreadInv, Renderers
    <3>2. frame.during \in Nat /\ frame.during <= starts /\ starts \in Nat
      BY <1>1, <1>3, <2>2 DEF BlankInv, Harmless, Frame, TypeOK
    <3>3. \A r \in Renderers : Alive(r)' => r > frame.during
      BY <3>1, <3>2, AliveGrows DEF Renderers
    <3>4. frame.during <= starts'
      BY <3>2, AliveGrows
    <3> QED
      BY <1>3, <2>2, <3>3, <3>4 DEF Harmless, Frame
  <2>3. CASE frame' = [unit |-> units, whole |-> TRUE, during |-> starts] /\ decoder' /\ UNCHANGED starts
    BY <2>3 DEF Harmless, TypeOK
  <2> QED
    BY <2>1, <2>2, <2>3, FrameMoves
<1>9. NoBlankOfItsOwn'
  <2>1. \A k \in DOMAIN shown : ~shown[k].frame.whole => shown[k].by > shown[k].frame.during
    BY <1>1 DEF BlankInv, NoBlankOfItsOwn
  <2>2. CASE shown' = shown
    BY <2>1, <2>2 DEF NoBlankOfItsOwn
  <2>3. ASSUME NEW r \in Renderers, NEW f \in polled[r], Alive(r),
               shown' = Append(shown, [frame |-> f, by |-> r])
        PROVE  NoBlankOfItsOwn'
    <3>1. ~f.whole => r > f.during
      BY <1>1, <2>3 DEF BlankInv, Harmless
    <3>2. shown \in Seq([frame : Frame, by : Renderers])
      BY DEF TypeOK
    <3>3. [frame |-> f, by |-> r] \in [frame : Frame, by : Renderers]
      BY DEF TypeOK
    <3>4. /\ DOMAIN shown' = 1..Len(shown) + 1
          /\ shown'[Len(shown) + 1] = [frame |-> f, by |-> r]
          /\ \A k \in 1..Len(shown) : shown'[k] = shown[k]
      BY <2>3, <3>2, <3>3, AppendProperties, LenProperties
    <3>5. Len(shown) \in Nat /\ DOMAIN shown = 1..Len(shown)
      BY <3>2, LenProperties
    <3> QED
      BY <2>1, <3>1, <3>4, <3>5 DEF NoBlankOfItsOwn
  <2> QED
    BY <2>2, <2>3, ShownMoves
<1> QED
  BY <1>5, <1>6, <1>7, <1>8, <1>9 DEF BlankInv

\* A frame the decoder left blank because stopPlayback destroyed it is not shown
\* by the playback it was decoded in.
THEOREM NoOwnBlank == Spec => []NoBlankOfItsOwn
<1>1. Init => BlankInv
  BY DEF Init, BlankInv, NoBlankOfItsOwn
<1>2. IInv /\ BlankInv /\ [Next]_vars => BlankInv'
  BY BlankHolds DEF IInv
<1>3. BlankInv => NoBlankOfItsOwn
  BY DEF BlankInv, NoBlankOfItsOwn
<1> QED
  BY <1>1, <1>2, <1>3, Inductive, PTL DEF Spec
-----------------------------------------------------------------------------
(* The order of frames *)

ShownFrames == {shown[k].frame : k \in DOMAIN shown}
Held == UNION {polled[r] : r \in Renderers}
Queued == {items[k] : k \in DOMAIN items}

Precede(F, G) == \A f \in F, g \in G : f.unit < g.unit

\* A frame made before the one the executor has in hand, if it has one.
Old(f) ==
  /\ f.unit <= units
  /\ exec \in {"decode", "size", "offer", "link"} => f.unit < units

\* Only a renderer that has polled a frame and not shown it yet holds one.
HeldInv == \A r \in Renderers : polled[r] # {} => rpc[r] \in {"empty", "less", "render"}

\* What was shown comes before what a renderer holds, that before the queue, and
\* the queue, itself in order, before the unit being decoded.
OrderInv ==
  ~restarted =>
    /\ ShownInOrder
    /\ \A k, l \in DOMAIN items : k < l => items[k].unit < items[l].unit
    /\ Precede(ShownFrames, Held)
    /\ Precede(ShownFrames, Queued)
    /\ Precede(Held, Queued)
    /\ \A f \in ShownFrames \cup Held \cup Queued : Old(f)
    /\ exec \in {"size", "offer", "link"} => frame.unit = units

\* No step but a poll gives a renderer a frame, and none moves a renderer that holds one.
LEMMA HeldHolds == TypeOK /\ ThreadInv /\ HeldInv /\ [Next]_vars => HeldInv'
<1> SUFFICES ASSUME TypeOK, ThreadInv, HeldInv, [Next]_vars PROVE HeldInv'
  OBVIOUS
<1> USE PlaybackAssumption DEF TypeOK, HeldInv, Renderers, vars, playback, render, decoding, queue
<1>1. CASE Take
  BY <1>1 DEF Take
<1>2. CASE Decode
  BY <1>2 DEF Decode
<1>3. CASE Size
  BY <1>3 DEF Size
<1>4. CASE Offer
  BY <1>4 DEF Offer
<1>5. CASE Link
  BY <1>5 DEF Link
<1>6. CASE Count
  BY <1>6, NotifyWakes DEF Count
<1>7. CASE startPlayback
  BY <1>7 DEF startPlayback, Goto, ThreadInv
<1>8. CASE stopPlayback
  BY <1>8 DEF stopPlayback
<1>9. CASE NotifyOne
  BY <1>9, NotifyWakes DEF NotifyOne
<1>10. CASE Join
  BY <1>10 DEF Join
<1>11. CASE Clear
  BY <1>11 DEF Clear
<1>12. CASE ClearSize
  BY <1>12 DEF ClearSize
<1>13. CASE Destroy
  BY <1>13 DEF Destroy
<1>14. ASSUME NEW r \in Renderers, Render(r) PROVE HeldInv'
  <2>1. CASE Loop(r)
    BY <2>1 DEF Loop, Goto
  <2>2. CASE Wait(r)
    BY <2>2 DEF Wait, Goto
  <2>3. CASE WaitThrows(r)
    BY <2>3 DEF WaitThrows, Goto
  <2>4. CASE Wake(r)
    BY <2>4 DEF Wake, Goto
  <2>5. CASE Poll(r)
    BY <2>5 DEF Poll, Goto
  <2>6. CASE Show(r)
    BY <2>6 DEF Show, Goto
  <2>7. CASE Pace(r)
    BY <2>7 DEF Pace, Goto
  <2>8. CASE UnlinkFirst(r)
    BY <2>8 DEF UnlinkFirst, Goto
  <2>9. CASE UnlinkLast(r)
    BY <2>9 DEF UnlinkLast, Goto
  <2>10. CASE Less(r)
    BY <2>10 DEF Less, Goto
  <2> QED BY <1>14, <2>1, <2>2, <2>3, <2>4, <2>5, <2>6, <2>7, <2>8, <2>9, <2>10 DEF Render
<1>15. CASE UNCHANGED vars
  BY <1>15
<1> QED
  BY <1>1, <1>2, <1>3, <1>4, <1>5, <1>6, <1>7, <1>8, <1>9, <1>10, <1>11, <1>12, <1>13, <1>14, <1>15 DEF Next, Execute, Stopping

\* A renderer takes the first frame of the queue, …
Polls ==
  \E r \in Renderers :
    /\ rpc[r] = "unlink" /\ items # <<>>
    /\ polled' = [polled EXCEPT ![r] = {Head(items)} \ {NoFrame}]
    /\ items' = Tail(items)
    /\ UNCHANGED <<shown, exec, units, frame>>

\* … it shows the frame it holds, …
Shows ==
  \E r \in Renderers :
    /\ rpc[r] = "render"
    /\ \E f \in polled[r] : shown' = Append(shown, [frame |-> f, by |-> r])
    /\ polled' = [polled EXCEPT ![r] = {}]
    /\ UNCHANGED <<items, exec, units, frame>>

\* … the executor's frame comes to the end of the queue, or replaces it, or is
\* lost, …
Links ==
  /\ exec = "link" /\ exec' = "count"
  /\ items' \in {items, <<frame>>, Append(items, frame)}
  /\ UNCHANGED <<shown, polled, units, frame>>

\* … or the executor gets on with its unit, and all that happens to the other
\* frames is that some are dropped.
Advances ==
  \/ UNCHANGED <<exec, units, frame>>
  \/ exec = "idle" /\ exec' = "decode" /\ units' = units + 1
  \/ exec = "decode" /\ exec' = "size" /\ units' = units /\ frame'.unit = units
  \/ exec' = "idle" /\ units' = units
  \/ /\ exec \in {"size", "offer"} /\ exec' \in {"offer", "link"}
     /\ units' = units /\ frame'.unit = frame.unit

Others ==
  /\ shown' = shown /\ items' \in {items, <<>>} /\ Advances
  /\ \A r \in Renderers : polled'[r] \subseteq polled[r]

\* Every step moves frames in one of these four ways.
LEMMA FramesMove ==
  ASSUME TypeOK, MonitorInv, ~restarted, [Next]_vars
  PROVE  Polls \/ Shows \/ Links \/ Others
<1> DEFINE Goal == Polls \/ Shows \/ Links \/ Others
<1> USE PlaybackAssumption DEF TypeOK, Frame, vars, playback, render, decoding, queue
<1>1. CASE Take
  BY <1>1 DEF Take, Others, Advances
<1>2. CASE Decode
  BY <1>2 DEF Decode, Others, Advances
<1>3. CASE Size
  BY <1>3 DEF Size, Others, Advances
<1>4. CASE Offer
  BY <1>4 DEF Offer, Others, Advances
<1>5. CASE Link
  BY <1>5 DEF Link, Links
<1>6. CASE Count
  BY <1>6, NotifyWakes DEF Count, Others, Advances
<1>7. CASE startPlayback
  BY <1>7 DEF startPlayback, Goto, Others, Advances
<1>8. CASE stopPlayback
  BY <1>8 DEF stopPlayback, Others, Advances
<1>9. CASE NotifyOne
  BY <1>9, NotifyWakes DEF NotifyOne, Others, Advances
<1>10. CASE Join
  BY <1>10 DEF Join, Others, Advances
<1>11. CASE Clear
  BY <1>11 DEF Clear, Others, Advances
<1>12. CASE ClearSize
  BY <1>12 DEF ClearSize, Others, Advances
<1>13. CASE Destroy
  BY <1>13 DEF Destroy, Others, Advances
<1>14. ASSUME NEW r \in Renderers, Render(r) PROVE Goal
  <2>1. CASE Loop(r)
    BY <2>1 DEF Loop, Goto, Others, Advances
  <2>2. CASE Wait(r)
    BY <2>2 DEF Wait, Goto, Others, Advances
  <2>3. CASE WaitThrows(r)
    BY <2>3 DEF WaitThrows, Goto, Others, Advances
  <2>4. CASE Wake(r)
    BY <2>4 DEF Wake, Goto, Others, Advances
  <2>5. CASE Poll(r)
    BY <2>5 DEF Poll, Goto, Others, Advances
  <2>6. CASE Show(r)
    BY <2>6 DEF Show, Goto, Shows, Others, Advances
  <2>7. CASE Pace(r)
    BY <2>7 DEF Pace, Goto, Others, Advances
  <2>8. CASE UnlinkFirst(r)
    BY <2>8 DEF UnlinkFirst, MonitorInv, Polls
  <2>9. CASE UnlinkLast(r)
    BY <2>9 DEF UnlinkLast, Others, Advances
  <2>10. CASE Less(r)
    BY <2>10 DEF Less, Others, Advances
  <2> QED BY <1>14, <2>1, <2>2, <2>3, <2>4, <2>5, <2>6, <2>7, <2>8, <2>9, <2>10 DEF Render
<1>15. CASE UNCHANGED vars
  BY <1>15 DEF Others, Advances
<1> QED
  BY <1>1, <1>2, <1>3, <1>4, <1>5, <1>6, <1>7, <1>8, <1>9, <1>10, <1>11, <1>12, <1>13, <1>14, <1>15 DEF Next, Execute, Stopping

\* A frame that is old stays so: units are numbered as they are taken.
LEMMA StaysOld ==
  ASSUME TypeOK, Polls \/ Shows \/ Links \/ Others, NEW f \in Frame, Old(f)
  PROVE  Old(f)'
<1> USE DEF Old, TypeOK, Frame
<1>1. CASE Polls
  BY <1>1 DEF Polls
<1>2. CASE Shows
  BY <1>2 DEF Shows
<1>3. CASE Links
  BY <1>3 DEF Links
<1>4. CASE Others
  BY <1>4 DEF Others, Advances
<1> QED
  BY <1>1, <1>2, <1>3, <1>4

\* The executor's frame is of the unit it has taken last.
LEMMA UnitInHand ==
  ASSUME TypeOK, Polls \/ Shows \/ Links \/ Others,
         exec \in {"size", "offer", "link"} => frame.unit = units
  PROVE  exec' \in {"size", "offer", "link"} => frame'.unit = units'
<1>1. CASE Polls
  BY <1>1 DEF Polls
<1>2. CASE Shows
  BY <1>2 DEF Shows
<1>3. CASE Links
  BY <1>3 DEF Links
<1>4. CASE Others
  BY <1>4 DEF Others, Advances
<1> QED
  BY <1>1, <1>2, <1>3, <1>4

\* The frames in hand and in the queue are frames.
LEMMA OfFrames ==
  ASSUME TypeOK
  PROVE  /\ ShownFrames \subseteq Frame /\ Held \subseteq Frame /\ Queued \subseteq Frame
         /\ DOMAIN items = 1..Len(items) /\ Len(items) \in Nat
         /\ DOMAIN shown = 1..Len(shown) /\ Len(shown) \in Nat
<1> HIDE DEF Frame
<1>1. items \in Seq(Frame) /\ shown \in Seq([frame : Frame, by : Renderers])
  BY DEF TypeOK
<1>2. \A r \in Renderers : polled[r] \subseteq Frame
  BY DEF TypeOK
<1>3. /\ DOMAIN items = 1..Len(items) /\ Len(items) \in Nat
      /\ DOMAIN shown = 1..Len(shown) /\ Len(shown) \in Nat
  BY <1>1, LenProperties
<1>4. \A k \in DOMAIN items : items[k] \in Frame
  BY <1>1
<1>5. \A k \in DOMAIN shown : shown[k].frame \in Frame
  <2> SUFFICES ASSUME NEW k \in DOMAIN shown PROVE shown[k].frame \in Frame
    OBVIOUS
  <2>1. shown[k] \in [frame : Frame, by : Renderers]
    BY <1>1, ElementOf
  <2> QED
    BY ONLY <2>1
<1> QED
  BY <1>2, <1>3, <1>4, <1>5 DEF ShownFrames, Held, Queued

\* The parts of OrderInv.
QueueOrdered == \A k, l \in DOMAIN items : k < l => items[k].unit < items[l].unit
Ordered ==
  /\ Precede(ShownFrames, Held)
  /\ Precede(ShownFrames, Queued)
  /\ Precede(Held, Queued)

\* The first frame goes from the queue to a renderer, when no other holds one.
LEMMA OrderPolls ==
  ASSUME TypeOK, ThreadInv, HeldInv, ~restarted, QueueOrdered, Ordered, Polls
  PROVE  /\ QueueOrdered' /\ Ordered'
         /\ ShownFrames' = ShownFrames /\ Held' \subseteq Queued /\ Queued' \subseteq Queued
<1>1. PICK r \in Renderers :
        /\ rpc[r] = "unlink" /\ items # <<>>
        /\ polled' = [polled EXCEPT ![r] = {Head(items)} \ {NoFrame}]
        /\ items' = Tail(items)
        /\ shown' = shown
  BY DEF Polls
<1> DEFINE n == Len(items)
<1>2. n \in Nat /\ n # 0 /\ DOMAIN items = 1..n
  BY <1>1, EmptySeq, LenProperties DEF TypeOK
<1>3. /\ Head(items) = items[1]
      /\ DOMAIN items' = 1..(n - 1) /\ \A k \in 1..(n - 1) : items'[k] = items[k + 1]
  BY <1>1, <1>2, HeadTailProperties, LenProperties DEF TypeOK
<1>4. \A s \in Renderers : s # r => polled[s] = {}
  BY <1>1 DEF ThreadInv, HeldInv, Alive
<1>5. Held' \subseteq {items[1]}
  <2>1. \A s \in Renderers : polled'[s] \subseteq {items[1]}
    BY <1>1, <1>3, <1>4 DEF TypeOK
  <2> QED
    BY <2>1 DEF Held
<1>6. Queued' = {items[k] : k \in 2..n}
  <2> HIDE DEF n
  <2>1. \A k \in 2..n : k - 1 \in 1..(n - 1) /\ (k - 1) + 1 = k
    BY <1>2
  <2>2. \A k \in 1..(n - 1) : k + 1 \in 2..n
    BY <1>2
  <2> QED
    BY <1>3, <2>1, <2>2 DEF Queued
<1>7. ShownFrames' = ShownFrames
  BY <1>1 DEF ShownFrames
<1>8. Queued' \subseteq Queued /\ items[1] \in Queued
  BY <1>2, <1>6 DEF Queued
<1>9. QueueOrdered'
  <2> SUFFICES ASSUME NEW k \in 1..(n - 1), NEW l \in 1..(n - 1), k < l
               PROVE  items[k + 1].unit < items[l + 1].unit
    BY <1>3 DEF QueueOrdered
  <2> QED
    BY <1>2 DEF QueueOrdered
<1>10. Precede({items[1]}, Queued')
  <2>1. \A k \in 2..n : items[1].unit < items[k].unit
    BY <1>2 DEF QueueOrdered
  <2> HIDE DEF n
  <2> QED
    BY <1>6, <2>1 DEF Precede
<1>11. Ordered'
  BY <1>5, <1>7, <1>8, <1>10 DEF Ordered, Precede
<1> QED
  BY <1>5, <1>7, <1>8, <1>9, <1>11

\* A renderer shows the frame that follows all that were shown before.
LEMMA OrderShows ==
  ASSUME TypeOK, ThreadInv, HeldInv, ~restarted, ShownInOrder, QueueOrdered, Ordered, Shows
  PROVE  /\ ShownInOrder' /\ QueueOrdered' /\ Ordered'
         /\ ShownFrames' \subseteq ShownFrames \cup Held /\ Held' = {} /\ Queued' = Queued
<1>1. PICK r \in Renderers :
        /\ rpc[r] = "render"
        /\ \E f \in polled[r] : shown' = Append(shown, [frame |-> f, by |-> r])
        /\ polled' = [polled EXCEPT ![r] = {}]
        /\ items' = items
  BY DEF Shows
<1>2. PICK f \in polled[r] : shown' = Append(shown, [frame |-> f, by |-> r])
  BY <1>1
<1> DEFINE n == Len(shown)
<1>3. n \in Nat /\ DOMAIN shown = 1..n
  BY OfFrames
<1>4. shown \in Seq([frame : Frame, by : Renderers])
  BY DEF TypeOK
<1>5. [frame |-> f, by |-> r] \in [frame : Frame, by : Renderers]
  BY DEF TypeOK
<1>6. /\ DOMAIN shown' = 1..(n + 1)
      /\ shown'[n + 1].frame = f
      /\ \A k \in 1..n : shown'[k] = shown[k]
  BY <1>2, <1>4, <1>5, AppendProperties, LenProperties
<1>7. f \in Held
  BY <1>2 DEF Held
<1>8. Held' = {}
  <2>1. \A s \in Renderers : s # r => polled[s] = {}
    BY <1>1 DEF ThreadInv, HeldInv, Alive
  <2>2. \A s \in Renderers : polled'[s] = {}
    BY <1>1, <2>1 DEF TypeOK
  <2> QED
    BY <2>2 DEF Held
<1>9. Queued' = Queued /\ QueueOrdered'
  BY <1>1 DEF Queued, QueueOrdered
<1>10. ShownFrames' \subseteq ShownFrames \cup {f}
  <2> SUFFICES ASSUME NEW k \in 1..(n + 1)
               PROVE  shown'[k].frame \in ShownFrames \cup {f}
    BY <1>6 DEF ShownFrames
  <2>1. CASE k = n + 1
    BY <1>6, <2>1
  <2>2. CASE k # n + 1
    <3>1. k \in 1..n
      BY <1>3, <2>2
    <3> QED
      BY <1>3, <1>6, <3>1 DEF ShownFrames
  <2> QED
    BY <2>1, <2>2
<1>11. \A g \in ShownFrames : g.unit < f.unit
  BY <1>7 DEF Ordered, Precede
<1>12. \A k, l \in 1..n : k < l => shown[k].frame.unit < shown[l].frame.unit
  BY <1>3 DEF ShownInOrder
<1>13. \A k, l \in 1..(n + 1) : k < l => shown'[k].frame.unit < shown'[l].frame.unit
  <2> SUFFICES ASSUME NEW k \in 1..(n + 1), NEW l \in 1..(n + 1), k < l
               PROVE  shown'[k].frame.unit < shown'[l].frame.unit
    OBVIOUS
  <2>1. k \in 1..n /\ shown[k].frame \in ShownFrames
    BY <1>3 DEF ShownFrames
  <2>2. CASE l = n + 1
    BY <1>6, <1>11, <2>1, <2>2
  <2>3. CASE l # n + 1
    <3>1. l \in 1..n
      BY <1>3, <2>3
    <3> QED
      BY <1>6, <1>12, <2>1, <3>1
  <2> QED
    BY <2>2, <2>3
<1>14. ShownInOrder'
  BY <1>6, <1>13 DEF ShownInOrder
<1>15. Ordered'
  BY <1>7, <1>8, <1>9, <1>10 DEF Ordered, Precede
<1> QED
  BY <1>7, <1>8, <1>9, <1>10, <1>14, <1>15

\* The executor's frame is newer than all others when it comes into the queue.
LEMMA OrderLinks ==
  ASSUME TypeOK, QueueOrdered, Ordered, Links, frame.unit = units,
         \A f \in ShownFrames \cup Held \cup Queued : Old(f)
  PROVE  /\ QueueOrdered' /\ Ordered'
         /\ ShownFrames' = ShownFrames /\ Held' = Held /\ Queued' \subseteq Queued \cup {frame}
<1>1. ShownFrames' = ShownFrames /\ Held' = Held
  BY DEF Links, ShownFrames, Held
<1>2. \A f \in ShownFrames \cup Held \cup Queued : f.unit < frame.unit
  BY DEF Links, Old
<1>3. items \in Seq(Frame) /\ frame \in Frame
  BY DEF TypeOK
<1>4. Queued' \subseteq Queued \cup {frame} /\ QueueOrdered'
  <2>1. CASE items' = items
    BY <2>1 DEF Queued, QueueOrdered
  <2>2. CASE items' = <<frame>>
    <3>1. DOMAIN items' = {1} /\ items'[1] = frame
      BY <2>2
    <3> QED
      BY <3>1 DEF Queued, QueueOrdered
  <2>3. CASE items' = Append(items, frame)
    <3> DEFINE n == Len(items)
    <3>1. n \in Nat /\ DOMAIN items = 1..n
      BY OfFrames
    <3>2. DOMAIN items' = 1..(n + 1) /\ items'[n + 1] = frame /\ \A k \in 1..n : items'[k] = items[k]
      BY <1>3, <2>3, AppendProperties, LenProperties
    <3>3. \A k \in 1..n : items[k] \in Queued /\ items[k].unit < frame.unit
      BY <1>2, <3>1 DEF Queued
    <3> HIDE DEF n
    <3>4. \A k \in 1..(n + 1) : k \in 1..n \/ k = n + 1
      BY <3>1
    <3>5. Queued' \subseteq Queued \cup {frame}
      BY <3>2, <3>3, <3>4 DEF Queued
    <3>6. \A k, l \in 1..n : k < l => items[k].unit < items[l].unit
      BY <3>1 DEF QueueOrdered
    <3>7. \A k, l \in 1..(n + 1) : k < l => items'[k].unit < items'[l].unit
      <4> SUFFICES ASSUME NEW k \in 1..(n + 1), NEW l \in 1..(n + 1), k < l
                   PROVE  items'[k].unit < items'[l].unit
        OBVIOUS
      <4>1. k \in 1..n
        BY <3>1
      <4>2. CASE l = n + 1
        BY <3>2, <3>3, <4>1, <4>2
      <4>3. CASE l \in 1..n
        BY <3>2, <3>6, <4>1, <4>3
      <4> QED
        BY <3>4, <4>2, <4>3
    <3> QED
      BY <3>2, <3>5, <3>7 DEF QueueOrdered
  <2> QED
    BY <2>1, <2>2, <2>3 DEF Links
<1>5. Ordered'
  BY <1>1, <1>2, <1>4 DEF Ordered, Precede
<1> QED
  BY <1>1, <1>4, <1>5

\* Frames that are dropped do not disturb the order of those that stay.
LEMMA OrderOthers ==
  ASSUME TypeOK, QueueOrdered, Ordered, Others
  PROVE  /\ QueueOrdered' /\ Ordered'
         /\ ShownFrames' = ShownFrames /\ Held' \subseteq Held /\ Queued' \subseteq Queued
<1>1. ShownFrames' = ShownFrames
  BY DEF Others, ShownFrames
<1>2. Held' \subseteq Held
  BY DEF Others, Held
<1>3. Queued' \subseteq Queued /\ QueueOrdered'
  BY DEF Others, Queued, QueueOrdered
<1> QED
  BY <1>1, <1>2, <1>3 DEF Ordered, Precede

\* Every step keeps the order of the frames.
LEMMA OrderHolds ==
  TypeOK /\ ThreadInv /\ MonitorInv /\ HeldInv /\ OrderInv /\ [Next]_vars => OrderInv'
<1> SUFFICES ASSUME TypeOK, ThreadInv, MonitorInv, HeldInv, OrderInv, [Next]_vars, ~restarted' PROVE OrderInv'
  BY DEF OrderInv
<1>1. ~restarted
  BY AliveGrows
<1>2. /\ ShownInOrder /\ QueueOrdered /\ Ordered
      /\ \A f \in ShownFrames \cup Held \cup Queued : Old(f)
      /\ exec \in {"size", "offer", "link"} => frame.unit = units
  BY <1>1 DEF OrderInv, QueueOrdered, Ordered
<1>3. Polls \/ Shows \/ Links \/ Others
  BY <1>1, FramesMove
<1>4. exec' \in {"size", "offer", "link"} => frame'.unit = units'
  BY <1>2, <1>3, UnitInHand
<1>5. \A f \in Frame : Old(f) => Old(f)'
  BY <1>3, StaysOld
<1>6. ShownFrames \subseteq Frame /\ Held \subseteq Frame /\ Queued \subseteq Frame
  BY OfFrames
<1>7. ASSUME shown' = shown PROVE ShownInOrder'
  BY <1>2, <1>1, <1>7 DEF ShownInOrder
<1>8. ShownInOrder' /\ QueueOrdered' /\ Ordered'
  <2>1. CASE Polls
    BY <1>1, <1>2, <1>7, <2>1, OrderPolls DEF Polls
  <2>2. CASE Shows
    BY <1>1, <1>2, <2>2, OrderShows
  <2>3. CASE Links
    BY <1>2, <1>7, <2>3, OrderLinks DEF Links
  <2>4. CASE Others
    BY <1>2, <1>7, <2>4, OrderOthers DEF Others
  <2> QED
    BY <1>3, <2>1, <2>2, <2>3, <2>4
<1>9. \A f \in (ShownFrames \cup Held \cup Queued)' : Old(f)'
  <2>1. CASE Polls
    BY <1>1, <1>2, <1>5, <1>6, <2>1, OrderPolls
  <2>2. CASE Shows
    BY <1>1, <1>2, <1>5, <1>6, <2>2, OrderShows
  <2>3. CASE Links
    <3>1. (ShownFrames \cup Held \cup Queued)' \subseteq ShownFrames \cup Held \cup Queued \cup {frame}
      BY <1>2, <2>3, OrderLinks DEF Links
    <3>2. Old(frame)'
      BY <1>2, <2>3 DEF Links, Old, TypeOK
    <3> QED
      BY <1>2, <1>5, <1>6, <2>3, <3>1, <3>2 DEF Links
  <2>4. CASE Others
    BY <1>2, <1>5, <1>6, <2>4, OrderOthers
  <2> QED
    BY <1>3, <2>1, <2>2, <2>3, <2>4
<1> QED
  BY <1>4, <1>8, <1>9 DEF OrderInv, QueueOrdered, Ordered

\* However playback is stopped and started, and whatever clear() does to an offer,
\* frames are shown in the order they were decoded and never twice.
THEOREM InOrder == Spec => []ShownInOrder
<1>1. Init => HeldInv /\ OrderInv
  BY DEF Init, HeldInv, OrderInv, ShownInOrder, Precede, ShownFrames, Held, Queued
<1>2. IInv /\ HeldInv /\ [Next]_vars => HeldInv'
  BY HeldHolds DEF IInv
<1>3. IInv /\ HeldInv /\ OrderInv /\ [Next]_vars => OrderInv'
  BY OrderHolds DEF IInv
<1>4. OrderInv => ShownInOrder
  BY DEF OrderInv, ShownInOrder
<1> QED
  BY <1>1, <1>2, <1>3, <1>4, Inductive, PTL DEF Spec

=============================================================================
