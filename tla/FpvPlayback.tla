----------------------------- MODULE FpvPlayback -----------------------------
(***************************************************************************)
(* util/usbfpv/FPVVideoClient.java: three threads share the frame queue,   *)
(* the decoder and the flag mRun.  The executor decodes what USB delivers  *)
(* and offers frames; a renderer thread, one per startPlayback, polls and  *)
(* shows them; the main thread starts and stops playback as devices come   *)
(* and go (UsbSerialInit).                                                 *)
(*                                                                         *)
(* The queue is a java.util.LinkedList.  offer and poll hold its monitor,  *)
(* frameQueue.clear() does not, so clear interleaves with the writes of an *)
(* offer and, when a playback was started over another, with those of a    *)
(* poll by the renderer left over: items are the nodes that can be reached *)
(* from its first field, last says what its last field points to, and size *)
(* is a field of its own, which may fall below zero.  The two writes by    *)
(* which offer links a node are one step, and so are clear's walk over the *)
(* nodes and the two writes by which it drops them.                        *)
(*                                                                         *)
(* Renderer r is the thread made by the r-th startPlayback.                *)
(***************************************************************************)
EXTENDS Integers, Sequences

CONSTANTS MaxStarts,    \* bound: calls of startPlayback
          MaxFrames     \* bound: units of video that arrive

ASSUME PlaybackAssumption == MaxStarts \in Nat /\ MaxFrames \in Nat

Renderers == 1..MaxStarts

VARIABLES
  main,         \* where the main thread is
  starts,       \* calls of startPlayback so far
  mRun,         \* the flag
  rendererThread,   \* the field: the newest renderer, 0 for null
  rpc,          \* where each renderer is
  interrupted,  \* per renderer, its interrupt status
  polled,       \* per renderer, what poll gave it: a frame, in a set, or nothing
  exec,         \* where the executor is
  units,        \* units of video taken from the ring buffer so far
  frame,        \* the frame the executor is making
  oldLast,      \* the last field as the running offer has read it
  nodes,        \* the nodes from first on, as the running poll has read them
  decoder,      \* the decoder's native handle exists
  items, last, size,    \* the queue
  shown,        \* what the delegate was given to show, oldest first
  restarted,    \* history: startPlayback was called while playing
  torn          \* history: what clear() has run inside of, offers or polls

playback == <<main, starts, mRun, rendererThread, restarted>>
render   == <<rpc, interrupted, polled, shown, nodes>>
decoding == <<exec, units, frame, oldLast>>
queue    == <<items, last, size>>
vars     == <<playback, render, decoding, decoder, queue, torn>>

\* No frame: also the item of a node that clear() has walked over.
NoFrame == [unit |-> 0, whole |-> TRUE, during |-> 0]

Init ==
  /\ main = "idle" /\ starts = 0 /\ mRun = FALSE /\ rendererThread = 0
  /\ rpc = [r \in Renderers |-> "none"]
  /\ interrupted = [r \in Renderers |-> FALSE]
  /\ polled = [r \in Renderers |-> {}]
  /\ exec = "idle" /\ units = 0 /\ frame = NoFrame /\ oldLast = "null"
  /\ decoder = FALSE
  /\ items = <<>> /\ last = "null" /\ size = 0 /\ nodes = <<>>
  /\ shown = <<>> /\ restarted = FALSE /\ torn = {}

\* Who holds the monitor of frameQueue over several steps.
InPoll == {"unlink", "empty", "less"}
Offering == exec \in {"link", "count"}
Polling == \E r \in Renderers : rpc[r] \in InPoll
Locked == Offering \/ Polling

Waiting == {r \in Renderers : rpc[r] = "wait"}

\* frameQueue.notify(): one waiting renderer, if there is one, will run.
Notify(pcs) ==
  IF Waiting = {} THEN rpc' = pcs
  ELSE \E r \in Waiting : rpc' = [pcs EXCEPT ![r] = "woken"]

-----------------------------------------------------------------------------
(* The executor: one unit of video after another *)

\* The units in the ring buffer are drained by this thread alone; some may
\* still come when playback has been stopped.
Take ==
  /\ exec = "idle" /\ units < MaxFrames
  /\ units' = units + 1
  /\ exec' = "decode"
  /\ decoder' = TRUE                    \* hasCreated() and create()
  /\ UNCHANGED <<playback, render, frame, oldLast, queue, torn>>

\* decodeI420 gives a picture, none, or none for want of a handle.
Decode ==
  /\ exec = "decode"
  /\ \/ decoder /\ exec' = "size"
        /\ frame' = [unit |-> units, whole |-> TRUE, during |-> starts]
     \/ exec' = "idle" /\ UNCHANGED frame
  /\ UNCHANGED <<playback, render, units, oldLast, decoder, queue, torn>>

\* getFrameWidth, getFrameHeight and getFrameI420 give zeros without a handle.
Size ==
  /\ exec = "size"
  /\ frame' = [frame EXCEPT !.whole = decoder]
  /\ exec' = "offer"
  /\ UNCHANGED <<playback, render, units, oldLast, decoder, queue, torn>>

\* frameQueue.offer(frame), under the monitor: last is read, …
Offer ==
  /\ exec = "offer" /\ ~Polling
  /\ oldLast' = last
  /\ torn' = IF main = "zero" THEN torn \cup {"offer"} ELSE torn
  /\ exec' = "link"
  /\ UNCHANGED <<playback, render, units, frame, decoder, queue>>

\* … the new node becomes last, and first or the next of the old last; if clear
\* has dropped that node, the new one cannot be reached, …
Link ==
  /\ exec = "link"
  /\ \/ /\ oldLast = "null"
        /\ items' = <<frame>> /\ last' = "linked"
     \/ /\ oldLast = "linked" /\ last = "linked"
        /\ items' = Append(items, frame) /\ UNCHANGED last
     \/ /\ oldLast = "lost" \/ (oldLast = "linked" /\ last = "null")
        /\ last' = "lost" /\ UNCHANGED items
  /\ exec' = "count"
  /\ UNCHANGED <<playback, render, units, frame, oldLast, decoder, size, torn>>

\* Seeded fault: the renderer is not notified.
Count_NoNotify ==
  /\ exec = "count"
  /\ size' = size + 1
  /\ exec' = "idle" /\ frame' = NoFrame /\ oldLast' = "null"
  /\ UNCHANGED <<playback, render, units, decoder, items, last, torn>>

\* … and the size grows; notify(), and the monitor is left.
Count ==
  /\ exec = "count"
  /\ size' = size + 1
  /\ Notify(rpc)
  /\ exec' = "idle" /\ frame' = NoFrame /\ oldLast' = "null"
  /\ UNCHANGED <<playback, interrupted, polled, shown, nodes, units, decoder, items, last, torn>>

Execute == Decode \/ Size \/ Offer \/ Link \/ Count

-----------------------------------------------------------------------------
(* The renderers *)

Goto(r, pc) == rpc' = [rpc EXCEPT ![r] = pc]

\* The loop's condition.
Loop(r) ==
  /\ rpc[r] = "loop"
  /\ Goto(r, IF ~interrupted[r] /\ mRun THEN "enter" ELSE "dead")
  /\ UNCHANGED <<playback, interrupted, polled, shown, nodes, decoding, decoder, queue, torn>>

\* Inside the monitor with the size zero: wait(), which throws if interrupted.
Wait(r) ==
  /\ rpc[r] = "enter" /\ ~Locked /\ size = 0
  /\ Goto(r, IF interrupted[r] THEN "dead" ELSE "wait")
  /\ UNCHANGED <<playback, interrupted, polled, shown, nodes, decoding, decoder, queue, torn>>

\* An interrupt ends the wait.
WaitThrows(r) ==
  /\ rpc[r] = "wait" /\ interrupted[r] /\ ~Locked
  /\ Goto(r, "dead")
  /\ UNCHANGED <<playback, interrupted, polled, shown, nodes, decoding, decoder, queue, torn>>

\* wait() returns: the flags are looked at, and then the size again.
Wake(r) ==
  /\ rpc[r] = "woken" /\ ~Locked
  /\ Goto(r, IF interrupted[r] \/ ~mRun THEN "dead" ELSE "enter")
  /\ UNCHANGED <<playback, interrupted, polled, shown, nodes, decoding, decoder, queue, torn>>

\* frameQueue.poll(), under the monitor: nothing when first is null, whatever the
\* size; else first is read, with the frame it holds and what follows it, …
Poll(r) ==
  /\ rpc[r] = "enter" /\ ~Locked /\ size # 0
  /\ \/ items = <<>> /\ Goto(r, "render") /\ UNCHANGED nodes
     \/ items # <<>> /\ Goto(r, "unlink") /\ nodes' = items
  /\ UNCHANGED <<playback, interrupted, polled, shown, decoding, decoder, queue, torn>>

\* Seeded fault: the frame is looked at and stays in the queue.
UnlinkFirst_Peeks(r) ==
  /\ rpc[r] = "unlink"
  /\ polled' = [polled EXCEPT ![r] = {Head(nodes)} \ {NoFrame}]
  /\ nodes' = <<>>
  /\ Goto(r, "render")
  /\ UNCHANGED <<playback, interrupted, shown, decoding, decoder, queue, torn>>

\* … what follows becomes first, …
UnlinkFirst(r) ==
  /\ rpc[r] = "unlink"
  /\ polled' = [polled EXCEPT ![r] = {Head(nodes)} \ {NoFrame}]
  /\ items' = Tail(nodes)
  /\ nodes' = <<>>
  /\ Goto(r, IF Tail(nodes) = <<>> THEN "empty" ELSE "less")
  /\ UNCHANGED <<playback, interrupted, shown, decoding, decoder, last, size, torn>>

\* … last becomes null if nothing follows, …
UnlinkLast(r) ==
  /\ rpc[r] = "empty"
  /\ last' = "null"
  /\ Goto(r, "less")
  /\ UNCHANGED <<playback, interrupted, polled, shown, nodes, decoding, decoder, items, size, torn>>

\* … and the size falls; the monitor is left.
Less(r) ==
  /\ rpc[r] = "less"
  /\ size' = size - 1
  /\ Goto(r, "render")
  /\ UNCHANGED <<playback, interrupted, polled, shown, nodes, decoding, decoder, items, last, torn>>

\* delegate.renderI420, if there is a frame.
Show(r) ==
  /\ rpc[r] = "render"
  /\ \/ polled[r] = {} /\ UNCHANGED shown
     \/ \E f \in polled[r] : shown' = Append(shown, [frame |-> f, by |-> r])
  /\ polled' = [polled EXCEPT ![r] = {}]
  /\ Goto(r, "pace")
  /\ UNCHANGED <<playback, interrupted, nodes, decoding, decoder, queue, torn>>

\* The sleep that keeps the frame rate throws if the thread is interrupted.
Pace(r) ==
  /\ rpc[r] = "pace"
  /\ Goto(r, IF interrupted[r] THEN "dead" ELSE "loop")
  /\ UNCHANGED <<playback, interrupted, polled, shown, nodes, decoding, decoder, queue, torn>>

Render(r) == \/ Loop(r) \/ Wait(r) \/ WaitThrows(r) \/ Wake(r)
             \/ Poll(r) \/ UnlinkFirst(r) \/ UnlinkLast(r) \/ Less(r)
             \/ Show(r) \/ Pace(r)

-----------------------------------------------------------------------------
(* The main thread *)

\* onConnect: deviceHasConnected compares references, so that it does not stop a
\* device that is reported twice.
startPlayback ==
  /\ main = "idle" /\ starts < MaxStarts
  /\ starts' = starts + 1
  /\ mRun' = TRUE
  /\ rendererThread' = starts + 1
  /\ Goto(starts + 1, "loop")
  /\ restarted' = (restarted \/ mRun)
  /\ UNCHANGED <<main, interrupted, polled, shown, nodes, decoding, decoder, queue, torn>>

\* Seeded fault: the renderer is not interrupted.
stopPlayback_NoInterrupt ==
  /\ main = "idle" /\ mRun
  /\ mRun' = FALSE
  /\ main' = "notify"
  /\ UNCHANGED <<starts, rendererThread, restarted, render, decoding, decoder, queue, torn>>

\* disconnected() calls stopPlayback, and deviceHasConnected lets it do so only for
\* the device that startPlayback was called for: the flags, and interrupt().
stopPlayback ==
  /\ main = "idle" /\ mRun
  /\ mRun' = FALSE
  /\ interrupted' = [interrupted EXCEPT ![rendererThread] = TRUE]
  /\ main' = "notify"
  /\ UNCHANGED <<starts, rendererThread, restarted, rpc, polled, shown, nodes, decoding, decoder,
                 queue, torn>>

\* Seeded fault: the decoder is destroyed before the renderer has ended.
NotifyOne_Destroys ==
  /\ main = "notify" /\ ~Locked
  /\ Notify(rpc)
  /\ decoder' = FALSE
  /\ main' = "join"
  /\ UNCHANGED <<starts, mRun, rendererThread, restarted, interrupted, polled, shown, nodes, decoding,
                 queue, torn>>

\* notify() under the monitor.
NotifyOne ==
  /\ main = "notify" /\ ~Locked
  /\ Notify(rpc)
  /\ main' = "join"
  /\ UNCHANGED <<starts, mRun, rendererThread, restarted, interrupted, polled, shown, nodes, decoding,
                 decoder, queue, torn>>

\* Seeded fault: the main thread does not wait for the renderer.
Join_NoWait ==
  /\ main = "join"
  /\ rendererThread' = 0
  /\ main' = "clear"
  /\ UNCHANGED <<starts, mRun, restarted, render, decoding, decoder, queue, torn>>

\* join() returns, and the field is set to null.
Join ==
  /\ main = "join" /\ rpc[rendererThread] = "dead"
  /\ rendererThread' = 0
  /\ main' = "clear"
  /\ UNCHANGED <<starts, mRun, restarted, render, decoding, decoder, queue, torn>>

\* frameQueue.clear() without the monitor: first and last, …  A poll that has read
\* first holds on to what follows, whose items and links clear has removed unless
\* the poll had cut the list before clear came by.
Clear ==
  /\ main = "clear"
  /\ items' = <<>> /\ last' = "null"
  /\ \/ UNCHANGED nodes
     \/ Len(nodes) > 1 /\ nodes' = <<Head(nodes), NoFrame>>
  /\ torn' = torn \cup (IF Offering THEN {"offer"} ELSE {})
                  \cup (IF Polling THEN {"poll"} ELSE {})
  /\ main' = "zero"
  /\ UNCHANGED <<starts, mRun, rendererThread, restarted, rpc, interrupted, polled, shown,
                 decoding, decoder, size>>

\* Seeded fault: the size keeps what it was.
ClearSize_Keeps ==
  /\ main = "zero"
  /\ main' = "destroy"
  /\ UNCHANGED <<starts, mRun, rendererThread, restarted, render, decoding, decoder, queue, torn>>

\* … and then the size.
ClearSize ==
  /\ main = "zero"
  /\ size' = 0
  /\ main' = "destroy"
  /\ UNCHANGED <<starts, mRun, rendererThread, restarted, render, decoding, decoder, items, last,
                 torn>>

\* swDecoder.destroy()
Destroy ==
  /\ main = "destroy"
  /\ decoder' = FALSE
  /\ main' = "idle"
  /\ UNCHANGED <<starts, mRun, rendererThread, restarted, render, decoding, queue, torn>>

Stopping == NotifyOne \/ Join \/ Clear \/ ClearSize \/ Destroy

-----------------------------------------------------------------------------
Next ==
  \/ Take \/ Execute
  \/ \E r \in Renderers : Render(r)
  \/ startPlayback \/ stopPlayback \/ Stopping

Spec == Init /\ [][Next]_vars

\* The threads run; the main thread may start and stop playback or not.
FairSpec ==
  /\ Spec
  /\ WF_vars(Execute) /\ WF_vars(Stopping)
  /\ \A r \in Renderers : WF_vars(Render(r))

-----------------------------------------------------------------------------
(* Properties *)

Frame == [unit : 0..MaxFrames, whole : BOOLEAN, during : 0..MaxStarts]

RendererStates ==
  {"none", "loop", "enter", "wait", "woken", "render", "pace", "dead"} \cup InPoll

TypeOK ==
  /\ main \in {"idle", "notify", "join", "clear", "zero", "destroy"}
  /\ starts \in 0..MaxStarts /\ rendererThread \in 0..starts
  /\ mRun \in BOOLEAN /\ restarted \in BOOLEAN /\ decoder \in BOOLEAN
  /\ torn \subseteq {"offer", "poll"}
  /\ rpc \in [Renderers -> RendererStates]
  /\ interrupted \in [Renderers -> BOOLEAN]
  /\ polled \in [Renderers -> SUBSET Frame]
  /\ exec \in {"idle", "decode", "size", "offer", "link", "count"}
  /\ units \in 0..MaxFrames /\ frame \in Frame
  /\ last \in {"null", "linked", "lost"} /\ oldLast \in {"null", "linked", "lost"}
  /\ items \in Seq(Frame) /\ nodes \in Seq(Frame) /\ size \in -MaxFrames..MaxFrames
  /\ shown \in Seq([frame : Frame, by : Renderers])

\* Unless playback was started twice without a stop, the renderer in the field is
\* the only one alive: when stopPlayback has returned nothing is shown any more.
OneRenderer ==
  ~restarted => \A r \in Renderers : rpc[r] \notin {"none", "dead"} => r = rendererThread

\* Frames are shown in the order they were decoded and never twice, whatever
\* stops, starts and torn queues there were.
ShownInOrder ==
  ~restarted => \A k, l \in DOMAIN shown : k < l => shown[k].frame.unit < shown[l].frame.unit

\* A frame whose decoder was destroyed under it is never shown by the playback
\* it was decoded in.
NoBlankOfItsOwn ==
  ~restarted =>
    \A k \in DOMAIN shown : ~shown[k].frame.whole => shown[k].by > shown[k].frame.during

\* Outside the monitor, and outside clear, the queue's size is its length and its
\* last node the one it ends with, unless clear has run inside an offer or a poll;
\* and it runs inside a poll only if a playback was started over another: else
\* join() has seen the last poll return (FPVVideoClient.java:256-273).
QueueIsSound ==
  /\ torn = {} /\ ~Locked /\ main # "zero" =>
       size = Len(items) /\ last = (IF items = <<>> THEN "null" ELSE "linked")
  /\ ~restarted => "poll" \notin torn

\* stopPlayback returns: the main thread never waits for ever for the renderer.
StopReturns == (main = "join") ~> (main = "idle")

\* A frame in the queue leaves it while playback runs and the queue is sound.
FrameIsShown ==
  \A n \in 1..MaxFrames :
    (\E k \in DOMAIN items : items[k].unit = n)
      ~> (torn # {} \/ ~mRun \/ \A k \in DOMAIN items : items[k].unit # n)
=============================================================================
