# Verification of LKMagneticRobot

LKMagneticRobot is the Android remote control of a magnetic crawler robot. This
directory holds TLA+ models of its own code (`app/src/main/java/com/example/lkmagneticrobot`,
below `J`, and `app/src/main/jni/yolov5ncnn_jni.cpp`), the TLC configurations that check
them on small instances and theorems that TLAPS proves for every instance.

## The system

| component | state it keeps | operations | talks to |
|---|---|---|---|
| TCP client (`J/util/Netty/NettyTcpClient.java`, `BaseTcpClient.java`) | isConnect, isConnecting, isNeedReconnect, reconnectNum, group, channel | connect, connectServer, connect listener, reconnect, disconnect, sendMsgToServer | one event loop per attempt, the robot's socket, MainActivity as listener |
| message framing (`J/util/Netty/MyDecoder.java`, `MainActivity.onMessageResponseClient`) | firstData | one call per chunk read | TCP client, protocol handling |
| protocol handling (`MainActivity.analysisData`) | UI fields | B101 handshake, B102 telemetry, B103 and B104 settings | robot, UI (main coroutine) |
| commands (`MainActivity.sendControllerData`, `btnSettingParam`, `J/util/ByteDataChange.kt`, `BytesHexChange.java`) | none | build a frame from UI fields | TCP client |
| LED switch (`J/util/thread/BaseThread.kt`) | the shared PrintWriter | ManController per toggle | a second TCP server |
| screen capture (`J/util/mediaprojection/*`) | static ImageReader, MediaRecorder, VirtualDisplay | captureImages, savePicTask, startMedia, stopMedia | MediaProjection, main looper |
| video playback (`J/util/usbfpv/FPVVideoClient.java`) | ring buffer, isPlaying, renderer thread | received, decodeH264, startPlayback, stopPlayback, captureSnapshot | USB serial, decoder, GL view |
| USB attach (`J/util/usb/UsbSerialInit.java`) | mUSBMonitor, the serial connection, mUsbDevice | init, onAttach, onDettach, onConnect, onDisconnect, disconnected | Android USB host |
| picture and video lists (`J/activity/ImageListActivity.kt`, `VideoListActivity.kt`) | fileList, selectIndex, timer | refresh, select, remove, play | directory of pictures or videos, Luban's executor, the capture service |
| object detection (`app/src/main/jni/yolov5ncnn_jni.cpp`) | the proposals of one call | generate_proposals, qsort_descent_inplace, nms_sorted_bboxes | ncnn, two OpenMP sections |

Vendored and left aside: ncnn, librtmp, glslang and Vulkan headers, the OpenH264 and USB
libraries in `.aar` files, resources. `J/view/*`, `J/util/MainUi.kt`, the GL classes and the
constants keep no state beyond a call.

### How the parts interact

* `MainActivity.onCreate` makes one `NettyTcpClient` and calls `connect()` once. The
  client-Netty thread dials; each dial has an event loop of its own, which runs the connect
  listener, reads the socket and calls `MainActivity` back with chunks and with status changes.
  The main thread calls `disconnect()`.
* A chunk goes through `MyDecoder` (bytes to hexadecimal text) to `onMessageResponseClient`,
  which glues chunks in `firstData` and gives `analysisData` what looks like a message.
  `analysisData` answers the handshake, shows telemetry and asks for the next, and launches
  coroutines on the main thread for settings.
* The main thread sends settings through `BaseTcpClient.sendTcpData`; the client drops what is
  sent while `isConnect` is false and tells nobody.
* The LED switch starts a `BaseThread` thread per toggle, with a socket of its own to another
  server and one writer field for all.
* The camera and video buttons go through a permission dialog (`onActivityResult`) to
  `MediaUtil`, whose readers and recorders are static fields; frames come on the main looper.
* `UsbSerialInit` starts and stops `FPVVideoClient` as devices come and go. USB data goes to an
  executor thread that decodes, through a queue to a renderer thread, to the GL view. The vendor's
  `USBMonitor` counts the devices on a timer, shows the permission dialog, receives the
  broadcasts and posts its callbacks to the main looper.
* The lists read the directory the capture writes to; the system may take files from it.

### What is hard

Threads that write the same fields without a common lock (client, LED, playback); a listener
that comes late; a monitor held across a recursion; bytes cut anywhere and a buffer that
outlives its connection; a telemetry loop that only its own answers keep alive; captures that
overwrite each other's static fields; a queue cleared outside its monitor; a join on the main
thread; callbacks that were posted before what they call is dropped, and devices recognised by
reference; a list index kept over a list that changes on disk; a recursive sort whose two halves
run on one vector without a lock. `PROJECT.json` lists each of these at its line, with the properties that would notice.

## The models

Every module keeps the names of the fields and methods it models. Definitions that end in
`_Something` (`Wake_NoSecondTest`) are seeded faults: the same definition as a plausible bug
would have it. No specification uses them; each property has one that breaks it.

| module | code | state | actions |
|---|---|---|---|
| `TcpLink` | what the client promises | number of dials, state of the link | Dial, Establish, Fail, Lose |
| `NettyTcpClient` | `NettyTcpClient.java` | its fields, the monitor, the threads' positions, each attempt's channel and listener | `connect`, `disconnect`, the steps of the thread between two accesses of shared state, the two writes of each branch of the listener, the network |
| `MessageStream`, `MCMessageStream` | `MyDecoder`, `onMessageResponseClient`, the conditions of `analysisData`, `HexStringToBytes` | messages sent per connection, bytes on the wire, `firstData`, accepted messages | `RobotSends`, `channelRead` of any number of bytes, `Reconnect` |
| `Session` | `analysisData`, `sendData`, settings buttons, coroutines | messages both ways, text fields, the robot's settings | a read of one or more messages, an answer, a coroutine, typing, sending, sending an empty field, connection lost and made |
| `PollLoop` | what the telemetry of a connection promises | whose turn it is, whether telemetry was shown, whether something went wrong | Connect, Disconnect, Greet, ShowAndAsk, RobotTurn, AppDrops, RobotDrops, Trouble |
| `MCSession` | | | values for `Session`: each kind of number and float |
| `LedControl` | `BaseThread.kt` | the writer field, sockets, buffers, the threads' positions | `Toggle`, one step per statement of the thread, the controller's `Obey` |
| `ScreenCapture` | `MediaUtil.kt`, buttons and results in `MainActivity` | readers, recorders, dialogs, buttons | a press, an answer to a dialog, the delayed runnable, a frame, stop |
| `FpvPlayback` | `FPVVideoClient.java` | the flag, the thread field, the queue's first, last and size, the decoder's handle, positions of three kinds of threads | the executor's, each renderer's and the main thread's steps |
| `UsbAttach` | `UsbSerialInit.java` | cameras there, dialogs, broadcasts, posted callbacks, the monitor's count and open cameras, the fields, the connection's flag and read threads | plug in and out, an answered dialog, the monitor's timer and receiver, `onConnect`, `onDettach`, the end of a read thread |
| `Gallery` | `ImageListActivity.kt`, `VideoListActivity.kt`, `FileGet.kt` | directory, list, index, what is shown, pictures being compressed, dialog, countdowns | open, refresh, select, remove, leave, a compressed picture, play, its end and its failure, a file saved or taken |
| `DescentSort` | `qsort_descent_inplace` | the vector and the calls that run: range, i, j, pivot | the choice of a pivot, one step of an inner loop, a swap, the start of the two sections |
| `Detection`, `MCDetection` | the end of `Detect`: sort, `nms_sorted_bboxes` | the sort's, the proposals' boxes, the picked indices | the sort's steps, one proposal taken or suppressed |
| `NettyTcpClientProofs`, `LedControlProofs`, `ScreenCaptureProofs`, `FpvPlaybackProofs`, `UsbAttachProofs`, `GalleryProofs` | | | theorems about the module of that name |
| `MainActivityProofs`, `DetectionProofs` | | | theorems about `MessageStream` and `Session`, and about `DescentSort` and `Detection` |

`NettyTcpClient` refines `TcpLink` (`Link == INSTANCE TcpLink WITH ...`), and `Session` refines `PollLoop`
(`Loop == INSTANCE PollLoop WITH ...`): whatever settings are under way, the telemetry is one turn that app and
robot hand to each other, dropped only with trouble and not taken up again before the next connection. `Session` uses the
outcome of the other two lower layers: a connection as the client makes it, with the flag
`isConnect` that a late listener may clear, and messages that are whole but may share a read.
`Detection` extends `DescentSort`: its steps are the sort's until no call is left, then the
suppression's.

### What is abstracted

* *Client.* A connection is a number; the pipeline and the options are left out. Writes of one
  thread are seen by the others in order: no field is volatile, so the runs show errors of
  interleaving and not of the memory model. `disconnect()` in the window before the first group
  exists dereferences null; that is the action `DisconnectThrows`.
* *Stream.* A message's text is its bytes. What the robot can send is a set of messages that
  `analysisData` accepts and that end in 0D 0A; it sends them at any time, in any order. For TLC
  there are three, telemetry with header and trailer bytes in its data among them.
* *Session.* A reading is its sign (the parser throws for a negative one). A group of settings is
  one number and one float, the number below 4096 and the float zero or more, as the fields take
  no sign; a frame is what it carries and how many hexadecimal digits that took, since a number
  above 255 or a zero float gives a frame of the wrong length. A group with a field that is empty,
  as all are at first, or a lone point is `Blank`: sending it throws on the main thread, and
  `SendEmpty` ends the app, which is started anew. The coroutine that shows a reading is not a
  step of its own, since what it writes nobody else writes or reads: `seen` is set when it is
  launched. The robot is modelled from what `analysisData` expects. It may send its first reading
  after the handshake or may be silent (`lost` then holds "silent"): nothing in the app asks for
  telemetry before some has come, since the timer at `MainActivity.kt:355` is commented out.
* *LED.* A failed `Socket()` changes nothing and is no step. Closing may fail after the command
  was written.
* *Capture.* A dialog is granted, granted without a projection (`getMediaProjection` gives null)
  or refused, a frame is a count, files are left out. Each call of a recorder may fail: `prepare`
  is caught and leaves a recorder without a surface, `start` is caught for an
  `IllegalStateException` only, and `stop` throws for a recorder that has no frame yet or was
  stopped before; what is not caught ends the app.
* *Playback.* A unit of video gives a frame or none. The two field writes with which `offer`
  links a node are one step, and so are `clear`'s walk over the nodes and the two writes with which
  it drops them. Everything else in the queue is one step per field: `poll` reads first, writes
  first, last and size one after the other, and the `clear` of a stop may come between any two of
  these when it is the poll of a renderer that a second start left over. `stopPlayback` runs only while playing, as the callers'
  `deviceHasConnected` guarantees. The model lets a start follow a stop, as the class does;
  `UsbSerialInit` drops its USB monitor at a stop, so that in the app this needs a callback that
  was already posted. The ring buffer, snapshots and recording are not in the model: the last
  two have no caller.
* *USB attach.* A `UsbDevice` object is the plug-in it belongs to and which copy it is: `equals`
  compares the first, the code's `==` both. The monitor, the receiver and the serial connection
  are external and modelled from how `UsbSerialInit` uses them: a timer that counts, broadcasts in
  any order, posted callbacks in theirs. `onAttach` is modelled whole, and the monitor's timer calls
  it with null. That is all that calls it with the library the repository ships
  (`app/libs/fpvlibrary-v1.4.aar`, `com.skydroid.android.usbserial.USBMonitor`): its `onReceive` would
  pass the device of a `USB_DEVICE_ATTACHED` intent, but `register()` puts only the permission's action
  and `USB_DEVICE_DETACHED` into the filter, and the timer pushes null. So the branch for a device that
  is given (`UsbSerialInit.java:123-125`), which does not ask whether it is the only one, is never taken.
  `StopsForGood` and `OneConnection` rest on that: with another release of the library, two cameras
  that are plugged in together could both be asked for. That a new read thread may look at the flag before
  `openConnection` has set it is left out. The press at `UsbSerialActivity.java:167` calls
  `disconnected()` on a new object, all of whose fields are null, so that it changes nothing and is
  no action.
* *Lists.* A file is the time it was made at. Luban compresses on one thread, in order; any
  compression may fail, whether or not the file is there, and then the empty `onError` leaves the old
  picture in the view. `delete()` may answer false, which nobody looks at: the file goes from the list
  and stays on the disk. A tap hits the list as it is drawn. What the countdown shows and row colours
  are left out.
* *Detection.* Proposals are a probability from an ordered set and a box on a grid of integers;
  the threshold is compared in hundredths. What floats do near equality is left out.

## The runs

Twelve runs, each for one question. Ten pass:

| run | bounds | what it shows |
|---|---|---|
| `client_safety` | 2 `connect()`, 2 re-dials, 1 accepted connection, 8 attempts | one link at a time, the re-dial budget is never overdrawn and every dial is paid for, `isConnect`, `isConnecting` and `channel` agree with the link until a listener first writes after its attempt's `finally` block, a disconnect that meets no thread on its way to a dial is final, `TcpLink` is implemented |
| `client_liveness` | 2 `connect()`, 1 re-dial, 1 accepted connection | such a disconnect ends the threads; a robot that does not answer is given up |
| `stream` | 2 connections, in each 2 of 3 messages, every cut, every loss | only frames as sent are acted on, in the order they were sent and no byte of them twice, no mixture of two connections stays in `firstData`, cleanly cut frames arrive |
| `session` | 2 connections, 1 group of settings, 4 values, 3 under way | one poll, and alive as long as nothing is lost; `PollLoop` is implemented; the fields show the robot's settings unless a value without a proper frame was sent; telemetry comes and goes on |
| `led` | 3 toggles | no command obeyed twice, lone toggles in order and always obeyed |
| `capture` | 3 captures, 3 recordings, 2 frames each | a lone picture is one picture and the newest reader never gives two; buttons and recorders agree: nothing records behind the start button, and the stop button never stands for a recorder that was stopped before, unless dialogs overlapped |
| `playback` | 2 starts, 3 units of video | one renderer, frames in order and never twice, no frame blank from its own stop, queue fields agree unless a `clear` fell into an offer or a left-over renderer's poll, the stop returns, frames are shown |
| `usb` | 2 plug-ins, 2 detachments of other devices | a dropped monitor stays silent, a second connection needs two requests under way at once, an unplugged camera is let go, a lone camera comes to play |
| `gallery` | 4 files, 3 countdowns at once, 2 pictures being compressed | the index stays in its list unless the system took files, the dialog removes what was seen unless it was not compressed, no countdown in the field runs on once the video is gone |
| `detect` | 4 proposals, 3 probabilities, 4 boxes | the two halves of the sort never share an index, the vector comes back sorted, the report is the best free of overlap, the call returns |

Two show where the code does other than its comments say, with a finding each in `PROJECT.json`:

| run | what it finds |
|---|---|
| `client_reconnects` | `reconnectNum` is tested again after it was taken from: one reconnect less than the maximum |
| `stream_sticky` | frames that share a read, or whose trailer is split, are lost |

Each module has a type invariant, `TypeOK` (`StreamTypeOK` in `MessageStream`), which is proved for all
constants. Only that of the detection is in a run as well, since it says that the vector stays a permutation;
the others have nothing to add to their theorem.

The conditions in the passing properties say where the code promises nothing, and each of them is
needed. `FlagsTruthful` needs that no listener, of a success or a failure, has
written after its attempt's `finally` block: a failure's that runs after the next success, say, clears
`isConnect` of an open link for good. `LoneTogglesObeyed` needs toggles that do not
overlap: two quick ones may leave the light as the first one set it. `LonePicture` needs pictures that do
not overlap: one asked for during another leaves a reader open that saves every frame.
`OneConnection` and `UnplugIsNoticed` need a camera that was asked for once: a device detached
while the dialog is open makes the monitor ask again, and the second object of the same camera
passes both guards, opens a second connection and hides the unplugging of the first.
`SettingsAgree` needs values that fit their frame. `CrashNeedsTrim` needs that only the app
removes files, `RemovesWhatIsSeen` that the last picture got to the view: after a failed
compression the dialog removes the file that is selected, not the one that is still seen.
`CountdownStops` lets those countdowns run on that a second press of play replaced in the field
or that an earlier activity left behind; one that runs after its video failed is still in the field and
ends with the next tap.

### Bounds

*Client.* `DialsArePaidFor` bounds the attempts by 2 + 2(2+1) = 8 in `client_safety` and by
2 + 1(2+1) = 5 in `client_liveness`, so `MaxAttempts` never cuts a behaviour off. Two threads
are enough for the race, one waiting while one recurses; two re-dials tell a lost decrement
from a lost refill. *Stream.* Two connections suffice for what outlives one, and two messages for what lies across a
boundary between messages (any number of either is in the theorems); all cuts
are tried. `stream_sticky` sends three in one connection.
*Session.* One group, because groups share no state but the queues; three settings under way are
one at the robot, one in the answers and one in the coroutines. *LED.* With three toggles one
thread can overtake another that overtakes a third. *Capture.* Three readers: one in the field
and two forgotten. *Playback.* Two starts give an old and a new renderer, three units a torn
offer or poll and a frame that follows it. *USB.* Two plug-ins give a camera that follows another while
callbacks of the first are under way; each detachment of another device resets the
monitor's count, so that a camera can be asked for up to three times. *Lists.* Four files give a first, a middle and a last one and one
that is saved meanwhile; three countdowns are two lost ones and one in the field. *Detection.* Four proposals split twice, with equal probabilities among
them and a box that overlaps two others. `CHECK_DEADLOCK` is off where the system may stop: the client
has given up, all toggles or captures are used up, the stream is read, the call has returned.

### Fairness

*Client:* weak fairness of each thread, of each attempt's event loop and of a refused dial's
answer (the connect timeout); none of `connect`, `disconnect`, an accept or a loss. *Session:* the robot answers, the event
loop reads, the main looper runs what is posted; none of the user's actions and of losses.
*LED:* each thread's steps and the controller's reading; a controller that can be reached is
assumed. *Playback:* executor and renderers run, and so does the main thread inside
`stopPlayback`; no fairness of USB data, starts and stops. *USB:* the monitor's timer, the
receiver and the looper run, read threads see a flag that was cleared, and a user answers a
dialog in the end; none of plugging in and out. *Detection:* the call goes on.

## Proofs

`tlapm` checks these for every value of the constants. Every invariant and every action property that a
passing run checks is a theorem, and so are both refinements.

* `NettyTcpClientProofs`: `TypeCorrect`, `MutualExclusion`, `SingleLink`, `BudgetKept`, `PaidFor`,
  `FinalDisconnect`, `LinkImplemented`, `TruthfulFlags`, `DisconnectWindsDown`. The assumptions are `ClientAssumption`
  (numbers, and a value for "no thread") and, for `PaidFor`, `FinitelyManyCalls` (`connect()` is
  called finitely often, so that its calls can be counted). `OneLink` and `RetryBudget` are not
  inductive. `IInv` adds
  `LinkOrder` (attempts are dialled in the order of their groups, and who waits has one),
  `BudgetBalance` (the re-dials made and those left come to at most one more than the maximum,
  and to the maximum while a thread sleeps that has been charged for a re-dial it has not made) and `StoppedQuiet` (after a final disconnect no
  thread is on its way). The argument is one step per action; `LinkImplemented` maps each step to
  a step of `TcpLink` or a stutter from the same invariant. `TruthfulFlags` adds `ListenerAgrees`
  and `FlagsFollow`: what is left of a listener agrees with what became of its attempt, and how far
  the listener of the link that is waited for has come tells which of its writes have been made.
  For `PaidFor` the invariant `Accounts` is a balance: the dials made, those that a thread is on
  its way to, what is left of the budget and a full budget for each refill still to come never
  exceed what the calls of `connect()` and the accepted connections have paid in.
  `DisconnectWindsDown` is the safety half of `DisconnectEnds`: after a final disconnect an open link is on a group
  that was shut, the owner of the monitor waits for that link or is past it (`WindInv`), and a thread takes no step
  but those out of `connectServer()`.
* `MainActivityProofs`, the framing: `FramingTypes`, `OneConnectionAtATime`,
  `CleanMessagesActedOn`, `NothingGluedAcross`, `NoPhantoms`, `NoPhantomsByHeader`, `InSendingOrder`, from
  `MessageAssumption` (the robot sends what `analysisData` accepts). `StreamInv` says of the unread bytes that they are what is left of their
  frames (`WireInv`), of `firstData` that it holds the part already read of the frame that is being
  read unless a bad cut spoilt it (`PartInv`), and that as long as it is of an earlier connection the
  next byte starts a frame (`OriginInv`). The lemmas `CleanChunk` and `CleanRead` say what a clean
  chunk is and what becomes of it. `StretchInv` says that what waits to be acted on is an unbroken
  run of the bytes of one connection, of which a read takes the front.
  `NoPhantoms`, that nothing but messages as they were sent is acted on, needs a condition on the messages, because a
  sum of bytes does not exclude that the end of one and the start of the next have the form of a third. The
  condition is `Unambiguous`: no run of bytes that starts in one of four messages one after the other is accepted but
  the first message. It speaks of four messages and not of a stream, so that TLC evaluates it for given
  messages, and does in `MCMessageStream`: streams of any length are the theorem's. An accepted run
  has at most 22 bytes and a message at least 7, so that a run ends in the fourth message after its start;
  `Counting`, an induction over the natural numbers, finds the message in which a run starts and those it goes on
  into. `GenuineInv` says that each byte kept or acted on is the byte of its place in what was sent.
  `NoPhantomsByHeader` gives a condition on single messages that suffices, `HeadersOnlyAtStart`. It fails for
  telemetry that holds `B1 02` in its data, for which `Unambiguous` may hold still (it does for the messages of
  `MCMessageStream`); without the test of the length or of the checksum in `analysisData` it does not.
  `InSendingOrder` needs no condition: by `OrderInv` all that was acted on precedes all that waits.
* `MainActivityProofs`, the conversation: `TypeCorrect`, `OneQuestion`, `ShowsSettings`, `LoopImplemented`, from
  `SessionAssumption`. `TalkInv` says of greetings, polls and readings
  together what `OnePoll` says of polls and readings: at most one of them is under way in either
  direction, and one is while the link is open and nothing is lost. `OnePoll` alone is not
  inductive, because the first poll is made by a reading that follows a greeting. `LinkInv` says that nothing is under way
  without a link. Lemmas on `Append`, `Tail` and `SubSeq` (`AppendTalk`, `RestTalk`, `FirstRead`)
  say how a queue's part of the conversation moves. For the settings, `AgreeInv` says that the newest
  setting of a group on its way to the app, or else in the coroutines, or else in the fields is
  what the robot has; a coroutine of an earlier connection is older than that and does no harm.
  `LoopImplemented` maps each step to a step of `PollLoop` or a stutter. By `TalkInv` the two queues together hold one message of the
  conversation, which is whose turn it is (`TurnOf`); what matters step by step is that it is
  replaced by one in the other direction or lost with an entry in `lost`, and that settings around it leave it alone.
* `FpvPlaybackProofs`: `TypeCorrect`, `SingleRenderer`, `SoundQueue`, `InOrder`, `NoOwnBlank`, `WokenForFrames`,
  `StopsInSixSteps`, from `PlaybackAssumption` (the bounds are numbers). `ThreadInv` relates the phases of
  `stopPlayback` to the flag and the field; `MonitorInv` says who is inside the monitor of the queue, that
  what a poll has read is still the queue unless `clear` has come by, and that it meets a poll only of a
  renderer left over; `SizeInv` is a balance of nodes and size that keeps the size within the units
  decoded, above zero and below, whatever `clear` has run inside; `QueueInv` says what an offer or a poll
  half-way through has changed. For blank frames `BlankInv` says that every frame between the
  decoder and the screen is whole or belongs to a playback older than any renderer alive; it
  rests on lemmas on how frames move (`ItemsMove`, `PolledMove`, `FrameMoves`, `ShownMoves`).
  `OrderInv` gives the order: what is shown precedes what a renderer holds, that precedes what is
  queued, and the queue is in the order of the stream. Two are the safety half of the liveness properties.
  `WokenForFrames`: as long as `startPlayback` was not called during playback no renderer waits while the queue counts a frame, so that a
  wake-up cannot be lost. `StopsInSixSteps`: while the main thread is in `join()` the interrupt stands and the flag is
  cleared (`BeyondRecall`), each step of the renderer brings it nearer to its end, which is six steps away at most,
  and no other step takes it back.
* `LedControlProofs`: `TypeCorrect`, `CommandsObeyedOnce`, `LoneTogglesInOrder`. `OnePlace` and
  `Unwritten` say that a command is in one place at a time and in none before it is written;
  `LoneInv` follows the one toggle that is on its way while none overlaps.
* `ScreenCaptureProofs`: `TypeCorrect`, `OnePicture`, `ButtonsAgree`. `PicturesInv` says that
  a lone capture is either waiting or open and what the reader in the field has given, `VideoInv`
  that the stop button stands for the recorder in the field, which is not a stopped one, and that no
  other one runs. How each handler moves a recorder are lemmas (`AnswerHolds`, `StartHolds`).
* `UsbAttachProofs`: `TypeCorrect`, `StaysStopped`, `ConnectsOnce`, `NoticesUnplug`. For
  `StaysStopped`, that `disconnected()` is final although `onConnect` does not
  ask whether the monitor is still registered, `RequestInv` is the reason (`AsksAlone`: given no
  device, `onAttach` asks for a camera only when it is alone): of the cameras that
  are plugged in one at most was asked for, it is the connected one if there is one, and there
  is none without the monitor; every posted `onConnect` is then for a camera that is gone.
  `ConnInv` serves the other two: a camera that was never asked for twice at once has one request,
  in one of three places (a dialog, a broadcast, a posted call), and none once it is connected
  (`SingleInv`, `VideoInv`); a connected camera that was asked for once is open in the monitor,
  and the broadcast that ends the connection is on its way once it is pulled out (`BlockInv`).
* `GalleryProofs`: `TypeCorrect`, `StaysInBounds`, `RemovesShown`, `CountdownEnds`. `ListInv` says
  that no file is listed twice and that the index stays inside a list that is drawn; `SeenInv` that
  the picture shown, or the last one being compressed, is the selected one, unless it was not
  compressed; `TimerInv` that a countdown that runs and is not lost is the one the field holds. The list is
  defined by rank, and the lemmas `Ranks` and `NewestLists` show that this lists each file once,
  newest first.
* `DetectionProofs`: about the sort alone `SortTypeCorrect`, `NoSharedIndex`, `Sorts`, for any number of proposals
  and any probabilities. The invariant gives every running call a partition of its range around the pivot, and
  separates the ranges of calls that run by entries already in order. `SortsInDetect` carries both into the
  composed module, whose steps are the sort's until no call is left. About the call `TypeCorrect`, `GreedyReport` in the loop's own terms, and `BestReport`, what
  is promised of the report: `intersection_area` is the number of cells that two boxes share
  (`SharedCells`, counted side by side), and the order of the sorted vector is the order of
  probabilities. It rests on `BoxAssumption`, that widths and heights are not negative. `SortEnds` is why the call
  returns: `Remaining`, the pieces of work that wait for the calls that run and the rounds of the suppression to come, is at most
  5N²(N+1) + N, falls with every step of every interleaving and is zero just when the report is ready. A piece is a range
  and a number; a running call keeps those of its own range that it has not used up and all those of ranges strictly
  inside. A call uses up at least one per step, and `TurnInv` says that it never goes on with
  its whole range, because the pivot stops both indices and the first swap moves them off both ends.

The invariants of each module's `IInv` use the assumption on its constants (`ClientAssumption`,
`SessionAssumption`, `UsbAssumption` and so on): bounds are numbers, values have their types.

Only model-checked:

* The liveness properties: fairness and ENABLED are beyond the prover. `DisconnectWindsDown`, `WokenForFrames`,
  `StopsInSixSteps` and `SortEnds` are what `DisconnectEnds`, `FrameIsShown`, `StopReturns` and `Answers` rest on, `PaidFor` and
  `LoopImplemented` what `ThreadSettles` and `PollGoesOn` do, without the fairness that turns a bound into an end.
* That given messages are `Unambiguous`, which depends on their data. TLC evaluates it for those of
  `MCMessageStream`; that a robot's messages are so is an assumption of `NoPhantoms`, and `NothingGluedAcross`
  is what holds without it.
* The value of `Checksum` (a fold) for all messages: `MessageAssumption` takes the place of what would be an induction
  over their bytes.

## Plan

Done: the client, the stream, the session with the settings frames, the LED, the capture, the
playback, the USB attach, the lists, the detection; theorems about all of them. Left:

1. `NalSplitter`: the ring buffer and the cutting of the stream into units (`FPVVideoClient.java:45-69`),
   for which the vendor's ring buffer would have to be modelled; `FpvPlayback` takes whole units.
2. Permission results and the snapshot threads they start (`MainActivity.kt:70`).
3. Proofs: measures for the two liveness properties that have none yet, a camera that comes to play and a toggle
   that reaches the light.

## Not modelled, and why

* Drawing, shaders, views, menus and logging: no control that outlives a call.
* File output and names (dates), the unused codecs, `BinaryChange` and `String2ByteArrayUtils`
  (no caller), `sendVideo` and the RTMP packets of `yolov5ncnn_jni.cpp` (no caller).
* The network itself and what comes before the sort in `Detect`: arithmetic on floats over data of
  third-party layers. The app's own calls of `Detect` are commented out in this build, and so is the
  launch of `UsbSerialActivity` (`MainActivity.kt:184`); both are modelled as code the app is built from.
* The interval between reconnects, given as seconds and slept as milliseconds, would need a clock.
* What a field not declared volatile may show another processor.
* The vendored code. By far the largest part of the repository's C and C++ lines are headers of
  ncnn, glslang and Vulkan, repeated for four processors, and librtmp. None of it is this program's own logic, so that the models,
  which cover the app's own classes, map only a small share of the lines of the repository.

## Running

    tlc -config client_safety.cfg NettyTcpClient      (module and cfg of each run: PROJECT.json)
    tlapm NettyTcpClientProofs.tla
