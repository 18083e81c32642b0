---------------------------- MODULE ScreenCapture ----------------------------
(***************************************************************************)
(* The picture and video buttons of MainActivity and the static fields of  *)
(* util/mediaprojection/MediaUtil.kt they work on.  Everything runs on the *)
(* main looper, one handler after another; what makes it hard is that the  *)
(* handlers of two presses interleave: the system asks for permission, a   *)
(* capture waits 400 ms, its picture comes with a later frame, and each    *)
(* looks at the field the latest press has set.                            *)
(*                                                                         *)
(* The k-th ImageReader and the k-th MediaRecorder made are reader k and   *)
(* recorder k.                                                             *)
(***************************************************************************)
EXTENDS Naturals

CONSTANTS MaxCaptures,      \* bound: presses of btnCamer
          MaxRecords,       \* bound: presses of btnStartVideo
          MaxPictures       \* bound: pictures a reader may save

ASSUME CaptureAssumption ==
  MaxCaptures \in Nat /\ MaxRecords \in Nat /\ MaxPictures \in Nat \ {0}

Readers == 1..MaxCaptures
Recorders == 1..MaxRecords

VARIABLES
  projection,       \* mMediaProjection is not null
  asking,           \* dialogs of createScreenCaptureIntent not answered:
                    \* how many were opened by each button
  presses,          \* presses of each button
  waiting,          \* captureImages' runnables posted and not yet run
  imageReader,      \* the field: the newest reader, 0 for null
  reader,           \* per reader: "none", "open" or "closed"
  saved,            \* per reader: the pictures saved from it
  mediaRecorder,    \* the field: the newest recorder, 0 for null
  recorder,         \* per recorder: "none", "initial" (prepare() threw), "prepared",
                    \* "started" (no frame yet), "recording", "stopped"
  stopShown,        \* btnStopVideo is visible, btnStartVideo is not
  crashed,          \* an exception left a handler of the main looper
  overlapped,       \* history: a picture was asked for while one was under way
  regranted,        \* history: a video dialog was granted during a recording
  emptyGrant        \* history: since the newest recorder was made, a video dialog
                    \* was granted without a projection

vars == <<projection, asking, presses, waiting, imageReader, reader, saved,
          mediaRecorder, recorder, stopShown, crashed, overlapped, regranted,
          emptyGrant>>

pictures == <<waiting, imageReader, reader, saved, overlapped>>
video    == <<mediaRecorder, recorder, stopShown, crashed, regranted, emptyGrant>>

Init ==
  /\ projection = FALSE /\ asking = [camera |-> 0, video |-> 0]
  /\ presses = [camera |-> 0, video |-> 0]
  /\ waiting = 0 /\ imageReader = 0
  /\ reader = [r \in Readers |-> "none"] /\ saved = [r \in Readers |-> 0]
  /\ mediaRecorder = 0 /\ recorder = [m \in Recorders |-> "none"]
  /\ stopShown = FALSE /\ crashed = FALSE
  /\ overlapped = FALSE /\ regranted = FALSE /\ emptyGrant = FALSE

-----------------------------------------------------------------------------
(* Pictures *)

Open == {r \in Readers : reader[r] = "open"}

\* captureImages: a runnable is posted, to run 400 ms later.
captureImages ==
  /\ waiting' = waiting + 1
  /\ overlapped' = (overlapped \/ waiting > 0 \/ Open # {})
  /\ UNCHANGED <<imageReader, reader, saved>>

\* The runnable: a virtual display on a new reader, which then goes into the field.
\* A projection that has ended makes createVirtualDisplay throw, before that.
PrepareReader ==
  /\ waiting > 0
  /\ waiting' = waiting - 1
  /\ \/ /\ imageReader' = imageReader + 1
        /\ reader' = [reader EXCEPT ![imageReader + 1] = "open"]
        /\ UNCHANGED crashed
     \/ /\ crashed' = TRUE
        /\ UNCHANGED <<imageReader, reader>>
  /\ UNCHANGED <<projection, asking, presses, saved, overlapped, mediaRecorder,
                 recorder, stopShown, regranted, emptyGrant>>

\* Seeded fault: the reader is not closed after its picture.
savePicTask_KeepsOpen(r) ==
  /\ r \in Open /\ saved[r] < MaxPictures
  /\ saved' = [saved EXCEPT ![r] = @ + 1]
  /\ UNCHANGED <<projection, asking, presses, waiting, imageReader, reader, overlapped, video>>

\* A frame of the display has reached reader r: savePicTask takes the picture
\* and closes the reader that is in the field, which need not be r.  An
\* exception on the way leaves all as it was.
savePicTask(r) ==
  /\ r \in Open /\ saved[r] < MaxPictures
  /\ saved' = [saved EXCEPT ![r] = @ + 1]
  /\ reader' = [reader EXCEPT ![imageReader] = "closed"]
  /\ UNCHANGED <<projection, asking, presses, waiting, imageReader, overlapped, video>>

-----------------------------------------------------------------------------
(* Video *)

Running == {"started", "recording"}

\* startMedia puts a new recorder in the field before anything can go wrong.
NewRecorder(state) ==
  /\ mediaRecorder' = mediaRecorder + 1
  /\ recorder' = [recorder EXCEPT ![mediaRecorder + 1] = state]
  /\ regranted' = (regranted \/ stopShown)
  /\ emptyGrant' = FALSE

\* start() returns, or throws an IllegalStateException, which is caught.
Started == \E state \in {"started", "prepared"} : NewRecorder(state)

\* A prepare() that failed was caught in MediaRecorderUtil, but the recorder has no
\* surface to give; createVirtualDisplay and start() throw exceptions of other
\* classes.  Nothing catches these.
StartDies == /\ \E state \in {"initial", "prepared"} : NewRecorder(state)
             /\ crashed' = TRUE
             /\ UNCHANGED stopShown

\* Seeded fault: the stop button is not shown.
startMedia_NoButtons ==
  \/ Started /\ UNCHANGED <<stopShown, crashed>>
  \/ StartDies

\* startMedia; its caller then shows the stop button.
startMedia ==
  \/ Started /\ stopShown' = TRUE /\ UNCHANGED crashed
  \/ StartDies

\* The encoder of recorder m has taken in a frame of its display.
FirstFrame(m) ==
  /\ recorder[m] = "started"
  /\ recorder' = [recorder EXCEPT ![m] = "recording"]
  /\ UNCHANGED <<projection, asking, presses, pictures, mediaRecorder, stopShown,
                 crashed, regranted, emptyGrant>>

\* stopMedia: nothing without a recorder; else stop(), after which the recorder
\* stays in the field (mediaRecorder==null compares).  stop() throws, and nothing
\* catches it, if the recorder is not running or has not received a frame.
StopRecorder ==
  \/ mediaRecorder = 0 /\ UNCHANGED <<recorder, crashed>>
  \/ /\ mediaRecorder > 0 /\ recorder[mediaRecorder] = "recording"
     /\ recorder' = [recorder EXCEPT ![mediaRecorder] = "stopped"]
     /\ UNCHANGED crashed
  \/ /\ mediaRecorder > 0 /\ recorder[mediaRecorder] # "recording"
     /\ crashed' = TRUE
     /\ UNCHANGED recorder

\* Seeded fault: the stop button stays, and can be pressed again.
StopVideo_StaysShown ==
  /\ stopShown
  /\ StopRecorder
  /\ UNCHANGED <<projection, asking, presses, pictures, mediaRecorder, stopShown,
                 regranted, emptyGrant>>

\* btnStopVideo.  The start button comes back unless stopMedia has thrown.
StopVideo ==
  /\ stopShown
  /\ StopRecorder
  /\ stopShown' = crashed'
  /\ UNCHANGED <<projection, asking, presses, pictures, mediaRecorder,
                 regranted, emptyGrant>>

-----------------------------------------------------------------------------
(* The buttons and the answers to their dialogs *)

Press(button) == presses' = [presses EXCEPT ![button] = @ + 1]

Ask(button) == asking' = [asking EXCEPT ![button] = @ + 1]

\* btnCamer.
PressCamera ==
  /\ presses.camera < MaxCaptures
  /\ Press("camera")
  /\ \/ ~projection /\ Ask("camera") /\ UNCHANGED pictures
     \/ projection /\ captureImages /\ UNCHANGED asking
  /\ UNCHANGED <<projection, video>>

\* btnStartVideo, which is not visible while btnStopVideo is.
PressStartVideo ==
  /\ ~stopShown
  /\ presses.video < MaxRecords
  /\ Press("video")
  /\ \/ ~projection /\ Ask("video") /\ UNCHANGED video
     \/ projection /\ startMedia /\ UNCHANGED asking
  /\ UNCHANGED <<projection, pictures>>

Answered(button) == asking[button] > 0 /\ asking' = [asking EXCEPT ![button] = @ - 1]

\* onActivityResult with RESULT_OK, TAG_ONE.  A result without data, or one for which
\* there is no projection, sets the field to null.
GrantCamera ==
  /\ Answered("camera")
  /\ \/ projection' = TRUE /\ captureImages
     \/ projection' = FALSE /\ UNCHANGED pictures
  /\ UNCHANGED <<presses, video>>

\* TAG_TWO: likewise, but the stop button is shown with or without a projection.
GrantVideo ==
  /\ Answered("video")
  /\ \/ projection' = TRUE /\ startMedia
     \/ /\ projection' = FALSE
        /\ stopShown' = TRUE /\ emptyGrant' = TRUE
        /\ UNCHANGED <<mediaRecorder, recorder, crashed, regranted>>
  /\ UNCHANGED <<presses, pictures>>

\* Any other result.
Refuse(button) == /\ Answered(button)
                  /\ UNCHANGED <<projection, presses, pictures, video>>

Next ==
  \/ ~crashed /\ PressCamera
  \/ ~crashed /\ PressStartVideo
  \/ ~crashed /\ StopVideo
  \/ ~crashed /\ GrantCamera
  \/ ~crashed /\ GrantVideo
  \/ \E b \in {"camera", "video"} : ~crashed /\ Refuse(b)
  \/ ~crashed /\ PrepareReader
  \/ \E r \in Readers : ~crashed /\ savePicTask(r)
  \/ \E m \in Recorders : ~crashed /\ FirstFrame(m)

Spec == Init /\ [][Next]_vars

-----------------------------------------------------------------------------
(* Properties *)

TypeOK ==
  /\ projection \in BOOLEAN /\ stopShown \in BOOLEAN /\ crashed \in BOOLEAN
  /\ asking \in [camera : 0..MaxCaptures, video : 0..MaxRecords]
  /\ presses \in [camera : 0..MaxCaptures, video : 0..MaxRecords]
  /\ waiting \in 0..MaxCaptures /\ imageReader \in 0..MaxCaptures
  /\ reader \in [Readers -> {"none", "open", "closed"}]
  /\ saved \in [Readers -> 0..MaxPictures]
  /\ mediaRecorder \in 0..MaxRecords
  /\ recorder \in [Recorders -> {"none", "initial", "prepared", "started", "recording", "stopped"}]
  /\ overlapped \in BOOLEAN
  /\ regranted \in BOOLEAN /\ emptyGrant \in BOOLEAN

\* While no picture has been asked for during another, the reader that is open
\* is the one in the field, and none has given more than one picture.  Overlapped
\* or not, the reader in the field never gives a second: only those that a later
\* press has pushed out of it go on saving (MediaUtil.kt:71-114).
LonePicture ==
  /\ ~overlapped => \A r \in Readers : /\ reader[r] = "open" => r = imageReader /\ saved[r] = 0
                                       /\ saved[r] <= 1
  /\ imageReader > 0 => saved[imageReader] <= 1

\* The two buttons and the recorders agree.  While the start button is shown no
\* recorder runs, unless a second dialog was granted during a recording: its
\* recorder took the place of the one that is still running.  While the stop
\* button is shown the recorder in the field was made for it, unless a dialog was
\* granted without a projection since: it may not have received a frame, or have
\* failed to start, and then stop() throws, but it is never one that was stopped
\* before (MainActivity.kt:164-181 and 241-246, MediaUtil.kt:120-154).
ButtonsMatchRecorder ==
  /\ ~stopShown /\ ~regranted => \A m \in Recorders : recorder[m] \notin Running
  /\ stopShown /\ ~emptyGrant =>
       mediaRecorder > 0 /\ recorder[mediaRecorder] # "stopped"
=============================================================================
