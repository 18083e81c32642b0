-------------------------- MODULE ScreenCaptureProofs --------------------------
(***************************************************************************)
(* Theorems about ScreenCapture for any number of presses and pictures.    *)
(***************************************************************************)
EXTENDS ScreenCapture, TLAPS

-----------------------------------------------------------------------------
(* The inductive invariant *)

\* A press asks, waits or has its reader, or its recorder: none does two of them.
PressesPay ==
  /\ asking.camera + waiting + imageReader <= presses.camera
  /\ asking.video + mediaRecorder <= presses.video

\* Readers and recorders are made in order, and the fields hold the newest.
MadeInOrder ==
  /\ \A r \in Readers : reader[r] = "none" <=> r > imageReader
  /\ \A r \in Readers : r > imageReader => saved[r] = 0
  /\ \A m \in Recorders : recorder[m] = "none" <=> m > mediaRecorder

\* What makes LonePicture inductive: the reader in the field has given no picture
\* while it is open and at most one afterwards, and a lone capture is either
\* waiting or open.
PicturesInv ==
  /\ imageReader > 0 => /\ saved[imageReader] <= 1
                        /\ reader[imageReader] = "open" => saved[imageReader] = 0
  /\ ~overlapped =>
       /\ waiting <= 1
       /\ waiting = 1 => Open = {}
       /\ \A r \in Readers : reader[r] = "open" => r = imageReader
       /\ \A r \in Readers : saved[r] <= 1

\* What makes ButtonsMatchRecorder inductive: the stop button stands for the
\* recorder in the field, and no other runs unless a second was granted.
VideoInv ==
  /\ ~regranted => \A m \in Recorders :
       recorder[m] \in Running => m = mediaRecorder /\ stopShown
  /\ stopShown /\ ~emptyGrant =>
       mediaRecorder > 0 /\ recorder[mediaRecorder] # "stopped"

RecorderStates == {"none", "initial", "prepared", "started", "recording", "stopped"}

IInv == TypeOK /\ PressesPay /\ MadeInOrder /\ PicturesInv /\ VideoInv

-----------------------------------------------------------------------------
(* What the three steps that do the work keep *)

\* captureImages, as a press or a granted dialog calls it.
LEMMA CaptureHolds ==
  ASSUME IInv, captureImages, waiting < MaxCaptures
  PROVE  /\ waiting' \in 0..MaxCaptures /\ overlapped' \in BOOLEAN
         /\ PicturesInv'
<1> USE CaptureAssumption DEF IInv, TypeOK, captureImages
<1>1. waiting' = waiting + 1 /\ waiting' \in 0..MaxCaptures /\ overlapped' \in BOOLEAN
  <2>1. overlapped' = (overlapped \/ waiting > 0 \/ Open # {})
    OBVIOUS
  <2>2. overlapped' \in BOOLEAN
    BY ONLY <2>1
  <2> QED BY <2>2
<1>2. ASSUME ~overlapped' PROVE ~overlapped /\ waiting = 0 /\ Open = {}
  <2>1. overlapped' = (overlapped \/ waiting > 0 \/ Open # {})
    OBVIOUS
  <2>2. ~overlapped /\ ~(waiting > 0) /\ Open = {}
    BY ONLY <1>2, <2>1
  <2>3. waiting = 0
    BY <2>2
  <2> QED BY <2>2, <2>3
<1>3. Open' = Open
  BY DEF Open
<1> QED BY <1>1, <1>2, <1>3 DEF PicturesInv

\* startMedia, likewise: the new recorder is the only one that may run, whichever way
\* the call ends.
LEMMA StartHolds ==
  ASSUME IInv, startMedia, mediaRecorder < MaxRecords
  PROVE  /\ mediaRecorder' = mediaRecorder + 1 /\ mediaRecorder' \in 0..MaxRecords
         /\ recorder' \in [Recorders -> RecorderStates]
         /\ crashed' \in BOOLEAN /\ stopShown' \in BOOLEAN
         /\ regranted' \in BOOLEAN /\ emptyGrant' \in BOOLEAN
         /\ \A m \in Recorders : recorder'[m] = "none" <=> m > mediaRecorder'
         /\ VideoInv'
<1> USE CaptureAssumption DEF IInv, TypeOK, Recorders
<1>1. PICK state \in {"initial", "prepared", "started"} :
        /\ NewRecorder(state)
        /\ \/ stopShown' = TRUE /\ crashed' = crashed
           \/ /\ state # "started" /\ crashed' = TRUE
              /\ stopShown' = stopShown
  BY DEF startMedia, Started, StartDies
<1> DEFINE new == mediaRecorder + 1
<1>2. /\ new \in Recorders /\ new \in 0..MaxRecords /\ new > 0
      /\ mediaRecorder' = new
      /\ recorder' = [recorder EXCEPT ![new] = state]
      /\ regranted' = (regranted \/ stopShown) /\ emptyGrant' = FALSE
  BY <1>1 DEF NewRecorder
<1>3. \A m \in Recorders : recorder'[m] = IF m = new THEN state ELSE recorder[m]
  BY <1>2
<1>4. /\ recorder' \in [Recorders -> RecorderStates]
      /\ \A m \in Recorders : recorder'[m] = "none" <=> m > mediaRecorder'
  BY <1>2, <1>3 DEF MadeInOrder, RecorderStates
<1>5. ASSUME ~regranted', NEW m \in Recorders, recorder'[m] \in Running
      PROVE  m = mediaRecorder' /\ stopShown'
  <2>1. ~regranted /\ ~stopShown
    BY <1>2, <1>5
  <2>2. recorder[m] \notin Running
    BY <2>1 DEF VideoInv
  <2>3. m = new /\ state \in Running
    BY <1>3, <1>5, <2>2
  <2> QED BY <1>1, <1>2, <2>3 DEF Running
<1>6. mediaRecorder' > 0 /\ recorder'[mediaRecorder'] # "stopped"
  BY <1>2, <1>3
<1>7. VideoInv'
  BY <1>5, <1>6 DEF VideoInv
<1>8. /\ crashed' \in BOOLEAN /\ stopShown' \in BOOLEAN
      /\ regranted' \in BOOLEAN /\ emptyGrant' \in BOOLEAN
  BY <1>1, <1>2
<1> QED BY <1>2, <1>4, <1>7, <1>8

-----------------------------------------------------------------------------
\* An answer that changes none of the fields the invariant is about.
LEMMA AnswerHolds ==
  ASSUME NEW b \in {"camera", "video"}, IInv, Answered(b), projection' \in BOOLEAN,
         stopShown' \in BOOLEAN, emptyGrant' \in BOOLEAN,
         UNCHANGED <<presses, pictures, mediaRecorder, recorder, crashed, regranted>>
  PROVE  TypeOK' /\ PressesPay' /\ MadeInOrder'
BY CaptureAssumption DEF IInv, Answered, TypeOK, PressesPay, MadeInOrder, pictures

LEMMA InitIInv == Init => IInv
<1> SUFFICES ASSUME Init PROVE IInv
  OBVIOUS
<1> USE CaptureAssumption DEF Init, Readers, Recorders
<1>1. TypeOK
  <2>1. reader \in [Readers -> {"none"}] /\ recorder \in [Recorders -> {"none"}]
    OBVIOUS
  <2>2. saved \in [Readers -> {0}]
    OBVIOUS
  <2>3. /\ 0 \in 0..MaxCaptures /\ 0 \in 0..MaxRecords /\ 0 \in 0..MaxPictures
    OBVIOUS
  <2> QED BY <2>1, <2>2, <2>3 DEF TypeOK
<1>2. PressesPay /\ MadeInOrder
  BY DEF PressesPay, MadeInOrder
<1>3. PicturesInv
  BY DEF PicturesInv, Open
<1>4. VideoInv
  BY DEF VideoInv, Running
<1> QED BY <1>1, <1>2, <1>3, <1>4 DEF IInv

LEMMA NextIInv == IInv /\ [Next]_vars => IInv'
<1> SUFFICES ASSUME IInv, [Next]_vars PROVE IInv'
  OBVIOUS
<1> USE CaptureAssumption DEF IInv
<1>a. ASSUME UNCHANGED pictures PROVE PicturesInv'
  BY <1>a DEF pictures, PicturesInv, Open
<1>b. ASSUME UNCHANGED video PROVE VideoInv'
  BY <1>b DEF video, VideoInv
<1>1. CASE PressCamera
  <2> USE DEF PressCamera, Press, Ask
  <2>1. waiting < MaxCaptures
    BY <1>1 DEF TypeOK, PressesPay
  <2>2. CASE Ask("camera") /\ UNCHANGED pictures
    BY <1>1, <1>a, <1>b, <2>2 DEF TypeOK, PressesPay, MadeInOrder, pictures, video
  <2>3. CASE captureImages /\ UNCHANGED asking
    <3>1. /\ waiting' \in 0..MaxCaptures /\ overlapped' \in BOOLEAN
          /\ PicturesInv'
      BY <2>1, <2>3, CaptureHolds
    <3> QED BY <1>1, <1>b, <2>3, <3>1
            DEF captureImages, TypeOK, PressesPay, MadeInOrder, video
  <2> QED BY <1>1, <2>2, <2>3
<1>2. CASE PressStartVideo
  <2> USE DEF PressStartVideo, Press, Ask
  <2>1. mediaRecorder < MaxRecords
    BY <1>2 DEF TypeOK, PressesPay
  <2>2. CASE Ask("video") /\ UNCHANGED video
    BY <1>2, <1>a, <1>b, <2>2 DEF TypeOK, PressesPay, MadeInOrder, pictures, video
  <2>3. CASE startMedia /\ UNCHANGED asking
    <3>1. /\ mediaRecorder' = mediaRecorder + 1 /\ mediaRecorder' \in 0..MaxRecords
          /\ recorder' \in [Recorders -> RecorderStates]
          /\ crashed' \in BOOLEAN /\ stopShown' \in BOOLEAN
          /\ regranted' \in BOOLEAN /\ emptyGrant' \in BOOLEAN
          /\ \A m \in Recorders : recorder'[m] = "none" <=> m > mediaRecorder'
          /\ VideoInv'
      BY <2>1, <2>3, StartHolds
    <3> QED BY <1>2, <1>a, <2>3, <3>1
            DEF TypeOK, PressesPay, MadeInOrder, pictures, RecorderStates
  <2> QED BY <1>2, <2>2, <2>3
\* The recorder that is stopped is the one in the field, and the button goes.
<1>3. CASE ~crashed /\ StopVideo
  <2> USE DEF StopVideo, StopRecorder
  <2>1. CASE mediaRecorder = 0 /\ UNCHANGED <<recorder, crashed>>
    BY <1>3, <1>a, <2>1 DEF TypeOK, PressesPay, MadeInOrder, VideoInv, pictures, Recorders
  <2>2. CASE /\ mediaRecorder > 0 /\ recorder[mediaRecorder] = "recording"
             /\ recorder' = [recorder EXCEPT ![mediaRecorder] = "stopped"]
             /\ UNCHANGED crashed
    <3>1. /\ mediaRecorder \in Recorders /\ mediaRecorder' = mediaRecorder
          /\ stopShown' = FALSE /\ regranted' = regranted
          /\ \A m \in Recorders :
               recorder'[m] = IF m = mediaRecorder THEN "stopped" ELSE recorder[m]
      BY <1>3, <2>2 DEF TypeOK, Recorders
    <3>2. VideoInv'
      BY <3>1 DEF VideoInv, Running
    <3>3. TypeOK'
      BY <1>3, <2>2, <3>1 DEF TypeOK, pictures
    <3>4. PressesPay' /\ MadeInOrder'
      BY <1>3, <2>2, <3>1 DEF PressesPay, MadeInOrder, pictures
    <3> QED BY <1>3, <1>a, <3>2, <3>3, <3>4
  <2>3. CASE /\ mediaRecorder > 0 /\ recorder[mediaRecorder] # "recording"
             /\ crashed' = TRUE
             /\ UNCHANGED recorder
    BY <1>3, <1>a, <2>3 DEF TypeOK, PressesPay, MadeInOrder, VideoInv, pictures
  <2> QED BY <1>3, <2>1, <2>2, <2>3
<1>4. CASE GrantCamera
  <2> USE DEF GrantCamera
  <2>1. waiting < MaxCaptures
    BY <1>4 DEF Answered, TypeOK, PressesPay
  <2>2. CASE projection' = FALSE /\ UNCHANGED pictures
    <3>1. /\ projection' \in BOOLEAN /\ stopShown' \in BOOLEAN /\ emptyGrant' \in BOOLEAN
          /\ UNCHANGED <<presses, pictures, mediaRecorder, recorder, crashed, regranted>>
      BY <1>4, <2>2 DEF video, TypeOK
    <3>2. Answered("camera")
      BY <1>4
    <3>3. TypeOK' /\ PressesPay' /\ MadeInOrder'
      BY <3>1, <3>2, AnswerHolds
    <3> QED BY <1>4, <1>a, <1>b, <2>2, <3>3
  <2>3. CASE projection' = TRUE /\ captureImages
    <3>1. /\ waiting' \in 0..MaxCaptures /\ overlapped' \in BOOLEAN
          /\ PicturesInv'
      BY <2>1, <2>3, CaptureHolds
    <3> QED BY <1>4, <1>b, <2>3, <3>1
            DEF Answered, captureImages, TypeOK, PressesPay, MadeInOrder, video
  <2> QED BY <1>4, <2>2, <2>3
\* Without a projection the fields stay, and only the buttons change.
<1>5. CASE GrantVideo
  <2> USE <1>5 DEF GrantVideo
  <2>1. mediaRecorder < MaxRecords
    BY DEF Answered, TypeOK, PressesPay
  <2>2. CASE projection' = TRUE /\ startMedia
    <3>1. /\ mediaRecorder' = mediaRecorder + 1 /\ mediaRecorder' \in 0..MaxRecords
          /\ recorder' \in [Recorders -> RecorderStates]
          /\ crashed' \in BOOLEAN /\ stopShown' \in BOOLEAN
          /\ regranted' \in BOOLEAN /\ emptyGrant' \in BOOLEAN
          /\ \A m \in Recorders : recorder'[m] = "none" <=> m > mediaRecorder'
          /\ VideoInv'
      BY <2>1, <2>2, StartHolds
    <3> QED BY <1>a, <2>2, <3>1
            DEF Answered, TypeOK, PressesPay, MadeInOrder, pictures, RecorderStates
  <2>3. CASE /\ projection' = FALSE /\ stopShown' = TRUE /\ emptyGrant' = TRUE
             /\ UNCHANGED <<mediaRecorder, recorder, crashed, regranted>>
    <3>1. VideoInv'
      BY <2>3 DEF VideoInv
    <3>2. /\ projection' \in BOOLEAN /\ stopShown' \in BOOLEAN /\ emptyGrant' \in BOOLEAN
          /\ UNCHANGED <<presses, pictures, mediaRecorder, recorder, crashed, regranted>>
      BY <2>3
    <3>3. Answered("video")
      OBVIOUS
    <3>4. TypeOK' /\ PressesPay' /\ MadeInOrder'
      BY <3>2, <3>3, AnswerHolds
    <3> QED BY <1>a, <3>1, <3>2, <3>4
  <2> QED BY <2>2, <2>3
<1>6. ASSUME NEW b \in {"camera", "video"}, Refuse(b) PROVE IInv'
  BY <1>6, <1>a, <1>b
  DEF Refuse, Answered, TypeOK, PressesPay, MadeInOrder, pictures, video
\* A lone capture finds no reader open, and its own has given no picture.
<1>7. CASE PrepareReader
  <2> DEFINE made == /\ imageReader' = imageReader + 1
                     /\ reader' = [reader EXCEPT ![imageReader + 1] = "open"]
                     /\ UNCHANGED crashed
  <2> HIDE DEF made
  <2>a. \/ made
        \/ crashed' = TRUE /\ UNCHANGED <<imageReader, reader>>
    BY <1>7 DEF PrepareReader, made
  <2>b. /\ waiting > 0 /\ waiting' = waiting - 1
        /\ UNCHANGED <<projection, asking, presses, saved, overlapped, mediaRecorder,
                       recorder, stopShown, regranted, emptyGrant>>
    BY <1>7 DEF PrepareReader
  <2>c. CASE crashed' = TRUE /\ UNCHANGED <<imageReader, reader>>
    <3>1. TypeOK' /\ PressesPay' /\ MadeInOrder' /\ VideoInv'
      BY <2>b, <2>c DEF TypeOK, PressesPay, MadeInOrder, VideoInv
    <3>2. waiting \in Nat /\ waiting' \in Nat /\ waiting' < waiting /\ Open' = Open
      BY <2>b, <2>c DEF TypeOK, Open
    <3>3. PicturesInv'
      BY <2>b, <2>c, <3>2 DEF PicturesInv
    <3> QED BY <3>1, <3>3
  <2>d. CASE made
    <3>1. /\ waiting \in Nat /\ imageReader + 1 \in Readers
          /\ imageReader' = imageReader + 1 /\ overlapped' = overlapped
      BY <2>b, <2>d DEF made, TypeOK, PressesPay, Readers
    <3>2. saved'[imageReader'] = 0 /\ reader'[imageReader'] = "open"
      BY <2>b, <2>d, <3>1 DEF made, TypeOK, MadeInOrder, Readers
    <3>3. ASSUME ~overlapped
          PROVE  /\ waiting' = 0
                 /\ \A q \in Readers : saved'[q] <= 1
                 /\ \A q \in Readers : reader'[q] = "open" => q = imageReader'
      <4>1. /\ waiting <= 1
            /\ waiting = 1 => Open = {}
            /\ \A q \in Readers : saved[q] <= 1
        BY <3>3, Zenon DEF PicturesInv
      <4>2. waiting = 1
        BY <2>b, <3>1, <4>1
      <4>3. \A q \in Readers : reader[q] # "open"
        BY <4>1, <4>2 DEF Open
      <4> QED BY <2>b, <2>d, <3>1, <4>1, <4>2, <4>3 DEF made, TypeOK
    <3>4. PicturesInv'
      BY <3>1, <3>2, <3>3 DEF PicturesInv
    <3>5. TypeOK'
      BY <2>b, <2>d, <3>1 DEF made, TypeOK, Readers
    <3>6. PressesPay'
      BY <2>b, <2>d, <3>1 DEF made, TypeOK, PressesPay
    <3>7. MadeInOrder'
      BY <2>b, <2>d, <3>1 DEF made, TypeOK, MadeInOrder, Readers
    <3>8. VideoInv'
      BY <2>b DEF VideoInv
    <3> QED BY <3>4, <3>5, <3>6, <3>7, <3>8
  <2> QED BY <2>a, <2>c, <2>d
\* Whichever reader the frame came from, the one in the field is closed by it.
<1>8. ASSUME NEW r \in Readers, savePicTask(r) PROVE IInv'
  <2>1. imageReader \in Readers
    BY <1>8 DEF savePicTask, Open, TypeOK, MadeInOrder, Readers
  <2>2. PicturesInv'
    <3> USE <1>8, <2>1 DEF savePicTask, TypeOK, PicturesInv, Open
    <3>1. /\ saved'[imageReader] <= 1
          /\ reader'[imageReader] = "closed"
      BY DEF Readers
    <3>2. ASSUME ~overlapped
          PROVE  /\ waiting' = 0
                 /\ \A q \in Readers : saved'[q] <= 1 /\ reader'[q] # "open"
      <4>a. reader[r] = "open" /\ Open # {}
        OBVIOUS
      <4>b. /\ waiting <= 1 /\ waiting # 1
            /\ \A q \in Readers : reader[q] = "open" => q = imageReader
            /\ \A q \in Readers : saved[q] <= 1
        BY <3>2, <4>a
      <4>1. r = imageReader /\ saved[r] = 0
        BY <4>a, <4>b DEF Readers
      <4>2. waiting = 0
        BY <4>b
      <4>3. \A q \in Readers : saved'[q] <= 1
        BY <4>b, <4>1
      <4>4. \A q \in Readers : reader'[q] # "open"
        BY <4>b, <4>1
      <4> QED BY <4>2, <4>3, <4>4
    <3>3. overlapped' = overlapped /\ imageReader' = imageReader
      OBVIOUS
    <3> QED BY <3>1, <3>2, <3>3
  <2>3. saved' \in [Readers -> 0..MaxPictures] /\ reader[r] = "open"
    BY <1>8 DEF savePicTask, Open, TypeOK
  <2>4. TypeOK'
    BY <1>8, <2>1, <2>3 DEF savePicTask, TypeOK, video
  <2>5. PressesPay' /\ MadeInOrder'
    <3>1. PressesPay'
      BY <1>8 DEF savePicTask, PressesPay, video
    <3>2. MadeInOrder'
      BY <1>8, <2>1, <2>3 DEF savePicTask, TypeOK, MadeInOrder, video, Readers
    <3> QED BY <3>1, <3>2
  <2>6. VideoInv'
    BY <1>8, <1>b DEF savePicTask
  <2> QED BY <2>2, <2>4, <2>5, <2>6
<1>9. CASE UNCHANGED vars
  <2>1. TypeOK'
    BY <1>9 DEF vars, pictures, video, TypeOK
  <2>2. PressesPay' /\ MadeInOrder'
    BY <1>9 DEF vars, pictures, video, PressesPay, MadeInOrder
  <2> QED BY <1>9, <1>a, <1>b, <2>1, <2>2 DEF vars, pictures, video
\* A recorder that ran still runs.
<1>10. ASSUME NEW m \in Recorders, FirstFrame(m) PROVE IInv'
  <2>1. /\ recorder[m] = "started"
        /\ \A q \in Recorders : recorder'[q] = IF q = m THEN "recording" ELSE recorder[q]
        /\ UNCHANGED <<mediaRecorder, stopShown, regranted, emptyGrant>>
    BY <1>10 DEF FirstFrame, TypeOK
  <2>2. VideoInv'
    BY <2>1 DEF VideoInv, Running, TypeOK, MadeInOrder, Recorders
  <2>3. MadeInOrder'
    BY <1>10, <2>1 DEF FirstFrame, MadeInOrder, pictures
  <2>4. TypeOK' /\ PressesPay'
    BY <1>10, <2>1 DEF FirstFrame, TypeOK, PressesPay, pictures
  <2> QED BY <1>10, <1>a, <2>2, <2>3, <2>4 DEF FirstFrame
<1> QED BY <1>1, <1>2, <1>3, <1>4, <1>5, <1>6, <1>7, <1>8, <1>9, <1>10 DEF Next

LEMMA Invariance == Spec => []IInv
BY InitIInv, NextIInv, PTL DEF Spec

-----------------------------------------------------------------------------
(* Theorems *)

\* Every variable keeps its type: there are never more readers and recorders than
\* presses.
THEOREM TypeCorrect == Spec => []TypeOK
BY Invariance, PTL DEF IInv

\* A picture asked for during no other is one picture, and the newest reader never
\* gives two, for any number of presses, dialogs and frames.
THEOREM OnePicture == Spec => []LonePicture
<1>1. IInv => LonePicture
  <2> SUFFICES ASSUME IInv PROVE LonePicture
    OBVIOUS
  <2>1. ASSUME ~overlapped, NEW r \in Readers
        PROVE  /\ reader[r] = "open" => r = imageReader /\ saved[r] = 0
               /\ saved[r] <= 1
    BY <2>1, CaptureAssumption DEF IInv, TypeOK, PicturesInv, Readers
  <2>2. imageReader > 0 => saved[imageReader] <= 1
    BY DEF IInv, PicturesInv
  <2> QED BY <2>1, <2>2 DEF LonePicture
<1> QED BY <1>1, Invariance, PTL

\* The start button is shown only while no recorder runs, unless a dialog was granted
\* during a recording, and the stop button never for a recorder that was stopped
\* before, unless a dialog was granted without a projection: whatever prepare(),
\* start(), stop() and the display throw, and however late the first frame comes.
THEOREM ButtonsAgree == Spec => []ButtonsMatchRecorder
<1>1. IInv => ButtonsMatchRecorder
  BY DEF IInv, VideoInv, ButtonsMatchRecorder, Running
<1> QED BY <1>1, Invariance, PTL
=============================================================================
