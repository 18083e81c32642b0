------------------------------- MODULE Gallery -------------------------------
(***************************************************************************)
(* activity/ImageListActivity.kt and VideoListActivity.kt: the files of    *)
(* one directory, newest first, one of them selected and shown, and a      *)
(* dialog that removes it.  The two share the list and its adapter.  A     *)
(* picture is compressed on Luban's serial executor (external) and shown   *)
(* when that is done; a video is shown at once and played with a countdown *)
(* on a Timer.                                                             *)
(*                                                                         *)
(* A file is the time it was made at.  The directory is in the external    *)
(* cache, from which the system may take files, and the capture service    *)
(* goes on saving into it.                                                 *)
(***************************************************************************)
EXTENDS Naturals, FiniteSets, Sequences, SequencesExt

CONSTANTS MaxFiles,     \* bound: files made
          MaxTimers,    \* bound: countdowns that run at once
          MaxPending    \* bound: pictures on the executor when another is asked for

ASSUME GalleryAssumption == MaxFiles \in Nat /\ MaxTimers \in Nat /\ MaxPending \in Nat

VARIABLES
  kind,         \* which of the two activities: "picture" or "video"
  disk,         \* the files in the directory
  made,         \* files made so far
  screen,       \* "list", "empty" (the no-data picture), "closed" or "crashed"
  fileList, selectIndex,    \* the fields
  imageView,    \* the file it shows, 0 for none
  compress,     \* pictures on the executor and its results, oldest first
  dialog,       \* the dialog is open
  videoView,    \* "gone", "plays", or "failed": seen, with nothing that plays
  timers,       \* countdowns that run
  timer,        \* the field, 0 for null
  promised,     \* history: the file shown when the dialog opened, if that was settled
  missed,       \* history: the last picture of the executor was not compressed
  trimmed,      \* history: the system took a file
  lost          \* history: countdowns that no field has any more

files == <<disk, made, trimmed>>
list  == <<screen, fileList, selectIndex>>
shown == <<imageView, compress, missed>>
video == <<videoView, timers, timer, lost>>
vars  == <<kind, files, list, shown, dialog, promised, video>>

Selected(l, i) == l[i + 1]      \* a Kotlin list counts from 0

\* listFileSortByModifyTime(...).reversed(): at k the file that k of them are not
\* older than, itself included.
Newest(d) == [k \in 1..Cardinality(d) |->
                 CHOOSE f \in d : Cardinality({g \in d : g >= f}) = k]

\* setBitmap, and setVideo with the frame of a video, which may not be found.
Show(f) ==
  \/ kind = "picture" /\ compress' = Append(compress, f) /\ UNCHANGED <<imageView, missed>>
  \/ kind = "video" /\ imageView' \in {0, f} \cap ({0} \cup disk) /\ UNCHANGED <<compress, missed>>

\* Fault: the list is shown anew with its first file.
getFileList_ShowsFirst ==
  LET l == IF disk = {} THEN fileList ELSE Newest(disk)
  IN /\ fileList' = l
     /\ IF l = <<>> THEN screen' = "empty" /\ UNCHANGED shown
        ELSE IF selectIndex < Len(l) THEN screen' = "list" /\ Show(Selected(l, 0))
        ELSE screen' = "crashed" /\ UNCHANGED shown

\* An empty directory leaves the old list as it is; the index is not looked at
\* before the list is indexed with it.
getFileList ==
  LET l == IF disk = {} THEN fileList ELSE Newest(disk)
  IN /\ fileList' = l
     /\ IF l = <<>> THEN screen' = "empty" /\ UNCHANGED shown
        ELSE IF selectIndex < Len(l) THEN screen' = "list" /\ Show(Selected(l, selectIndex))
        ELSE screen' = "crashed" /\ UNCHANGED shown

Init ==
  /\ kind \in {"picture", "video"}
  /\ made \in 0..MaxFiles /\ disk = 1..made /\ trimmed = FALSE
  /\ screen = "closed" /\ fileList = <<>> /\ selectIndex = 0
  /\ imageView = 0 /\ compress = <<>> /\ missed = FALSE
  /\ dialog = FALSE /\ promised = 0
  /\ videoView = "gone" /\ timers = {} /\ timer = 0 /\ lost = {}

-----------------------------------------------------------------------------
(* The directory *)

Save ==
  /\ made < MaxFiles
  /\ made' = made + 1 /\ disk' = disk \cup {made + 1}
  /\ UNCHANGED <<kind, trimmed, list, shown, dialog, promised, video>>

Trim(f) ==
  /\ f \in disk
  /\ disk' = disk \ {f} /\ trimmed' = TRUE
  /\ UNCHANGED <<kind, made, list, shown, dialog, promised, video>>

-----------------------------------------------------------------------------
(* The list *)

\* actionStart and onCreate: an activity with new fields.
Open ==
  /\ screen = "closed" /\ fileList = <<>>
  /\ getFileList
  /\ UNCHANGED <<kind, files, selectIndex, dialog, promised, video>>

\* finish(): the fields go with the activity, the countdowns do not.
Back ==
  /\ screen \in {"list", "empty"} /\ ~dialog
  /\ screen' = "closed" /\ fileList' = <<>> /\ selectIndex' = 0
  /\ imageView' = 0 /\ compress' = <<>> /\ missed' = FALSE
  /\ videoView' = "gone" /\ timer' = 0 /\ lost' = timers
  /\ UNCHANGED <<kind, files, dialog, promised, timers>>

\* The refresh that a pull started comes when its animation ends, dialog or not.  A
\* videoView that is seen is given its file anew and plays it.
Refresh ==
  /\ screen = "list" /\ Len(compress) < MaxPending
  /\ getFileList
  /\ videoView' = IF videoView = "failed" THEN "plays" ELSE videoView
  /\ promised' = 0
  /\ UNCHANGED <<kind, files, selectIndex, dialog, timers, timer, lost>>

\* Fault: the countdown of the old file is not cancelled.
backPosition_NoCancel(i) ==
  /\ screen = "list" /\ ~dialog /\ i < Len(fileList) /\ Len(compress) < MaxPending
  /\ selectIndex' = i
  /\ videoView' = "gone"
  /\ Show(Selected(fileList, i))
  /\ UNCHANGED <<kind, files, screen, fileList, dialog, promised, timers, timer, lost>>

\* A tap on the list; the video activity also ends what it plays.
backPosition(i) ==
  /\ screen = "list" /\ ~dialog /\ i < Len(fileList) /\ Len(compress) < MaxPending
  /\ selectIndex' = i
  /\ timers' = timers \ {timer} /\ videoView' = "gone"
  /\ Show(Selected(fileList, i))
  /\ UNCHANGED <<kind, files, screen, fileList, dialog, promised, timer, lost>>

\* A long press on the imageView, which is gone while the videoView is seen.
LongClick ==
  /\ screen = "list" /\ ~dialog /\ videoView = "gone"
  /\ dialog' = TRUE
  /\ promised' = IF compress = <<>> THEN imageView ELSE 0
  /\ UNCHANGED <<kind, files, list, shown, video>>

btnRemoveCancel ==
  /\ dialog /\ screen = "list"
  /\ dialog' = FALSE /\ promised' = 0
  /\ UNCHANGED <<kind, files, list, shown, video>>

\* Fault: the index stays where it was when the last file of the list goes.
btnRemoveSure_KeepsIndex ==
  /\ dialog /\ screen = "list"
  /\ dialog' = FALSE /\ promised' = 0
  /\ disk' \in {disk, disk \ {Selected(fileList, selectIndex)}}
  /\ fileList' = RemoveAt(fileList, selectIndex + 1)
  /\ IF selectIndex = 0 /\ Len(fileList) = 1
     THEN screen' = "empty" /\ UNCHANGED <<selectIndex, shown>>
     ELSE /\ IF selectIndex < Len(fileList')
             THEN screen' = "list" /\ Show(Selected(fileList', selectIndex))
             ELSE screen' = "crashed" /\ UNCHANGED shown
          /\ UNCHANGED selectIndex
  /\ UNCHANGED <<kind, made, trimmed, video>>

\* The file at the index goes from the list and, unless delete() answers false, from
\* the disk; if it was not the first, the one before it is selected, and what is
\* selected is shown.
btnRemoveSure ==
  /\ dialog /\ screen = "list"
  /\ dialog' = FALSE /\ promised' = 0
  /\ disk' \in {disk, disk \ {Selected(fileList, selectIndex)}}
  /\ fileList' = RemoveAt(fileList, selectIndex + 1)
  /\ \/ /\ selectIndex = 0 /\ Len(fileList) = 1
        /\ screen' = "empty" /\ UNCHANGED <<selectIndex, shown>>
     \/ /\ selectIndex = 0 /\ Len(fileList) > 1
        /\ Show(Selected(fileList', 0)) /\ UNCHANGED <<screen, selectIndex>>
     \/ /\ selectIndex > 0 /\ selectIndex < Len(fileList)
        /\ selectIndex' = selectIndex - 1
        /\ Show(Selected(fileList', selectIndex - 1)) /\ UNCHANGED screen
  /\ UNCHANGED <<kind, made, trimmed, video>>

\* The oldest picture on the executor is done.  A file that went after it was
\* compressed is shown still; one that cannot be decoded leaves an empty view.
onSuccess ==
  /\ compress # <<>>
  /\ compress' = Tail(compress)
  /\ imageView' \in {0, Head(compress)} /\ missed' = FALSE
  /\ UNCHANGED <<kind, files, list, dialog, promised, video>>

\* Compressing it threw, whether or not its file is there: the view keeps what it
\* shows.
onCompressError ==
  /\ compress # <<>>
  /\ compress' = Tail(compress)
  /\ missed' = TRUE
  /\ UNCHANGED <<kind, files, list, imageView, dialog, promised, video>>

-----------------------------------------------------------------------------
(* The video *)

\* ivStart stays where it was while a video plays, so it can be pressed again; the
\* field then has the new countdown alone.
ivStart ==
  /\ kind = "video" /\ screen = "list" /\ ~dialog
  /\ videoView' = IF videoView = "failed" THEN "failed" ELSE "plays"
  /\ \E t \in 1..MaxTimers : t \notin timers /\ timer' = t /\ timers' = timers \cup {t}
  /\ lost' = timers
  /\ UNCHANGED <<kind, files, list, shown, dialog, promised>>

onCompletion ==
  /\ videoView = "plays" /\ screen = "list"
  /\ videoView' = "gone" /\ timers' = timers \ {timer}
  /\ UNCHANGED <<kind, files, list, shown, dialog, promised, timer, lost>>

\* A file that cannot be played: the listener answers true, and onCompletion, which
\* would have hidden the videoView and cancelled the countdown, is not called.
onError ==
  /\ videoView = "plays" /\ screen = "list"
  /\ videoView' = "failed"
  /\ UNCHANGED <<kind, files, list, shown, dialog, promised, timers, timer, lost>>

Next ==
  \/ Save \/ (\E f \in disk : Trim(f))
  \/ Open \/ Back \/ Refresh \/ (\E i \in 0..MaxFiles : backPosition(i))
  \/ LongClick \/ btnRemoveCancel \/ btnRemoveSure \/ onSuccess \/ onCompressError
  \/ ivStart \/ onCompletion \/ onError

Spec == Init /\ [][Next]_vars

-----------------------------------------------------------------------------
(* Properties *)

TypeOK ==
  /\ kind \in {"picture", "video"}
  /\ disk \subseteq 1..made /\ made \in 0..MaxFiles
  /\ screen \in {"list", "empty", "closed", "crashed"}
  /\ fileList \in Seq(1..made) /\ selectIndex \in 0..MaxFiles
  /\ imageView \in 0..made /\ compress \in Seq(1..made)
  /\ timers \subseteq 1..MaxTimers /\ lost \subseteq 1..MaxTimers /\ timer \in 0..MaxTimers
  /\ videoView \in {"gone", "plays", "failed"}
  /\ dialog \in BOOLEAN /\ missed \in BOOLEAN /\ trimmed \in BOOLEAN
  /\ promised \in 0..made

\* The list is indexed inside its bounds through every order of selecting,
\* removing, saving and refreshing; only files that the system has taken from the
\* cache can bring it out of them (ImageListActivity.kt:64-98, 135).
CrashNeedsTrim ==
  /\ screen = "list" => selectIndex < Len(fileList)
  /\ screen = "crashed" => trimmed

\* What the user sees when the dialog opens is what goes from the list, and nothing
\* else goes from the disk, through files that are saved, taken and not deleted,
\* unless a picture was still on its way to the view or did not get there, or a
\* refresh came while the dialog was open (ImageListActivity.kt:90, 154-162: the
\* selection moves at once, the view when the compression is done, if it succeeds).
RemovesWhatIsSeen ==
  [][btnRemoveSure /\ promised # 0 /\ ~missed
       => disk \ disk' \subseteq {promised} /\ promised \notin Range(fileList')]_vars

\* While the videoView is gone no countdown runs but those that a second press of
\* play or leaving the activity took out of the field, through videos that end, fail
\* and are played anew by a refresh (VideoListActivity.kt:33, 115-131, 157).
CountdownStops == videoView = "gone" => timers \subseteq lost
=============================================================================
