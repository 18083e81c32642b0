------------------------------ MODULE UsbAttach ------------------------------
(***************************************************************************)
(* util/usb/UsbSerialInit.java: how a USB camera is noticed, asked for,    *)
(* opened and dropped.  Everything here runs on the main thread, but in    *)
(* pieces between which anything may happen: the monitor of the vendor's   *)
(* library (external) counts the cameras on a timer, the user answers a    *)
(* dialog, and broadcasts come when they come.                             *)
(*                                                                         *)
(* A plug-in of a camera has a number of its own, as Android gives it a    *)
(* device name of its own.  A UsbDevice object is [plug, copy]: equals     *)
(* compares the plug, the app's == the copy as well.  One request leads to *)
(* one onConnect, whose object has the request's number for its copy; the  *)
(* object inside a broadcast of a detachment is a fresh one, copy 0.       *)
(***************************************************************************)
EXTENDS Integers, Sequences, FiniteSets

CONSTANTS MaxPlugs,     \* bound: times that a camera is plugged in
          MaxOthers     \* bound: times that some other USB device is detached

ASSUME UsbAssumption == MaxPlugs \in Nat /\ MaxOthers \in Nat

Plugs == 1..MaxPlugs
Device(p, k) == [plug |-> p, copy |-> k]
null == Device(0, 0)
OtherDevice == Device(-1, 0)

VARIABLES
  plugged,      \* the cameras that are plugged in now
  plugs,        \* cameras plugged in so far
  others,       \* other devices detached so far
  dialogs,      \* permission dialogs that wait for the user
  permitted,    \* cameras the user has granted the app
  broadcasts,   \* intents under way to the monitor's receiver
  posted,       \* what the monitor has posted to the main looper
  mDeviceCounts,    \* the monitor's: cameras it believes it has reported
  mCtrlBlocks,  \* the monitor's open cameras
  mUSBMonitor,  \* the field is not null: the monitor is registered
  mUsbDevice,   \* the field
  driver,       \* the camera the serial connection has open, 0 for none
  connect,      \* its flag
  readers,      \* its read threads that run
  renderers,    \* startPlayback calls since the last stopPlayback
  asked,        \* history: requests made for each camera
  overlapped,   \* history: cameras asked for while a request was under way
  refused       \* history: cameras that were denied or would not open

outside == <<plugged, plugs, others>>
monitor == <<mDeviceCounts, mCtrlBlocks>>
video   == <<mUsbDevice, driver, connect, readers, renderers>>
history == <<asked, overlapped, refused>>
vars    == <<outside, dialogs, permitted, broadcasts, posted, monitor, mUSBMonitor,
             video, history>>

\* The end of init(): the monitor is registered, everything else is new.
Init ==
  /\ plugged \in SUBSET Plugs /\ plugs = Cardinality(plugged) /\ plugged = 1..plugs
  /\ others = 0
  /\ dialogs = {} /\ permitted = {} /\ broadcasts = {} /\ posted = <<>>
  /\ mDeviceCounts = 0 /\ mCtrlBlocks = {} /\ mUSBMonitor = TRUE
  /\ mUsbDevice = null /\ driver = 0 /\ connect = FALSE /\ readers = 0 /\ renderers = 0
  /\ asked = [p \in Plugs |-> 0] /\ overlapped = {} /\ refused = {}

deviceIsUartVideoDevice(d) == d.plug \in Plugs
deviceHasConnected(d) == d # null /\ d = mUsbDevice

Permission(d, yes) == [action |-> "permission", device |-> d, granted |-> yes]
Detached(d) == [action |-> "detached", device |-> d, granted |-> FALSE]

-----------------------------------------------------------------------------
(* The world outside *)

PlugIn ==
  /\ plugs < MaxPlugs
  /\ plugs' = plugs + 1 /\ plugged' = plugged \cup {plugs + 1}
  /\ UNCHANGED <<others, dialogs, permitted, broadcasts, posted, monitor, mUSBMonitor, video, history>>

\* Pulled out, a camera takes its dialogs with it, which counts as a denial.
Unplug(p) ==
  /\ p \in plugged
  /\ plugged' = plugged \ {p}
  /\ LET open == {d \in dialogs : d.plug = p}
     IN /\ dialogs' = dialogs \ open
        /\ broadcasts' = broadcasts \cup {Detached(Device(p, 0))}
                                    \cup {Permission(d, FALSE) : d \in open}
  /\ UNCHANGED <<plugs, others, permitted, posted, monitor, mUSBMonitor, video, history>>

OtherDetached ==
  /\ others < MaxOthers
  /\ others' = others + 1
  /\ Detached(OtherDevice) \notin broadcasts
  /\ broadcasts' = broadcasts \cup {Detached(OtherDevice)}
  /\ UNCHANGED <<plugged, plugs, dialogs, permitted, posted, monitor, mUSBMonitor, video, history>>

\* The user answers a dialog.
AnswerDialog(d, yes) ==
  /\ d \in dialogs
  /\ dialogs' = dialogs \ {d}
  /\ broadcasts' = broadcasts \cup {Permission(d, yes)}
  /\ permitted' = IF yes THEN permitted \cup {d.plug} ELSE permitted
  /\ refused' = IF yes THEN refused ELSE refused \cup {d.plug}
  /\ UNCHANGED <<outside, posted, monitor, mUSBMonitor, video, asked, overlapped>>

\* A read thread looks at the flag, or its read of a camera that is gone throws.
ReaderEnds ==
  /\ readers > 0
  /\ ~connect \/ driver \notin plugged
  /\ readers' = readers - 1 /\ connect' = FALSE
  /\ UNCHANGED <<outside, dialogs, permitted, broadcasts, posted, monitor, mUSBMonitor,
                 mUsbDevice, driver, renderers, history>>

-----------------------------------------------------------------------------
(* The app, and the monitor that calls it *)

\* requestPermission: a dialog, or with the permission there onConnect at once.
requestPermission(d) ==
  /\ IF d.plug \in permitted
     THEN posted' = Append(posted, [run |-> "connect", device |-> d]) /\ UNCHANGED dialogs
     ELSE dialogs' = dialogs \cup {d} /\ UNCHANGED posted
  /\ asked' = [asked EXCEPT ![d.plug] = d.copy]

\* A request for camera p that has not come to its onConnect or onCancel yet.
UnderWay(p) == \/ \E d \in dialogs : d.plug = p
               \/ \E b \in broadcasts : b.action = "permission" /\ b.device.plug = p
               \/ \E k \in DOMAIN posted : posted[k].run = "connect" /\ posted[k].device.plug = p

\* What onAttach asks for: the camera it is given or, given none, the one there is.
Requested(d) ==
  IF d # null THEN {d}
  ELSE IF Cardinality(plugged) = 1 THEN {Device(p, asked[p] + 1) : p \in plugged} ELSE {}

RequestOf(d) ==
  IF Requested(d) = {} THEN UNCHANGED <<dialogs, posted, asked, overlapped>>
  ELSE \E e \in Requested(d) :
         /\ requestPermission(e)
         /\ overlapped' = IF UnderWay(e.plug) THEN overlapped \cup {e.plug} ELSE overlapped

\* Fault: onAttach asks although a camera is connected.
onAttach_Always(d) == RequestOf(d)

\* onAttach, unless a camera is connected.
onAttach(d) ==
  IF deviceHasConnected(d) \/ mUsbDevice # null
  THEN UNCHANGED <<dialogs, posted, asked, overlapped>> ELSE RequestOf(d)

\* The monitor's timer: more cameras than it has reported.  It is the only caller of
\* onAttach and gives it null: in libs/fpvlibrary-v1.4.aar the receiver would give it
\* the camera of an ATTACHED intent, but register() filters for the permission's
\* action and DETACHED alone.
Check ==
  /\ mUSBMonitor
  /\ Cardinality(plugged) > mDeviceCounts
  /\ mDeviceCounts' = Cardinality(plugged)
  /\ onAttach(null)
  /\ UNCHANGED <<outside, permitted, broadcasts, mCtrlBlocks, mUSBMonitor, video, refused>>

\* disconnected(): connection, playback and monitor go; the callbacks that the
\* monitor's destroy() makes find mUsbDevice null.
disconnected ==
  /\ driver' = 0 /\ connect' = FALSE
  /\ renderers' = 0
  /\ mUsbDevice' = null
  /\ mUSBMonitor' = FALSE /\ mCtrlBlocks' = {} /\ mDeviceCounts' = 0
  /\ UNCHANGED readers

\* onDisconnect and onDettach: the camera that is connected.
onDisconnect(d) == deviceIsUartVideoDevice(d) /\ deviceHasConnected(d)

\* The receiver, as long as it is registered: a yes is posted as an onConnect.
ReceivePermission(b) ==
  /\ b \in broadcasts /\ b.action = "permission"
  /\ broadcasts' = broadcasts \ {b}
  /\ posted' = IF mUSBMonitor /\ b.granted
               THEN Append(posted, [run |-> "connect", device |-> b.device]) ELSE posted
  /\ UNCHANGED <<outside, dialogs, permitted, monitor, mUSBMonitor, video, history>>

\* Fault: the count is not reset.
ReceiveDetached_NoReset(b) ==
  /\ b \in broadcasts /\ b.action = "detached"
  /\ broadcasts' = broadcasts \ {b}
  /\ IF ~mUSBMonitor THEN UNCHANGED <<posted, monitor, mUSBMonitor, video>>
     ELSE LET closed == {c \in mCtrlBlocks : c.plug = b.device.plug}
          IN /\ IF \E c \in closed : onDisconnect(c) THEN disconnected
                ELSE /\ mCtrlBlocks' = mCtrlBlocks \ closed
                     /\ UNCHANGED <<mDeviceCounts, mUSBMonitor, video>>
             /\ posted' = Append(posted, [run |-> "dettach", device |-> b.device])
  /\ UNCHANGED <<outside, dialogs, permitted, history>>

\* Something was detached: the camera of that name is closed, which calls
\* onDisconnect at once with the object it was opened with; whatever it was, the
\* count starts anew; onDettach is posted.
ReceiveDetached(b) ==
  /\ b \in broadcasts /\ b.action = "detached"
  /\ broadcasts' = broadcasts \ {b}
  /\ IF ~mUSBMonitor THEN UNCHANGED <<posted, monitor, mUSBMonitor, video>>
     ELSE LET closed == {c \in mCtrlBlocks : c.plug = b.device.plug}
          IN /\ IF \E c \in closed : onDisconnect(c) THEN disconnected
                ELSE /\ mCtrlBlocks' = mCtrlBlocks \ closed /\ mDeviceCounts' = 0
                     /\ UNCHANGED <<mUSBMonitor, video>>
             /\ posted' = Append(posted, [run |-> "dettach", device |-> b.device])
  /\ UNCHANGED <<outside, dialogs, permitted, history>>

\* openConnection, for a camera that is there: a driver and a read thread more.
openConnection(d) == driver' = d.plug /\ connect' = TRUE /\ readers' = readers + 1

\* Fault: playback is started before the camera is opened.
Connect_PlaysFirst(d) ==
  /\ renderers' = renderers + 1
  /\ \/ /\ d.plug \in plugged
        /\ openConnection(d) /\ mUsbDevice' = d
        /\ UNCHANGED refused
     \/ /\ refused' = refused \cup {d.plug}
        /\ UNCHANGED <<mUsbDevice, driver, connect, readers>>

\* Fault: the device is remembered before it is opened.
Connect_RemembersFirst(d) ==
  /\ mUsbDevice' = d
  /\ \/ /\ d.plug \in plugged
        /\ openConnection(d) /\ renderers' = renderers + 1
        /\ UNCHANGED refused
     \/ /\ refused' = refused \cup {d.plug}
        /\ UNCHANGED <<driver, connect, readers, renderers>>

\* The body of onConnect for a camera that is not the connected one: opened,
\* remembered and played; if opening throws, nothing of it.
Connect(d) ==
  \/ /\ d.plug \in plugged
     /\ openConnection(d) /\ mUsbDevice' = d /\ renderers' = renderers + 1
     /\ UNCHANGED refused
  \/ /\ refused' = refused \cup {d.plug}
     /\ UNCHANGED video

\* The posted onConnect: the monitor opens the camera unless it has it open, by
\* name; nothing asks whether the monitor is still registered.
onConnect ==
  /\ posted # <<>> /\ Head(posted).run = "connect"
  /\ posted' = Tail(posted)
  /\ LET d == Head(posted).device
     IN /\ mCtrlBlocks' = IF \E c \in mCtrlBlocks : c.plug = d.plug
                          THEN mCtrlBlocks ELSE mCtrlBlocks \cup {d}
        /\ IF deviceIsUartVideoDevice(d) /\ ~deviceHasConnected(d)
           THEN Connect(d) ELSE UNCHANGED <<video, refused>>
  /\ UNCHANGED <<outside, dialogs, permitted, broadcasts, mDeviceCounts, mUSBMonitor, asked, overlapped>>

\* The posted onDettach.
onDettach ==
  /\ posted # <<>> /\ Head(posted).run = "dettach"
  /\ posted' = Tail(posted)
  /\ IF onDisconnect(Head(posted).device) THEN disconnected
     ELSE UNCHANGED <<monitor, mUSBMonitor, video>>
  /\ UNCHANGED <<outside, dialogs, permitted, broadcasts, history>>

Receive == \E b \in broadcasts : ReceivePermission(b) \/ ReceiveDetached(b)
Looper == Check \/ onConnect \/ onDettach \/ Receive

Next ==
  \/ PlugIn \/ (\E p \in plugged : Unplug(p)) \/ OtherDetached
  \/ \E d \in dialogs, yes \in BOOLEAN : AnswerDialog(d, yes)
  \/ ReaderEnds
  \/ Looper

\* The main looper runs what is posted and what is due, broadcasts arrive, threads
\* run and a user answers a dialog in the end.  Nothing need be plugged in or out.
Fairness ==
  /\ WF_vars(Check) /\ WF_vars(onConnect) /\ WF_vars(onDettach) /\ WF_vars(Receive)
  /\ WF_vars(ReaderEnds)
  /\ WF_vars(\E d \in dialogs, yes \in BOOLEAN : AnswerDialog(d, yes))

Spec == Init /\ [][Next]_vars /\ Fairness

-----------------------------------------------------------------------------
(* Properties *)

\* The variables have their types; the monitor has a camera open once.
TypeOK ==
  /\ plugged \subseteq Plugs /\ plugs \in 0..MaxPlugs /\ others \in 0..MaxOthers
  /\ mUsbDevice = null \/ mUsbDevice.plug \in Plugs
  /\ driver \in 0..MaxPlugs /\ connect \in BOOLEAN /\ readers \in Nat /\ renderers \in Nat
  /\ mDeviceCounts \in 0..MaxPlugs
  /\ \A c, e \in mCtrlBlocks : c.plug = e.plug => c = e
  /\ \A k \in DOMAIN posted : posted[k].run \in {"connect", "dettach"}

\* After disconnected() nothing plays and nothing is connected, and nothing will:
\* an onConnect that was posted before it finds its camera gone
\* (UsbSerialInit.java:149-169, 193-211: onConnect does not ask whether the
\* monitor is still there).
StopsForGood == ~mUSBMonitor => mUsbDevice = null /\ renderers = 0 /\ ~connect

\* A second read thread or renderer appears only for a camera that was asked for
\* a second time while the first request was still under way
\* (UsbSerialInit.java:112, 153: the two guards compare objects, not cameras).
OneConnection == /\ renderers > 1 => mUsbDevice.plug \in overlapped
                 /\ readers > 1 => overlapped # {}

\* Once the broadcasts and the looper are empty, a camera that was asked for only
\* once is not connected any more when it has been pulled out
\* (UsbSerialInit.java:174-182: onDisconnect has to be given the very object that
\* onConnect was).
UnplugIsNoticed ==
  broadcasts = {} /\ posted = <<>> /\ mUsbDevice # null /\ asked[mUsbDevice.plug] = 1
    => mUsbDevice.plug \in plugged

\* While no camera was asked for twice: one that stays plugged in alone, that is
\* not denied and opens, is connected in the end, unless the monitor was dropped
\* with an earlier camera (UsbSerialInit.java:110-131, 206-210).
LoneCameraPlays ==
  \A p \in Plugs :
    <>[](plugged = {p} /\ mUSBMonitor /\ p \notin refused /\ \A q \in Plugs : asked[q] <= 1)
      => <>(mUsbDevice.plug = p)
=============================================================================
