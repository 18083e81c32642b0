---------------------------- MODULE UsbAttachProofs ----------------------------
(***************************************************************************)
(* Theorems about UsbAttach for any number of cameras and other devices.   *)
(* What disconnected() stops stays stopped: onConnect does not ask whether *)
(* the monitor is still there, but a camera is only asked for when it is   *)
(* alone and nothing is connected, so that every request posted before the *)
(* end is for a camera that is gone (IInv).  A second connection takes a   *)
(* second request for the same camera while the first is under way, and a  *)
(* camera asked for once is recognised when it is pulled out (ConnInv).    *)
(***************************************************************************)
EXTENDS UsbAttach, FiniteSetTheorems, TLAPS

-----------------------------------------------------------------------------
(* The inductive invariant *)

Devices == [plug : Int, copy : Nat]
Posts   == [run : {"connect", "dettach"}, device : Devices]

\* A camera that was asked for, and a device that is not there any more.
Wanted(p) == p \in Plugs /\ asked[p] > 0
Gone(p)   == p \notin plugged /\ (p \in Plugs => p <= plugs)

\* Cameras are numbered as they come, and none is asked for before it comes.
PlugInv ==
  /\ plugs \in Nat /\ plugged \subseteq Plugs
  /\ asked \in [Plugs -> Nat]
  /\ \A p \in Plugs : p \in plugged \/ asked[p] > 0 => p <= plugs

\* What is under way is about a camera that was asked for or is gone.
MessageInv ==
  /\ \A d \in dialogs : d \in Devices /\ Wanted(d.plug)
  /\ \A b \in broadcasts :
       /\ b.device \in Devices
       /\ b.action = "permission" => Wanted(b.device.plug)
       /\ b.action = "detached" => Gone(b.device.plug)

PostedInv ==
  /\ posted \in Seq(Posts)
  /\ \A k \in DOMAIN posted :
       /\ posted[k].run = "connect" => Wanted(posted[k].device.plug)
       /\ posted[k].run = "dettach" => Gone(posted[k].device.plug)

\* Of the cameras that are there one at most was asked for; it is the connected
\* one if there is one; there is none without the monitor.
RequestInv ==
  /\ \A p, q \in plugged : asked[p] > 0 /\ asked[q] > 0 => p = q
  /\ mUsbDevice # null => \A q \in plugged : asked[q] > 0 => q = mUsbDevice.plug
  /\ ~mUSBMonitor => \A q \in plugged : ~(asked[q] > 0)

IInv == PlugInv /\ MessageInv /\ PostedInv /\ RequestInv /\ StopsForGood

-----------------------------------------------------------------------------
(* Lemmas *)

LEMMA InitIInv == Init => IInv
<1> SUFFICES ASSUME Init PROVE IInv
  OBVIOUS
<1>1. plugs \in Nat /\ plugged \subseteq Plugs /\ plugged = 1..plugs
  <2>1. IsFiniteSet(Plugs) /\ plugged \subseteq Plugs
    <3>1. MaxPlugs \in Nat
      BY UsbAssumption
    <3> QED BY <3>1, FS_Interval DEF Init, Plugs
  <2>2. IsFiniteSet(plugged)
    BY <2>1, FS_Subset
  <2> QED BY <2>1, <2>2, FS_CardinalityType DEF Init
<1>2. PlugInv
  <2>1. \A p \in Plugs : asked[p] = 0
    BY DEF Init
  <2>2. asked \in [Plugs -> Nat]
    BY DEF Init
  <2> QED BY <1>1, <2>1, <2>2 DEF PlugInv
<1>3. MessageInv /\ PostedInv
  BY DEF Init, MessageInv, PostedInv
<1>4. RequestInv
  BY <1>1 DEF Init, RequestInv
<1>5. StopsForGood
  BY DEF Init, StopsForGood
<1> QED BY <1>2, <1>3, <1>4, <1>5 DEF IInv

\* Given no device, onAttach asks for nothing, or for the only camera there is.
LEMMA AsksAlone ==
  ASSUME onAttach(null)
  PROVE  \/ UNCHANGED <<dialogs, posted, asked, overlapped>>
         \/ /\ mUsbDevice = null /\ Cardinality(plugged) = 1
            /\ \E p \in plugged :
                 /\ requestPermission(Device(p, asked[p] + 1))
                 /\ overlapped' = IF UnderWay(p) THEN overlapped \cup {p} ELSE overlapped
<1>1. \A p : Device(p, asked[p] + 1).plug = p
  BY DEF Device
<1>2. Requested(null) = IF Cardinality(plugged) = 1 THEN {Device(p, asked[p] + 1) : p \in plugged}
                        ELSE {}
  BY DEF Requested
<1>3. CASE deviceHasConnected(null) \/ mUsbDevice # null
  BY <1>3 DEF onAttach
<1>4. CASE Requested(null) = {}
  BY <1>4 DEF onAttach, RequestOf
<1>5. CASE mUsbDevice = null /\ Requested(null) # {} /\ RequestOf(null)
  <2>1. PICK e \in Requested(null) :
             /\ requestPermission(e)
             /\ overlapped' = IF UnderWay(e.plug) THEN overlapped \cup {e.plug} ELSE overlapped
    BY <1>5 DEF RequestOf
  <2>2. Cardinality(plugged) = 1 /\ \E p \in plugged : e = Device(p, asked[p] + 1)
    BY <1>2, <2>1
  <2> QED BY <1>1, <1>5, <2>1, <2>2
<1> QED BY <1>3, <1>4, <1>5 DEF onAttach

\* Nothing that is said of a device under way depends on more than these.
LEMMA PostedStays ==
  ASSUME PostedInv, UNCHANGED <<posted, plugged, plugs, asked>>
  PROVE  PostedInv'
BY DEF PostedInv, Wanted, Gone

LEMMA MessagesStay ==
  ASSUME MessageInv, UNCHANGED <<plugged, plugs, asked>>,
         dialogs' \subseteq dialogs, broadcasts' \subseteq broadcasts
  PROVE  MessageInv'
BY DEF MessageInv, Wanted, Gone

\* One more call on the looper.
LEMMA PostedGrows ==
  ASSUME PostedInv, UNCHANGED <<plugged, plugs, asked>>,
         NEW x \in Posts, posted' = Append(posted, x),
         x.run = "connect" => Wanted(x.device.plug),
         x.run = "dettach" => Gone(x.device.plug)
  PROVE  PostedInv'
<1>1. /\ posted' \in Seq(Posts)
      /\ \A k \in DOMAIN posted' : (k \in DOMAIN posted /\ posted'[k] = posted[k]) \/ posted'[k] = x
  BY DEF PostedInv
<1> QED BY <1>1 DEF PostedInv, Wanted, Gone

\* One less.
LEMMA PostedShrinks ==
  ASSUME PostedInv, UNCHANGED <<plugged, plugs, asked>>,
         posted # <<>>, posted' = Tail(posted)
  PROVE  /\ PostedInv'
         /\ Head(posted) \in Posts
         /\ Head(posted).run = "connect" => Wanted(Head(posted).device.plug)
         /\ Head(posted).run = "dettach" => Gone(Head(posted).device.plug)
<1>1. /\ posted' \in Seq(Posts)
      /\ \A k \in DOMAIN posted' : \E i \in DOMAIN posted : posted'[k] = posted[i]
      /\ 1 \in DOMAIN posted /\ Head(posted) = posted[1] /\ Head(posted) \in Posts
  <2>1. posted \in Seq(Posts) /\ Len(posted) \in Nat /\ DOMAIN posted = 1..Len(posted)
    BY DEF PostedInv
  <2>2. /\ Tail(posted) \in Seq(Posts)
        /\ DOMAIN Tail(posted) = 1..(Len(posted) - 1)
        /\ \A k \in 1..(Len(posted) - 1) : Tail(posted)[k] = posted[k + 1]
    BY <2>1
  <2>3. \A k \in 1..(Len(posted) - 1) : k + 1 \in DOMAIN posted
    BY <2>1
  <2>4. 1 \in DOMAIN posted /\ Head(posted) = posted[1] /\ Head(posted) \in Posts
    BY <2>1
  <2> QED BY <2>2, <2>3, <2>4
<1> QED BY <1>1 DEF PostedInv, Wanted, Gone

\* disconnected() for a camera that is gone: no camera that is there was asked for.
LEMMA GoneDisconnected ==
  ASSUME RequestInv, mUsbDevice # null, Gone(mUsbDevice.plug), disconnected,
         UNCHANGED <<plugged, asked>>
  PROVE  RequestInv' /\ StopsForGood'
<1>1. \A q \in plugged : ~(asked[q] > 0)
  BY DEF RequestInv, Gone
<1>2. mUsbDevice' = null /\ renderers' = 0 /\ connect' = FALSE
  BY DEF disconnected
<1> QED BY <1>1, <1>2 DEF RequestInv, StopsForGood

-----------------------------------------------------------------------------
LEMMA NextIInv == IInv /\ [Next]_vars => IInv'
<1> SUFFICES ASSUME IInv, [Next]_vars PROVE IInv'
  OBVIOUS
<1>i. PlugInv /\ MessageInv /\ PostedInv /\ RequestInv /\ StopsForGood
  BY DEF IInv
\* The steps that leave what the app has connected alone.
<1>r. ASSUME UNCHANGED <<plugged, asked, mUsbDevice, mUSBMonitor>>
      PROVE  RequestInv'
  BY <1>i, <1>r DEF RequestInv
<1>s. ASSUME UNCHANGED <<mUSBMonitor, mUsbDevice, renderers, connect>>
      PROVE  StopsForGood'
  BY <1>i, <1>s DEF StopsForGood
<1>p. ASSUME UNCHANGED <<plugged, plugs, asked>>
      PROVE  PlugInv'
  BY <1>i, <1>p DEF PlugInv
\* A new camera has a number of its own.
<1>1. CASE PlugIn
  <2>1. /\ plugs < MaxPlugs /\ plugs' = plugs + 1 /\ plugged' = plugged \cup {plugs + 1}
        /\ UNCHANGED <<asked, dialogs, broadcasts, posted, mUsbDevice, mUSBMonitor, renderers, connect>>
    BY <1>1 DEF PlugIn, history, video
  <2>2. plugs + 1 \in Plugs /\ ~(asked[plugs + 1] > 0) /\ plugs + 1 \notin plugged
    BY <1>i, <2>1, UsbAssumption DEF PlugInv, Plugs
  <2>3. PlugInv'
    BY <1>i, <2>1, <2>2 DEF PlugInv, Plugs
  <2>4. \A p : Gone(p) => Gone(p)'
    <3> SUFFICES ASSUME NEW p, Gone(p) PROVE Gone(p)'
      OBVIOUS
    <3>1. p # plugs + 1
      <4>1. CASE p \in Plugs
        BY <1>i, <4>1 DEF Gone, Plugs, PlugInv
      <4>2. CASE p \notin Plugs
        BY <2>2, <4>2
      <4> QED BY <4>1, <4>2
    <3> QED BY <1>i, <2>1, <3>1 DEF Gone, Plugs, PlugInv
  <2>5. \A p : Wanted(p)' <=> Wanted(p)
    BY <2>1 DEF Wanted
  <2>6. MessageInv' /\ PostedInv'
    BY <1>i, <2>1, <2>4, <2>5 DEF MessageInv, PostedInv
  <2>7. RequestInv'
    BY <1>i, <2>1, <2>2 DEF RequestInv
  <2> QED BY <1>s, <2>1, <2>3, <2>6, <2>7 DEF IInv
<1>2. ASSUME NEW p \in plugged, Unplug(p) PROVE IInv'
  <2> DEFINE open == {d \in dialogs : d.plug = p}
             new == {Detached(Device(p, 0))} \cup {Permission(d, FALSE) : d \in open}
  <2>1. /\ plugged' = plugged \ {p} /\ dialogs' = dialogs \ open
        /\ broadcasts' = broadcasts \cup new
        /\ UNCHANGED <<plugs, asked, posted, mUsbDevice, mUSBMonitor, renderers, connect>>
    BY <1>2 DEF Unplug, history, video
  <2>2. PlugInv'
    BY <1>i, <2>1 DEF PlugInv
  <2>3. \A q : (Gone(q) => Gone(q)') /\ (Wanted(q)' <=> Wanted(q))
    BY <2>1 DEF Gone, Wanted
  <2>4. Gone(p)' /\ p \in Int
    BY <1>i, <2>1 DEF Gone, PlugInv, Plugs
  <2>5. \A b \in new :
          /\ b.device \in Devices
          /\ b.action = "permission" => Wanted(b.device.plug)
          /\ b.action = "detached" => Gone(b.device.plug)'
    <3>1. ASSUME NEW d \in open
          PROVE  /\ Permission(d, FALSE).device = d /\ Permission(d, FALSE).action = "permission"
                 /\ d \in Devices /\ Wanted(d.plug)
      BY <1>i DEF MessageInv, Permission
    <3>2. /\ Detached(Device(p, 0)).device \in Devices
          /\ Detached(Device(p, 0)).device.plug = p
          /\ Detached(Device(p, 0)).action = "detached"
      BY <2>4 DEF Detached, Device, Devices
    <3> HIDE DEF open
    <3> QED BY <2>4, <3>1, <3>2
  <2> HIDE DEF new, open
  <2>6. MessageInv'
    BY <1>i, <2>1, <2>3, <2>5 DEF MessageInv
  <2>7. PostedInv'
    BY <1>i, <2>1, <2>3 DEF PostedInv
  <2>8. RequestInv'
    BY <1>i, <2>1 DEF RequestInv
  <2> QED BY <1>s, <2>1, <2>2, <2>6, <2>7, <2>8 DEF IInv
<1>3. CASE OtherDetached
  <2>1. /\ broadcasts' = broadcasts \cup {Detached(OtherDevice)}
        /\ UNCHANGED <<plugged, plugs, asked, dialogs, posted, mUsbDevice, mUSBMonitor,
                       renderers, connect>>
    BY <1>3 DEF OtherDetached, history, video
  <2>2. /\ Detached(OtherDevice).action = "detached"
        /\ Detached(OtherDevice).device \in Devices
        /\ Detached(OtherDevice).device.plug = -1
    BY DEF Detached, OtherDevice, Device, Devices
  <2>3. Gone(-1)
    BY <1>i DEF Gone, Plugs, PlugInv
  <2>4. MessageInv'
    BY <1>i, <2>1, <2>2, <2>3 DEF MessageInv, Wanted, Gone
  <2> QED BY <1>i, <1>p, <1>r, <1>s, <2>1, <2>4, PostedStays DEF IInv
<1>4. ASSUME NEW d \in dialogs, NEW yes \in BOOLEAN, AnswerDialog(d, yes) PROVE IInv'
  <2>1. /\ dialogs' = dialogs \ {d} /\ broadcasts' = broadcasts \cup {Permission(d, yes)}
        /\ UNCHANGED <<plugged, plugs, asked, posted, mUsbDevice, mUSBMonitor, renderers, connect>>
    BY <1>4 DEF AnswerDialog, outside, video
  <2>2. Permission(d, yes).action = "permission" /\ Permission(d, yes).device = d
    BY DEF Permission
  <2>3. MessageInv'
    BY <1>i, <2>1, <2>2 DEF MessageInv, Wanted, Gone
  <2> QED BY <1>i, <1>p, <1>r, <1>s, <2>1, <2>3, PostedStays DEF IInv
<1>5. CASE ReaderEnds
  <2>1. /\ connect' = FALSE
        /\ UNCHANGED <<plugged, plugs, asked, dialogs, broadcasts, posted, mUsbDevice,
                       mUSBMonitor, renderers>>
    BY <1>5 DEF ReaderEnds, outside, history
  <2>2. StopsForGood'
    BY <1>i, <2>1 DEF StopsForGood
  <2> QED BY <1>i, <1>p, <1>r, <2>1, <2>2, PostedStays, MessagesStay DEF IInv
\* A request is made for the only camera there is, with none connected.
<1>6. CASE Check
  <2>1. /\ mUSBMonitor /\ onAttach(null)
        /\ UNCHANGED <<plugged, plugs, broadcasts, mUsbDevice, mUSBMonitor, renderers, connect>>
    BY <1>6 DEF Check, outside, video
  <2>2. CASE UNCHANGED <<dialogs, posted, asked>>
    BY <1>i, <1>p, <1>r, <1>s, <2>1, <2>2, PostedStays, MessagesStay DEF IInv
  <2>3. CASE /\ mUsbDevice = null /\ Cardinality(plugged) = 1
             /\ \E p \in plugged : requestPermission(Device(p, asked[p] + 1))
    <3>1. PICK p \in plugged : requestPermission(Device(p, asked[p] + 1))
      BY <2>3
    <3>2. \A q \in plugged : q = p
      <4>1. IsFiniteSet(plugged)
        <5>1. MaxPlugs \in Nat
          BY UsbAssumption
        <5>2. IsFiniteSet(Plugs)
          BY <5>1, FS_Interval DEF Plugs
        <5> QED BY <1>i, <5>2, FS_Subset DEF PlugInv
      <4>2. PICK x : plugged = {x}
        BY <2>3, <4>1, FS_Singleton
      <4> QED BY <4>2
    <3> DEFINE d == Device(p, asked[p] + 1)
    <3>3. p \in Plugs /\ asked[p] \in Nat /\ p \in Int /\ p <= plugs
      BY <1>i DEF PlugInv, Plugs
    <3>4. d \in Devices /\ d.plug = p /\ d.copy = asked[p] + 1
      BY <3>3 DEF Device, Devices
    <3>5. /\ requestPermission(d)
          /\ d \in Devices /\ d.plug = p
      BY <3>1, <3>4
    <3>6. asked' = [asked EXCEPT ![p] = asked[p] + 1]
      BY <3>1, <3>4 DEF requestPermission
    <3> HIDE DEF d
    <3>7. \A q \in Plugs : asked'[q] = IF q = p THEN asked[p] + 1 ELSE asked[q]
      BY <1>i, <3>6 DEF PlugInv
    <3>8. /\ Wanted(p)'
          /\ \A q : Wanted(q) => Wanted(q)'
      <4>1. asked'[p] > 0
        BY <3>3, <3>7
      <4>2. ASSUME NEW q \in Plugs, asked[q] > 0 PROVE asked'[q] > 0
        BY <3>7, <4>1, <4>2
      <4> QED BY <3>3, <4>1, <4>2 DEF Wanted
    <3>9. \A q : Gone(q) => Gone(q)'
      BY <2>1 DEF Gone
    <3>10. PlugInv'
      BY <1>i, <2>1, <3>3, <3>6, <3>7 DEF PlugInv
    <3>11. RequestInv'
      BY <2>1, <2>3, <3>2 DEF RequestInv
    <3>12. CASE posted' = Append(posted, [run |-> "connect", device |-> d]) /\ UNCHANGED dialogs
      <4> DEFINE x == [run |-> "connect", device |-> d]
      <4>1. x \in Posts /\ x.run = "connect" /\ x.device.plug = p
        BY <3>5 DEF Posts
      <4>2. posted' = Append(posted, x) /\ posted \in Seq(Posts)
        BY <1>i, <3>12 DEF PostedInv
      <4> HIDE DEF x
      <4>3. /\ posted' \in Seq(Posts)
            /\ \A k \in DOMAIN posted' :
                 (k \in DOMAIN posted /\ posted'[k] = posted[k]) \/ posted'[k] = x
        BY <4>1, <4>2
      <4>4. PostedInv'
        BY <1>i, <3>8, <3>9, <4>1, <4>3 DEF PostedInv
      <4>5. MessageInv'
        BY <1>i, <2>1, <3>8, <3>9, <3>12 DEF MessageInv
      <4> QED BY <1>s, <2>1, <3>10, <3>11, <4>4, <4>5 DEF IInv
    <3>13. CASE dialogs' = dialogs \cup {d} /\ UNCHANGED posted
      <4>1. PostedInv'
        BY <1>i, <3>8, <3>9, <3>13 DEF PostedInv
      <4>2. MessageInv'
        BY <1>i, <2>1, <3>5, <3>8, <3>9, <3>13 DEF MessageInv
      <4> QED BY <1>s, <2>1, <3>10, <3>11, <4>1, <4>2 DEF IInv
    <3> QED BY <3>5, <3>12, <3>13 DEF requestPermission
  <2> QED BY <2>1, <2>2, <2>3, AsksAlone
\* A camera that is there and was asked for is the only such one.
<1>7. CASE onConnect
  <2> DEFINE d == Head(posted).device
  <2>1. /\ posted # <<>> /\ posted' = Tail(posted) /\ Head(posted).run = "connect"
        /\ UNCHANGED <<plugged, plugs, asked, dialogs, broadcasts, mUSBMonitor>>
        /\ Connect(d) \/ UNCHANGED video
    BY <1>7 DEF onConnect, outside
  <2>2. PostedInv' /\ Wanted(d.plug)
    BY <1>i, <2>1, PostedShrinks
  <2> HIDE DEF d
  <2>3. PlugInv' /\ MessageInv'
    BY <1>i, <1>p, <2>1, MessagesStay
  <2>4. CASE UNCHANGED video
    <3>1. UNCHANGED <<mUsbDevice, renderers, connect>>
      BY <2>4 DEF video
    <3> QED BY <1>r, <1>s, <2>1, <2>2, <2>3, <3>1 DEF IInv
  <2>5. CASE d.plug \in plugged /\ mUsbDevice' = d
    <3>1. mUSBMonitor
      BY <1>i, <2>2, <2>5 DEF RequestInv, Wanted
    <3>2. RequestInv'
      BY <1>i, <2>1, <2>2, <2>5, <3>1 DEF RequestInv, Wanted
    <3>3. StopsForGood'
      BY <2>1, <3>1 DEF StopsForGood
    <3> QED BY <2>2, <2>3, <3>2, <3>3 DEF IInv
  <2> QED BY <2>1, <2>4, <2>5 DEF Connect
<1>8. CASE onDettach
  <2> DEFINE d == Head(posted).device
  <2>1. /\ posted # <<>> /\ posted' = Tail(posted) /\ Head(posted).run = "dettach"
        /\ UNCHANGED <<plugged, plugs, asked, dialogs, broadcasts>>
        /\ \/ onDisconnect(d) /\ disconnected
           \/ UNCHANGED <<mUSBMonitor, video>>
    BY <1>8 DEF onDettach, outside, history
  <2>2. PostedInv' /\ Gone(d.plug)
    BY <1>i, <2>1, PostedShrinks
  <2> HIDE DEF d
  <2>3. PlugInv' /\ MessageInv'
    BY <1>i, <1>p, <2>1, MessagesStay
  <2>4. CASE onDisconnect(d) /\ disconnected
    <3>1. mUsbDevice # null /\ mUsbDevice = d
      BY <2>4 DEF onDisconnect, deviceHasConnected
    <3> QED BY <1>i, <2>1, <2>2, <2>3, <2>4, <3>1, GoneDisconnected DEF IInv
  <2>5. CASE UNCHANGED <<mUSBMonitor, video>>
    <3>1. UNCHANGED <<mUsbDevice, renderers, connect>>
      BY <2>5 DEF video
    <3> QED BY <1>r, <1>s, <2>1, <2>2, <2>3, <2>5, <3>1 DEF IInv
  <2> QED BY <2>1, <2>4, <2>5
<1>9. ASSUME NEW b \in broadcasts, ReceivePermission(b) PROVE IInv'
  <2>1. /\ b.action = "permission" /\ broadcasts' = broadcasts \ {b}
        /\ UNCHANGED <<plugged, plugs, asked, dialogs, mUsbDevice, mUSBMonitor, renderers, connect>>
        /\ \/ posted' = Append(posted, [run |-> "connect", device |-> b.device])
           \/ UNCHANGED posted
    BY <1>9 DEF ReceivePermission, outside, video, history
  <2>2. PlugInv' /\ MessageInv' /\ RequestInv' /\ StopsForGood'
    BY <1>i, <1>p, <1>r, <1>s, <2>1, MessagesStay
  <2>3. PostedInv'
    <3> DEFINE x == [run |-> "connect", device |-> b.device]
    <3>1. x \in Posts /\ x.run = "connect" /\ Wanted(x.device.plug)
      BY <1>i, <2>1 DEF Posts, MessageInv
    <3> HIDE DEF x
    <3>2. CASE posted' = Append(posted, x)
      BY <1>i, <2>1, <3>1, <3>2, PostedGrows
    <3>3. CASE UNCHANGED posted
      BY <1>i, <2>1, <3>3, PostedStays
    <3> QED BY <2>1, <3>2, <3>3 DEF x
  <2> QED BY <2>2, <2>3 DEF IInv
<1>10. ASSUME NEW b \in broadcasts, ReceiveDetached(b) PROVE IInv'
  <2>1. /\ b.action = "detached" /\ broadcasts' = broadcasts \ {b}
        /\ UNCHANGED <<plugged, plugs, asked, dialogs>>
    BY <1>10 DEF ReceiveDetached, outside, history
  <2>2. PlugInv' /\ MessageInv'
    BY <1>i, <1>p, <2>1, MessagesStay
  <2>3. b.device \in Devices /\ Gone(b.device.plug)
    BY <1>i, <2>1 DEF MessageInv
  <2>4. PostedInv'
    <3> DEFINE x == [run |-> "dettach", device |-> b.device]
    <3>1. x \in Posts /\ x.run = "dettach" /\ Gone(x.device.plug)
      BY <2>3 DEF Posts
    <3>2. posted' = Append(posted, x) \/ UNCHANGED posted
      BY <1>10 DEF ReceiveDetached
    <3> HIDE DEF x
    <3>3. CASE posted' = Append(posted, x)
      BY <1>i, <2>1, <3>1, <3>3, PostedGrows
    <3>4. CASE UNCHANGED posted
      BY <1>i, <2>1, <3>4, PostedStays
    <3> QED BY <3>2, <3>3, <3>4
  <2>5. CASE UNCHANGED <<mUSBMonitor, video>>
    <3>1. UNCHANGED <<mUsbDevice, renderers, connect>>
      BY <2>5 DEF video
    <3> QED BY <1>r, <1>s, <2>1, <2>2, <2>4, <2>5, <3>1 DEF IInv
  <2>6. CASE /\ \E c \in mCtrlBlocks : c.plug = b.device.plug /\ onDisconnect(c)
             /\ disconnected
    <3>1. mUsbDevice # null /\ Gone(mUsbDevice.plug)
      BY <2>3, <2>6 DEF onDisconnect, deviceHasConnected
    <3> QED BY <1>i, <2>1, <2>2, <2>4, <2>6, <3>1, GoneDisconnected DEF IInv
  <2>7. \/ UNCHANGED <<mUSBMonitor, video>>
        \/ /\ \E c \in mCtrlBlocks : c.plug = b.device.plug /\ onDisconnect(c)
           /\ disconnected
    BY <1>10 DEF ReceiveDetached
  <2> QED BY <2>5, <2>6, <2>7
<1>11. CASE UNCHANGED vars
  <2>1. UNCHANGED <<plugged, plugs, asked, dialogs, broadcasts, posted, mUsbDevice,
                    mUSBMonitor, renderers, connect>>
    BY <1>11 DEF vars, outside, video, history
  <2> QED BY <1>i, <1>p, <1>r, <1>s, <2>1, PostedStays, MessagesStay DEF IInv
<1> QED
  BY <1>1, <1>2, <1>3, <1>4, <1>5, <1>6, <1>7, <1>8, <1>9, <1>10, <1>11
  DEF Next, Looper, Receive

-----------------------------------------------------------------------------
(* What is known of the requests: each is its own object, and a camera     *)
(* nobody was asked about twice at a time has one request under way at most *)

\* The object of one of the requests made so far.
Request(d) == d \in Devices /\ d.plug \in Plugs /\ d.copy \in 1..asked[d.plug]

ObjectInv ==
  /\ \A d \in dialogs : Request(d)
  /\ \A b \in broadcasts : b.action = "permission" => Request(b.device)
  /\ \A k \in DOMAIN posted : posted[k].run = "connect" => Request(posted[k].device)
  /\ \A c \in mCtrlBlocks : Request(c)
  /\ mUsbDevice # null => Request(mUsbDevice)

\* The three places where a request for camera p can be under way.
Dialogs(p) == {d \in dialogs : d.plug = p}
Answers(p) == {b \in broadcasts : b.action = "permission" /\ b.device.plug = p}
Calls(p)   == {k \in DOMAIN posted : posted[k].run = "connect" /\ posted[k].device.plug = p}

AtMostOne(S) == \A x, y \in S : x = y
Single(p) ==
  /\ AtMostOne(Dialogs(p)) /\ AtMostOne(Answers(p)) /\ AtMostOne(Calls(p))
  /\ Dialogs(p) = {} \/ Answers(p) = {}
  /\ Dialogs(p) = {} \/ Calls(p) = {}
  /\ Answers(p) = {} \/ Calls(p) = {}
SingleInv == \A p \in Plugs : p \in overlapped \/ Single(p)

\* The connected camera has no request under way, unless it was asked for twice;
\* a read thread without a camera is one that outlived the monitor.
VideoInv ==
  /\ readers \in Nat /\ renderers \in Nat
  /\ mUsbDevice # null => mUsbDevice.plug \in overlapped \/ ~UnderWay(mUsbDevice.plug)
  /\ mUsbDevice = null => renderers = 0
  /\ mUsbDevice = null /\ mUSBMonitor => readers = 0
  /\ OneConnection

\* The monitor has a camera open once, the connected one among them if it was
\* asked for once, and has a broadcast to come when that one is gone.
BlockInv ==
  /\ \A c, e \in mCtrlBlocks : c.plug = e.plug => c = e
  /\ mUsbDevice # null /\ asked[mUsbDevice.plug] = 1
       => /\ \E c \in mCtrlBlocks : c.plug = mUsbDevice.plug
          /\ mUsbDevice.plug \notin plugged
               => Detached(Device(mUsbDevice.plug, 0)) \in broadcasts

ConnInv == ObjectInv /\ SingleInv /\ VideoInv /\ BlockInv

\* One more call on the looper; it is a request of this camera or of another one.
LEMMA CallsGrow ==
  ASSUME PostedInv, NEW x \in Posts, posted' = Append(posted, x), NEW p
  PROVE  Calls(p)' = IF x.run = "connect" /\ x.device.plug = p
                     THEN Calls(p) \cup {Len(posted) + 1} ELSE Calls(p)
<1>1. /\ DOMAIN posted' = DOMAIN posted \cup {Len(posted) + 1}
      /\ \A k \in DOMAIN posted : posted'[k] = posted[k] /\ k # Len(posted) + 1
      /\ posted'[Len(posted) + 1] = x
  BY DEF PostedInv
<1> QED BY <1>1 DEF Calls

\* One less: of several requests of a camera those behind the first are left.
LEMMA CallsShrink ==
  ASSUME PostedInv, posted # <<>>, posted' = Tail(posted), NEW p
  PROVE  /\ AtMostOne(Calls(p)) => AtMostOne(Calls(p)')
         /\ Calls(p) = {} => Calls(p)' = {}
         /\ Head(posted).run = "connect" /\ Head(posted).device.plug = p
              => Calls(p) # {} /\ (AtMostOne(Calls(p)) => Calls(p)' = {})
<1>1. posted \in Seq(Posts) /\ Len(posted) \in Nat /\ DOMAIN posted = 1..Len(posted)
  BY DEF PostedInv
<1>2. /\ DOMAIN posted' = 1..(Len(posted) - 1)
      /\ \A k \in 1..(Len(posted) - 1) : posted'[k] = posted[k + 1]
      /\ 1 \in DOMAIN posted /\ Head(posted) = posted[1]
  BY <1>1
<1>3. \A k \in Calls(p)' : k \in Nat /\ k + 1 \in Calls(p) /\ k + 1 # 1
  BY <1>1, <1>2 DEF Calls
<1>4. Head(posted).run = "connect" /\ Head(posted).device.plug = p => 1 \in Calls(p)
  BY <1>2 DEF Calls
<1>5. AtMostOne(Calls(p)) => AtMostOne(Calls(p)')
  <2> SUFFICES ASSUME AtMostOne(Calls(p)), NEW j \in Calls(p)', NEW k \in Calls(p)'
               PROVE  j = k
    BY DEF AtMostOne
  <2>1. j + 1 = k + 1
    BY <1>3 DEF AtMostOne
  <2> QED BY <1>3, <2>1
<1> HIDE DEF Calls
<1> QED BY <1>3, <1>4, <1>5 DEF AtMostOne

\* A timer tick asks for nothing, or makes the next request for a camera that is
\* there while none is connected.
LEMMA Asking ==
  ASSUME PlugInv, Check
  PROVE  \/ UNCHANGED <<dialogs, posted, asked, overlapped>>
         \/ /\ mUsbDevice = null
            /\ \E p \in plugged : \E d \in Devices :
                 /\ p \in Plugs /\ asked[p] \in Nat /\ d.plug = p /\ d.copy = asked[p] + 1
                 /\ asked' = [asked EXCEPT ![p] = asked[p] + 1]
                 /\ \/ dialogs' = dialogs \cup {d} /\ UNCHANGED posted
                    \/ /\ posted' = Append(posted, [run |-> "connect", device |-> d])
                       /\ UNCHANGED dialogs
                 /\ overlapped' = IF UnderWay(p) THEN overlapped \cup {p} ELSE overlapped
<1>1. CASE UNCHANGED <<dialogs, posted, asked, overlapped>>
  BY <1>1
<1>2. CASE /\ mUsbDevice = null
           /\ \E p \in plugged :
                /\ requestPermission(Device(p, asked[p] + 1))
                /\ overlapped' = IF UnderWay(p) THEN overlapped \cup {p} ELSE overlapped
  <2>1. PICK p \in plugged :
             /\ requestPermission(Device(p, asked[p] + 1))
             /\ overlapped' = IF UnderWay(p) THEN overlapped \cup {p} ELSE overlapped
    BY <1>2
  <2> DEFINE d == Device(p, asked[p] + 1)
  <2>2. p \in Plugs /\ asked[p] \in Nat /\ p \in Int
    BY DEF PlugInv, Plugs
  <2>3. d \in Devices /\ d.plug = p /\ d.copy = asked[p] + 1
    BY <2>2 DEF Device, Devices
  <2>4. requestPermission(d)
    BY <2>1
  <2> HIDE DEF d
  <2>5. /\ asked' = [asked EXCEPT ![p] = asked[p] + 1]
        /\ \/ dialogs' = dialogs \cup {d} /\ UNCHANGED posted
           \/ /\ posted' = Append(posted, [run |-> "connect", device |-> d])
              /\ UNCHANGED dialogs
    BY <2>3, <2>4 DEF requestPermission
  <2> QED BY <1>2, <2>1, <2>2, <2>3, <2>5
<1> QED BY <1>1, <1>2, AsksAlone DEF Check

\* A request stays one as long as no count goes down.
LEMMA RequestStays ==
  ASSUME NEW d, Request(d), PlugInv, PlugInv', \A p \in Plugs : asked'[p] >= asked[p]
  PROVE  Request(d)'
<1>1. d.plug \in Plugs /\ asked[d.plug] \in Nat /\ asked'[d.plug] \in Nat
  BY DEF Request, PlugInv
<1> QED BY <1>1 DEF Request

LEMMA ObjectStep == IInv /\ IInv' /\ ObjectInv /\ [Next]_vars => ObjectInv'
<1> SUFFICES ASSUME IInv, IInv', ObjectInv, [Next]_vars PROVE ObjectInv'
  OBVIOUS
<1>i. PlugInv /\ PlugInv' /\ PostedInv /\ PostedInv' /\ MessageInv
  BY DEF IInv
\* The steps that make no request.
<1>s. ASSUME UNCHANGED asked, NEW d, Request(d) PROVE Request(d)'
  BY <1>s DEF Request
<1>t. ASSUME UNCHANGED asked,
             \A d \in dialogs' : Request(d),
             \A b \in broadcasts' : b.action = "permission" => Request(b.device),
             \A k \in DOMAIN posted' : posted'[k].run = "connect" => Request(posted'[k].device),
             \A c \in mCtrlBlocks' : Request(c),
             mUsbDevice' # null => Request(mUsbDevice')
      PROVE  ObjectInv'
  BY <1>t DEF ObjectInv, Request
<1>p. ASSUME posted # <<>>, posted' = Tail(posted)
      PROVE  /\ \A k \in DOMAIN posted' : posted'[k].run = "connect" => Request(posted'[k].device)
             /\ Head(posted).run = "connect" => Request(Head(posted).device)
  <2>1. posted \in Seq(Posts) /\ Len(posted) \in Nat /\ DOMAIN posted = 1..Len(posted)
    BY <1>i DEF PostedInv
  <2>2. /\ DOMAIN posted' = 1..(Len(posted) - 1)
        /\ \A k \in 1..(Len(posted) - 1) : posted'[k] = posted[k + 1] /\ k + 1 \in DOMAIN posted
        /\ 1 \in DOMAIN posted /\ Head(posted) = posted[1]
    BY <1>p, <2>1
  <2> QED BY <2>2 DEF ObjectInv
<1>a. ASSUME NEW x \in Posts, posted' = Append(posted, x), x.run = "connect" => Request(x.device)
      PROVE  \A k \in DOMAIN posted' : posted'[k].run = "connect" => Request(posted'[k].device)
  <2>1. \A k \in DOMAIN posted' : (k \in DOMAIN posted /\ posted'[k] = posted[k]) \/ posted'[k] = x
    BY <1>i, <1>a DEF PostedInv
  <2> QED BY <1>a, <2>1 DEF ObjectInv
<1>1. CASE PlugIn
  BY <1>1, <1>t DEF PlugIn, ObjectInv, history, video, monitor
<1>2. ASSUME NEW p \in plugged, Unplug(p) PROVE ObjectInv'
  <2> DEFINE open == {d \in dialogs : d.plug = p}
  <2>1. /\ dialogs' \subseteq dialogs
        /\ broadcasts' = broadcasts \cup {Detached(Device(p, 0))} \cup {Permission(d, FALSE) : d \in open}
        /\ UNCHANGED <<asked, posted, mCtrlBlocks, mUsbDevice>>
    BY <1>2 DEF Unplug, history, video, monitor
  <2>2. \A b \in broadcasts' : b.action = "permission" => Request(b.device)
    <3>1. \A d \in open : Permission(d, FALSE).device = d
      BY DEF Permission
    <3>2. Detached(Device(p, 0)).action = "detached"
      BY DEF Detached
    <3> QED BY <2>1, <3>1, <3>2 DEF ObjectInv
  <2> QED BY <1>t, <2>1, <2>2 DEF ObjectInv
<1>3. CASE OtherDetached
  <2>1. Detached(OtherDevice).action = "detached"
    BY DEF Detached
  <2> QED BY <1>3, <1>t, <2>1 DEF OtherDetached, ObjectInv, history, video, monitor
<1>4. ASSUME NEW d \in dialogs, NEW yes \in BOOLEAN, AnswerDialog(d, yes) PROVE ObjectInv'
  <2>1. Permission(d, yes).device = d
    BY DEF Permission
  <2> QED BY <1>4, <1>t, <2>1 DEF AnswerDialog, ObjectInv, video, monitor
<1>5. CASE ReaderEnds
  BY <1>5, <1>t DEF ReaderEnds, ObjectInv, history, monitor
<1>6. CASE Check
  <2>1. UNCHANGED <<broadcasts, mCtrlBlocks, mUsbDevice>>
    BY <1>6 DEF Check, video
  <2>2. CASE UNCHANGED <<dialogs, posted, asked, overlapped>>
    BY <1>t, <2>1, <2>2 DEF ObjectInv
  <2>3. ASSUME NEW p \in plugged, NEW d \in Devices,
               p \in Plugs, asked[p] \in Nat, d.plug = p, d.copy = asked[p] + 1,
               asked' = [asked EXCEPT ![p] = asked[p] + 1],
               \/ dialogs' = dialogs \cup {d} /\ UNCHANGED posted
               \/ posted' = Append(posted, [run |-> "connect", device |-> d]) /\ UNCHANGED dialogs
        PROVE  ObjectInv'
    <3>1. \A q \in Plugs : asked'[q] = IF q = p THEN asked[p] + 1 ELSE asked[q]
      BY <1>i, <2>3 DEF PlugInv
    <3>2. \A q \in Plugs : asked'[q] >= asked[q]
      BY <1>i, <3>1 DEF PlugInv
    <3>3. \A e : Request(e) => Request(e)'
      BY <1>i, <3>2, RequestStays
    <3>4. Request(d)'
      BY <2>3, <3>1 DEF Request
    <3>5. \A k \in DOMAIN posted' : posted'[k].run = "connect" => Request(posted[k].device)'
      <4>1. CASE UNCHANGED posted
        BY <3>3, <4>1 DEF ObjectInv
      <4>2. CASE posted' = Append(posted, [run |-> "connect", device |-> d])
        <5> DEFINE x == [run |-> "connect", device |-> d]
        <5>1. x \in Posts /\ x.device = d
          BY DEF Posts
        <5>2. posted' = Append(posted, x)
          BY <4>2
        <5> HIDE DEF x
        <5>3. \A k \in DOMAIN posted' : (k \in DOMAIN posted /\ posted'[k] = posted[k]) \/ posted'[k] = x
          BY <1>i, <5>1, <5>2 DEF PostedInv
        <5> QED BY <3>3, <3>4, <5>1, <5>3 DEF ObjectInv
      <4> QED BY <2>3, <4>1, <4>2
    <3>6. \A e \in dialogs' : Request(e)'
      BY <2>3, <3>3, <3>4 DEF ObjectInv
    <3>7. mUsbDevice' # null => Request(mUsbDevice)'
      BY <2>1, <3>3 DEF ObjectInv
    <3> QED BY <2>1, <3>3, <3>5, <3>6, <3>7 DEF ObjectInv
  <2> QED BY <1>6, <1>i, <2>2, <2>3, Asking
<1>7. CASE onConnect
  <2> DEFINE d == Head(posted).device
  <2>1. /\ posted # <<>> /\ posted' = Tail(posted) /\ Head(posted).run = "connect"
        /\ UNCHANGED <<asked, dialogs, broadcasts>>
        /\ mCtrlBlocks' \subseteq mCtrlBlocks \cup {d}
        /\ mUsbDevice' \in {mUsbDevice, d}
    BY <1>7 DEF onConnect, Connect, video
  <2>2. Request(d)
    BY <1>p, <2>1
  <2> HIDE DEF d
  <2> QED BY <1>p, <1>t, <2>1, <2>2 DEF ObjectInv
<1>8. CASE onDettach
  <2>1. /\ posted # <<>> /\ posted' = Tail(posted)
        /\ UNCHANGED <<asked, dialogs, broadcasts>>
        /\ mCtrlBlocks' \subseteq mCtrlBlocks /\ mUsbDevice' \in {mUsbDevice, null}
    BY <1>8 DEF onDettach, disconnected, video, monitor, history
  <2> QED BY <1>p, <1>t, <2>1 DEF ObjectInv
<1>9. ASSUME NEW b \in broadcasts, ReceivePermission(b) PROVE ObjectInv'
  <2> DEFINE x == [run |-> "connect", device |-> b.device]
  <2>1. /\ broadcasts' \subseteq broadcasts /\ UNCHANGED <<asked, dialogs, mCtrlBlocks, mUsbDevice>>
        /\ posted' = Append(posted, x) \/ UNCHANGED posted
        /\ b.action = "permission"
    BY <1>9 DEF ReceivePermission, video, monitor, history
  <2>2. x \in Posts /\ Request(x.device)
    BY <1>i, <2>1 DEF Posts, MessageInv, ObjectInv
  <2> HIDE DEF x
  <2>3. \A k \in DOMAIN posted' : posted'[k].run = "connect" => Request(posted'[k].device)
    BY <1>a, <2>1, <2>2 DEF ObjectInv
  <2> QED BY <1>t, <2>1, <2>3 DEF ObjectInv
<1>10. ASSUME NEW b \in broadcasts, ReceiveDetached(b) PROVE ObjectInv'
  <2> DEFINE x == [run |-> "dettach", device |-> b.device]
  <2>1. /\ broadcasts' \subseteq broadcasts /\ UNCHANGED <<asked, dialogs>>
        /\ posted' = Append(posted, x) \/ UNCHANGED posted
        /\ mCtrlBlocks' \subseteq mCtrlBlocks /\ mUsbDevice' \in {mUsbDevice, null}
    BY <1>10 DEF ReceiveDetached, disconnected, video, monitor, history
  <2>2. x \in Posts /\ x.run = "dettach"
    BY <1>i DEF Posts, MessageInv
  <2> HIDE DEF x
  <2>3. \A k \in DOMAIN posted' : posted'[k].run = "connect" => Request(posted'[k].device)
    BY <1>a, <2>1, <2>2 DEF ObjectInv
  <2> QED BY <1>t, <2>1, <2>3 DEF ObjectInv
<1>11. CASE UNCHANGED vars
  BY <1>11, <1>t DEF vars, history, video, monitor, ObjectInv
<1> QED
  BY <1>1, <1>2, <1>3, <1>4, <1>5, <1>6, <1>7, <1>8, <1>9, <1>10, <1>11
  DEF Next, Looper, Receive

\* Fewer requests under way for a camera than before.
LEMMA SingleLess ==
  ASSUME NEW p, Single(p),
         Dialogs(p)' \subseteq Dialogs(p), Answers(p)' \subseteq Answers(p),
         AtMostOne(Calls(p)) => AtMostOne(Calls(p)'), Calls(p) = {} => Calls(p)' = {}
  PROVE  Single(p)'
BY DEF Single, AtMostOne

\* None under way, then one dialog or one call.
LEMMA SingleFirst ==
  ASSUME NEW p, Dialogs(p) = {}, Answers(p) = {}, Calls(p) = {}, UNCHANGED Answers(p),
         \/ UNCHANGED Calls(p) /\ \E d : Dialogs(p)' \subseteq {d}
         \/ UNCHANGED Dialogs(p) /\ \E k : Calls(p)' \subseteq {k}
  PROVE  Single(p)'
BY DEF Single, AtMostOne

LEMMA NotUnderWay ==
  ASSUME NEW p
  PROVE  ~UnderWay(p) <=> Dialogs(p) = {} /\ Answers(p) = {} /\ Calls(p) = {}
BY DEF UnderWay, Dialogs, Answers, Calls

LEMMA SingleStep == IInv /\ SingleInv /\ [Next]_vars => SingleInv'
<1> SUFFICES ASSUME IInv, SingleInv, [Next]_vars, NEW p \in Plugs, p \notin overlapped'
             PROVE  Single(p)'
  BY DEF SingleInv
<1>i. PlugInv /\ PostedInv /\ MessageInv
  BY DEF IInv
<1>s. p \notin overlapped => Single(p)
  BY DEF SingleInv
<1>c. UNCHANGED posted => UNCHANGED Calls(p)
  BY DEF Calls
<1>d. dialogs' \subseteq dialogs => Dialogs(p)' \subseteq Dialogs(p)
  BY DEF Dialogs
<1>b. (\A b \in broadcasts' : b.action = "permission" => b \in broadcasts)
        => Answers(p)' \subseteq Answers(p)
  BY DEF Answers
\* Nothing that counts is added.
<1>l. ASSUME UNCHANGED <<posted, overlapped>>, dialogs' \subseteq dialogs,
             \A b \in broadcasts' : b.action = "permission" => b \in broadcasts
      PROVE  Single(p)'
  BY <1>c, <1>d, <1>b, <1>l, <1>s, SingleLess
<1>1. CASE PlugIn
  BY <1>1, <1>l DEF PlugIn, history
\* A dialog turns into a denial.
<1>2. ASSUME NEW q \in plugged, Unplug(q) PROVE Single(p)'
  <2> DEFINE open == {d \in dialogs : d.plug = q}
  <2>1. /\ dialogs' = dialogs \ open
        /\ broadcasts' = broadcasts \cup {Detached(Device(q, 0))} \cup {Permission(d, FALSE) : d \in open}
        /\ UNCHANGED <<overlapped, posted>>
    BY <1>2 DEF Unplug, history
  <2>2. /\ Detached(Device(q, 0)).action = "detached"
        /\ \A d \in open : Permission(d, FALSE).device.plug = q
    BY DEF Detached, Permission
  <2>3. CASE p # q
    <3>1. Dialogs(p)' = Dialogs(p) /\ Answers(p)' = Answers(p)
      BY <2>1, <2>2, <2>3 DEF Dialogs, Answers
    <3> QED BY <1>c, <1>s, <2>1, <3>1, SingleLess
  <2>4. CASE p = q
    <3>1. open = Dialogs(p) /\ Dialogs(p)' = {}
      BY <2>1, <2>4 DEF Dialogs
    <3>2. Answers(p)' \subseteq Answers(p) \cup {Permission(d, FALSE) : d \in Dialogs(p)}
      BY <2>1, <2>2, <3>1 DEF Answers
    <3> QED BY <1>c, <1>s, <2>1, <3>1, <3>2 DEF Single, AtMostOne
  <2> QED BY <2>3, <2>4
<1>3. CASE OtherDetached
  <2>1. Detached(OtherDevice).action = "detached"
    BY DEF Detached
  <2> QED BY <1>3, <1>l, <2>1 DEF OtherDetached, history
\* A dialog turns into its answer.
<1>4. ASSUME NEW d \in dialogs, NEW yes \in BOOLEAN, AnswerDialog(d, yes) PROVE Single(p)'
  <2>1. /\ dialogs' = dialogs \ {d} /\ broadcasts' = broadcasts \cup {Permission(d, yes)}
        /\ UNCHANGED <<overlapped, posted>>
    BY <1>4 DEF AnswerDialog
  <2>2. Permission(d, yes).device = d
    BY DEF Permission
  <2>3. CASE d.plug # p
    <3>1. Dialogs(p)' = Dialogs(p) /\ Answers(p)' = Answers(p)
      BY <2>1, <2>2, <2>3 DEF Dialogs, Answers
    <3> QED BY <1>c, <1>s, <2>1, <3>1, SingleLess
  <2>4. CASE d.plug = p
    <3>1. d \in Dialogs(p) /\ Dialogs(p)' = Dialogs(p) \ {d}
      BY <2>1, <2>4 DEF Dialogs
    <3>2. Answers(p)' \subseteq Answers(p) \cup {Permission(d, yes)}
      BY <2>1 DEF Answers
    <3> QED BY <1>c, <1>s, <2>1, <3>1, <3>2 DEF Single, AtMostOne
  <2> QED BY <2>3, <2>4
<1>5. CASE ReaderEnds
  BY <1>5, <1>l DEF ReaderEnds, history
\* A request while another one is under way is what overlapped records.
<1>6. CASE Check
  <2>1. UNCHANGED broadcasts
    BY <1>6 DEF Check
  <2>2. CASE UNCHANGED <<dialogs, posted, asked, overlapped>>
    BY <1>l, <2>1, <2>2
  <2>3. ASSUME NEW q \in plugged, NEW d \in Devices, d.plug = q,
               \/ dialogs' = dialogs \cup {d} /\ UNCHANGED posted
               \/ posted' = Append(posted, [run |-> "connect", device |-> d]) /\ UNCHANGED dialogs,
               overlapped' = IF UnderWay(q) THEN overlapped \cup {q} ELSE overlapped
        PROVE  Single(p)'
    <3> DEFINE x == [run |-> "connect", device |-> d]
    <3>1. x \in Posts /\ x.run = "connect" /\ x.device.plug = q
      BY <2>3 DEF Posts
    <3>2. \/ dialogs' = dialogs \cup {d} /\ UNCHANGED posted
          \/ posted' = Append(posted, x) /\ UNCHANGED dialogs
      BY <2>3
    <3> HIDE DEF x
    <3>3. UNCHANGED Answers(p)
      BY <2>1 DEF Answers
    <3>4. p \notin overlapped
      BY <2>3
    <3>5. posted' = Append(posted, x) =>
            Calls(p)' = IF q = p THEN Calls(p) \cup {Len(posted) + 1} ELSE Calls(p)
      BY <1>i, <3>1, CallsGrow
    <3>6. CASE q # p
      <4>1. UNCHANGED <<Dialogs(p), Calls(p)>>
        BY <1>c, <2>3, <3>2, <3>5, <3>6 DEF Dialogs
      <4> QED BY <1>s, <3>3, <3>4, <4>1, SingleLess
    <3>7. CASE q = p
      <4>1. Dialogs(p) = {} /\ Answers(p) = {} /\ Calls(p) = {}
        BY <2>3, <3>7, NotUnderWay
      <4>2. CASE dialogs' = dialogs \cup {d} /\ UNCHANGED posted
        <5>1. Dialogs(p)' \subseteq {d}
          BY <4>1, <4>2 DEF Dialogs
        <5> QED BY <1>c, <3>3, <4>1, <4>2, <5>1, SingleFirst
      <4>3. CASE posted' = Append(posted, x) /\ UNCHANGED dialogs
        <5>1. Calls(p)' \subseteq {Len(posted) + 1} /\ UNCHANGED Dialogs(p)
          BY <3>5, <3>7, <4>1, <4>3 DEF Dialogs
        <5> QED BY <3>3, <4>1, <5>1, SingleFirst
      <4> QED BY <3>2, <4>2, <4>3
    <3> QED BY <3>6, <3>7
  <2> QED BY <1>6, <1>i, <2>2, <2>3, Asking
<1>7. CASE onConnect \/ onDettach
  <2>1. /\ posted # <<>> /\ posted' = Tail(posted)
        /\ UNCHANGED <<dialogs, broadcasts, overlapped>>
    BY <1>7 DEF onConnect, onDettach, history
  <2> QED BY <1>i, <1>d, <1>b, <1>s, <2>1, CallsShrink, SingleLess
\* A yes turns into a call.
<1>8. ASSUME NEW b \in broadcasts, ReceivePermission(b) PROVE Single(p)'
  <2> DEFINE x == [run |-> "connect", device |-> b.device]
  <2>1. /\ broadcasts' = broadcasts \ {b} /\ UNCHANGED <<dialogs, overlapped>>
        /\ posted' = Append(posted, x) \/ UNCHANGED posted
        /\ b.action = "permission"
    BY <1>8 DEF ReceivePermission, history
  <2>2. x \in Posts /\ x.run = "connect" /\ x.device.plug = b.device.plug
    BY <1>i, <2>1 DEF Posts, MessageInv
  <2> HIDE DEF x
  <2>3. UNCHANGED Dialogs(p) /\ Answers(p)' \subseteq Answers(p)
    BY <2>1 DEF Dialogs, Answers
  <2>4. CASE UNCHANGED posted
    BY <1>c, <1>s, <2>1, <2>3, <2>4, SingleLess
  <2>5. CASE posted' = Append(posted, x)
    <3>1. Calls(p)' = IF b.device.plug = p THEN Calls(p) \cup {Len(posted) + 1} ELSE Calls(p)
      BY <1>i, <2>2, <2>5, CallsGrow
    <3>2. CASE b.device.plug # p
      BY <1>s, <2>1, <2>3, <3>1, <3>2, SingleLess
    <3>3. CASE b.device.plug = p
      <4>1. b \in Answers(p) /\ Answers(p)' = Answers(p) \ {b}
        BY <2>1, <3>3 DEF Answers
      <4>2. Single(p) /\ Calls(p) = {} /\ Dialogs(p) = {} /\ Answers(p)' = {}
        BY <1>s, <2>1, <4>1 DEF Single, AtMostOne
      <4> QED BY <2>3, <3>1, <4>2 DEF Single, AtMostOne
    <3> QED BY <3>2, <3>3
  <2> QED BY <2>1, <2>4, <2>5
<1>9. ASSUME NEW b \in broadcasts, ReceiveDetached(b) PROVE Single(p)'
  <2> DEFINE x == [run |-> "dettach", device |-> b.device]
  <2>1. /\ broadcasts' \subseteq broadcasts /\ UNCHANGED <<dialogs, overlapped>>
        /\ posted' = Append(posted, x) \/ UNCHANGED posted
    BY <1>9 DEF ReceiveDetached, history
  <2>2. x \in Posts /\ x.run = "dettach"
    BY <1>i DEF Posts, MessageInv
  <2> HIDE DEF x
  <2>3. UNCHANGED Calls(p)
    BY <1>c, <1>i, <2>1, <2>2, CallsGrow
  <2> QED BY <1>b, <1>d, <1>s, <2>1, <2>3, SingleLess
<1>10. CASE UNCHANGED vars
  BY <1>10, <1>l DEF vars, history
<1> QED
  BY <1>1, <1>2, <1>3, <1>4, <1>5, <1>6, <1>7, <1>8, <1>9, <1>10
  DEF Next, Looper, Receive

\* With a camera connected nothing comes under way that was not.
LEMMA NoNewRequest ==
  ASSUME IInv, [Next]_vars, mUsbDevice # null, NEW p
  PROVE  UnderWay(p)' => UnderWay(p)
<1>i. PlugInv /\ PostedInv /\ MessageInv
  BY DEF IInv
<1>1. ASSUME UNCHANGED posted, dialogs' \subseteq dialogs,
             \A b \in broadcasts' : b.action = "permission" => b \in broadcasts
      PROVE  UnderWay(p)' => UnderWay(p)
  BY <1>1 DEF UnderWay
<1>2. CASE PlugIn \/ ReaderEnds \/ UNCHANGED vars
  BY <1>1, <1>2 DEF PlugIn, ReaderEnds, vars
<1>3. ASSUME NEW q \in plugged, Unplug(q) PROVE UnderWay(p)' => UnderWay(p)
  <2> DEFINE open == {d \in dialogs : d.plug = q}
  <2>1. /\ dialogs' \subseteq dialogs /\ UNCHANGED posted
        /\ broadcasts' = broadcasts \cup {Detached(Device(q, 0))} \cup {Permission(d, FALSE) : d \in open}
    BY <1>3 DEF Unplug
  <2>2. /\ Detached(Device(q, 0)).action = "detached"
        /\ \A d \in open : d \in dialogs /\ Permission(d, FALSE).device = d
    BY DEF Detached, Permission
  <2> QED BY <2>1, <2>2 DEF UnderWay
<1>4. CASE OtherDetached
  <2>1. Detached(OtherDevice).action = "detached"
    BY DEF Detached
  <2> QED BY <1>1, <1>4, <2>1 DEF OtherDetached
<1>5. ASSUME NEW d \in dialogs, NEW yes \in BOOLEAN, AnswerDialog(d, yes)
      PROVE  UnderWay(p)' => UnderWay(p)
  <2>1. Permission(d, yes).device = d
    BY DEF Permission
  <2> QED BY <1>5, <2>1 DEF AnswerDialog, UnderWay
<1>6. CASE Check
  <2>1. UNCHANGED broadcasts /\ onAttach(null)
    BY <1>6 DEF Check
  <2>2. UNCHANGED <<dialogs, posted>>
    BY <2>1, AsksAlone
  <2> QED BY <2>1, <2>2 DEF UnderWay
<1>7. CASE onConnect \/ onDettach
  <2>1. posted # <<>> /\ posted' = Tail(posted) /\ UNCHANGED <<dialogs, broadcasts>>
    BY <1>7 DEF onConnect, onDettach
  <2>2. Calls(p) = {} => Calls(p)' = {}
    BY <1>i, <2>1, CallsShrink
  <2> QED BY <2>1, <2>2 DEF UnderWay, Calls
<1>8. ASSUME NEW b \in broadcasts, ReceivePermission(b) PROVE UnderWay(p)' => UnderWay(p)
  <2> DEFINE x == [run |-> "connect", device |-> b.device]
  <2>1. /\ broadcasts' \subseteq broadcasts /\ UNCHANGED dialogs
        /\ posted' = Append(posted, x) \/ UNCHANGED posted
        /\ b.action = "permission"
    BY <1>8 DEF ReceivePermission
  <2>2. x \in Posts /\ x.run = "connect" /\ x.device = b.device
    BY <1>i, <2>1 DEF Posts, MessageInv
  <2> HIDE DEF x
  <2>3. posted' = Append(posted, x)
          => Calls(p)' = IF b.device.plug = p THEN Calls(p) \cup {Len(posted) + 1} ELSE Calls(p)
    BY <1>i, <2>2, CallsGrow
  <2> QED BY <2>1, <2>3 DEF UnderWay, Calls
<1>9. ASSUME NEW b \in broadcasts, ReceiveDetached(b) PROVE UnderWay(p)' => UnderWay(p)
  <2> DEFINE x == [run |-> "dettach", device |-> b.device]
  <2>1. /\ broadcasts' \subseteq broadcasts /\ UNCHANGED dialogs
        /\ posted' = Append(posted, x) \/ UNCHANGED posted
    BY <1>9 DEF ReceiveDetached
  <2>2. x \in Posts /\ x.run = "dettach"
    BY <1>i DEF Posts, MessageInv
  <2> HIDE DEF x
  <2>3. posted' = Append(posted, x) => Calls(p)' = Calls(p)
    BY <1>i, <2>2, CallsGrow
  <2> QED BY <2>1, <2>3 DEF UnderWay, Calls
<1> QED
  BY <1>2, <1>3, <1>4, <1>5, <1>6, <1>7, <1>8, <1>9 DEF Next, Looper, Receive

\* What opening the camera of the first call on the looper means.
LEMMA Opening ==
  ASSUME IInv, ObjectInv, SingleInv, VideoInv, posted # <<>>, posted' = Tail(posted),
         Head(posted).run = "connect", UNCHANGED <<dialogs, broadcasts>>,
         NEW d, d = Head(posted).device, d.plug \in plugged
  PROVE  /\ Request(d) /\ mUSBMonitor
         /\ d.plug \in overlapped \/ (~UnderWay(d.plug))'
         /\ mUsbDevice # null => d.plug = mUsbDevice.plug /\ d.plug \in overlapped
<1>i. PlugInv /\ PostedInv /\ RequestInv
  BY DEF IInv
<1>1. Request(d)
  <2>1. 1 \in DOMAIN posted /\ Head(posted) = posted[1]
    BY <1>i DEF PostedInv
  <2> QED BY <2>1 DEF ObjectInv
<1>2. d.plug \in Plugs /\ asked[d.plug] > 0
  BY <1>1, <1>i DEF Request, PlugInv
<1>3. mUSBMonitor /\ (mUsbDevice # null => d.plug = mUsbDevice.plug)
  BY <1>i, <1>2 DEF RequestInv
<1>4. Calls(d.plug) # {} /\ (AtMostOne(Calls(d.plug)) => Calls(d.plug)' = {})
  BY <1>i, CallsShrink
<1>5. ASSUME d.plug \notin overlapped PROVE ~(UnderWay(d.plug)')
  <2>1. Single(d.plug)
    BY <1>2, <1>5 DEF SingleInv
  <2>2. Dialogs(d.plug) = {} /\ Answers(d.plug) = {} /\ Calls(d.plug)' = {}
    BY <1>4, <2>1 DEF Single
  <2>3. UNCHANGED <<dialogs, broadcasts>>
    OBVIOUS
  <2> QED BY <2>2, <2>3 DEF UnderWay, Dialogs, Answers, Calls
<1>6. UnderWay(d.plug)
  BY <1>4, NotUnderWay
<1>7. mUsbDevice # null => d.plug \in overlapped
  BY <1>3, <1>6 DEF VideoInv
<1> QED BY <1>1, <1>3, <1>5, <1>7

LEMMA VideoStep == IInv /\ ObjectInv /\ SingleInv /\ VideoInv /\ [Next]_vars => VideoInv'
<1> SUFFICES ASSUME IInv, ObjectInv, SingleInv, VideoInv, [Next]_vars PROVE VideoInv'
  OBVIOUS
<1>i. VideoInv /\ PlugInv /\ PostedInv /\ RequestInv /\ StopsForGood
  BY DEF IInv
<1>o. overlapped \subseteq overlapped'
  BY DEF Next, Looper, Receive, PlugIn, Unplug, OtherDetached, AnswerDialog, ReaderEnds, Check,
         onAttach, RequestOf, onConnect, onDettach, ReceivePermission, ReceiveDetached, vars, history
\* The steps that leave what is shown alone, or end a read thread.
<1>u. ASSUME UNCHANGED <<mUsbDevice, mUSBMonitor, renderers>>,
             readers' = readers \/ (readers > 0 /\ readers' = readers - 1)
      PROVE  VideoInv'
  <2>1. readers' \in Nat /\ readers' <= readers /\ renderers' \in Nat
    BY <1>i, <1>u DEF VideoInv
  <2>2. mUsbDevice' # null => mUsbDevice'.plug \in overlapped' \/ (~UnderWay(mUsbDevice.plug))'
    <3> SUFFICES ASSUME mUsbDevice # null, mUsbDevice.plug \notin overlapped'
                 PROVE  ~(UnderWay(mUsbDevice.plug)')
      BY <1>u
    <3>1. PICK p : p = mUsbDevice.plug
      OBVIOUS
    <3>2. ~(UnderWay(p)')
      BY <1>i, <1>o, <3>1, NoNewRequest DEF VideoInv
    <3> QED BY <1>u, <3>1, <3>2 DEF UnderWay
  <2>3. OneConnection'
    BY <1>i, <1>o, <1>u, <2>1 DEF VideoInv, OneConnection
  <2> QED BY <1>i, <1>u, <2>1, <2>2, <2>3 DEF VideoInv
<1>d. ASSUME disconnected PROVE VideoInv'
  <2>1. mUsbDevice' = null /\ mUSBMonitor' = FALSE /\ renderers' = 0 /\ readers' = readers
    BY <1>d DEF disconnected
  <2>2. OneConnection'
    BY <1>i, <1>o, <2>1 DEF VideoInv, OneConnection
  <2> QED BY <1>i, <2>1, <2>2 DEF VideoInv
<1>1. CASE onConnect
  <2>0. PICK d : d = Head(posted).device
    OBVIOUS
  <2>1. /\ posted # <<>> /\ posted' = Tail(posted) /\ Head(posted).run = "connect"
        /\ UNCHANGED <<dialogs, broadcasts, mUSBMonitor, overlapped>>
        /\ Connect(d) \/ UNCHANGED video
    BY <1>1, <2>0 DEF onConnect
  <2>2. CASE UNCHANGED video
    BY <1>u, <2>1, <2>2 DEF video
  <2>3. CASE /\ d.plug \in plugged /\ openConnection(d)
             /\ mUsbDevice' = d /\ renderers' = renderers + 1
    <3>1. /\ Request(d) /\ mUSBMonitor
          /\ d.plug \in overlapped \/ (~UnderWay(d.plug))'
          /\ mUsbDevice # null => d.plug = mUsbDevice.plug /\ d.plug \in overlapped
      BY <2>0, <2>1, <2>3, Opening
    <3>2. readers' = readers + 1 /\ readers' \in Nat /\ renderers' \in Nat /\ d # null
      <4>1. readers' = readers + 1 /\ readers \in Nat /\ renderers \in Nat
        BY <1>i, <2>3 DEF openConnection, VideoInv
      <4>2. d.plug \in Plugs
        BY <3>1 DEF Request
      <4>3. d # null
        BY <4>2, UsbAssumption DEF Plugs, null, Device
      <4> QED BY <2>3, <4>1, <4>3
    <3>3. OneConnection'
      <4>1. CASE mUsbDevice # null
        BY <2>1, <2>3, <3>1, <4>1 DEF OneConnection
      <4>2. CASE mUsbDevice = null
        <5>1. renderers' = 1 /\ readers' = 1
          BY <1>i, <2>3, <3>1, <3>2, <4>2 DEF VideoInv
        <5> QED BY <5>1 DEF OneConnection
      <4> QED BY <4>1, <4>2
    <3>4. mUsbDevice'.plug \in overlapped' \/ (~UnderWay(mUsbDevice.plug))'
      BY <2>1, <2>3, <3>1 DEF UnderWay
    <3> QED BY <2>3, <3>2, <3>3, <3>4 DEF VideoInv
  <2> QED BY <2>1, <2>2, <2>3 DEF Connect
<1>2. CASE onDettach
  BY <1>2, <1>u, <1>d DEF onDettach, video
<1>3. ASSUME NEW b \in broadcasts, ReceiveDetached(b) PROVE VideoInv'
  BY <1>3, <1>u, <1>d DEF ReceiveDetached, video
<1>4. CASE ReaderEnds
  BY <1>4, <1>u DEF ReaderEnds
<1>5. CASE \/ PlugIn \/ (\E p \in plugged : Unplug(p)) \/ OtherDetached \/ Check
           \/ \E d \in dialogs, yes \in BOOLEAN : AnswerDialog(d, yes)
           \/ \E b \in broadcasts : ReceivePermission(b)
           \/ UNCHANGED vars
  <2>1. UNCHANGED <<mUSBMonitor, video>>
    BY <1>5 DEF PlugIn, Unplug, OtherDetached, Check, AnswerDialog, ReceivePermission, vars
  <2> QED BY <1>u, <2>1 DEF video
<1> QED BY <1>1, <1>2, <1>3, <1>4, <1>5 DEF Next, Looper, Receive

\* Two objects of the only request for a camera are the same.
LEMMA OnlyObject ==
  ASSUME NEW c, NEW d, Request(c), Request(d), c.plug = d.plug, asked[c.plug] = 1
  PROVE  c = d
BY DEF Request, Devices

LEMMA BlockStep == IInv /\ ObjectInv /\ BlockInv /\ [Next]_vars => BlockInv'
<1> SUFFICES ASSUME IInv, ObjectInv, BlockInv, [Next]_vars PROVE BlockInv'
  OBVIOUS
<1>i. PlugInv /\ StopsForGood
  BY DEF IInv
\* Nothing is closed, no broadcast of a detachment is received.
<1>u. ASSUME UNCHANGED <<mCtrlBlocks, mUsbDevice>>, mUsbDevice = null \/ UNCHANGED asked,
             plugged \subseteq plugged', \A b \in broadcasts : b.action = "detached" => b \in broadcasts'
      PROVE  BlockInv'
  <2>1. \A d : Detached(d).action = "detached"
    BY DEF Detached
  <2> QED BY <1>u, <2>1 DEF BlockInv
<1>d. ASSUME disconnected PROVE BlockInv'
  BY <1>d DEF disconnected, BlockInv
<1>1. CASE \/ PlugIn \/ OtherDetached \/ ReaderEnds \/ UNCHANGED vars
           \/ \E d \in dialogs, yes \in BOOLEAN : AnswerDialog(d, yes)
  BY <1>1, <1>u DEF PlugIn, OtherDetached, ReaderEnds, AnswerDialog, vars, monitor, video, outside, history
<1>2. ASSUME NEW p \in plugged, Unplug(p) PROVE BlockInv'
  <2>1. /\ plugged' = plugged \ {p} /\ broadcasts \subseteq broadcasts'
        /\ Detached(Device(p, 0)) \in broadcasts'
        /\ UNCHANGED <<mCtrlBlocks, mUsbDevice, asked>>
    BY <1>2 DEF Unplug, monitor, video, history
  <2> QED BY <2>1 DEF BlockInv
<1>3. CASE Check
  <2>1. UNCHANGED <<plugged, broadcasts, mCtrlBlocks, mUsbDevice>>
    BY <1>3 DEF Check, outside, video
  <2>2. mUsbDevice = null \/ UNCHANGED asked
    BY <1>3, AsksAlone DEF Check, requestPermission
  <2> QED BY <1>u, <2>1, <2>2
<1>4. CASE onConnect
  <2>0. PICK d : d = Head(posted).device
    OBVIOUS
  <2>1. /\ UNCHANGED <<asked, plugged, broadcasts>>
        /\ mCtrlBlocks' = IF \E c \in mCtrlBlocks : c.plug = d.plug
                          THEN mCtrlBlocks ELSE mCtrlBlocks \cup {d}
        /\ UNCHANGED mUsbDevice \/ (mUsbDevice' = d /\ d.plug \in plugged)
    BY <1>4, <2>0 DEF onConnect, Connect, outside, video
  <2>2. \A c, e \in mCtrlBlocks' : c.plug = e.plug => c = e
    BY <2>1 DEF BlockInv
  <2>3. mCtrlBlocks \subseteq mCtrlBlocks' /\ \E c \in mCtrlBlocks' : c.plug = d.plug
    BY <2>1
  <2>4. CASE UNCHANGED mUsbDevice
    BY <2>1, <2>2, <2>3, <2>4 DEF BlockInv
  <2>5. CASE mUsbDevice' = d /\ d.plug \in plugged
    BY <2>1, <2>2, <2>3, <2>5 DEF BlockInv
  <2> QED BY <2>1, <2>4, <2>5
<1>5. CASE onDettach
  <2>1. disconnected \/ UNCHANGED <<asked, plugged, broadcasts, mCtrlBlocks, mUsbDevice>>
    BY <1>5 DEF onDettach, outside, monitor, video, history
  <2> QED BY <1>d, <1>u, <2>1
<1>6. ASSUME NEW b \in broadcasts, ReceivePermission(b) PROVE BlockInv'
  <2>1. /\ b.action = "permission" /\ broadcasts' = broadcasts \ {b}
        /\ UNCHANGED <<asked, plugged, mCtrlBlocks, mUsbDevice>>
    BY <1>6 DEF ReceivePermission, outside, monitor, video, history
  <2>2. \A e \in broadcasts : e.action = "detached" => e \in broadcasts'
    BY <2>1
  <2> QED BY <1>u, <2>1, <2>2
<1>7. ASSUME NEW b \in broadcasts, ReceiveDetached(b) PROVE BlockInv'
  <2> DEFINE closed == {c \in mCtrlBlocks : c.plug = b.device.plug}
  <2>1. /\ broadcasts' = broadcasts \ {b} /\ UNCHANGED <<asked, plugged>>
    BY <1>7 DEF ReceiveDetached, outside, history
  <2>2. \/ ~mUSBMonitor /\ UNCHANGED <<mCtrlBlocks, mUsbDevice>>
        \/ disconnected
        \/ /\ ~\E c \in closed : onDisconnect(c)
           /\ mCtrlBlocks' = mCtrlBlocks \ closed /\ UNCHANGED mUsbDevice
    BY <1>7 DEF ReceiveDetached, monitor, video
  <2>3. CASE ~mUSBMonitor /\ UNCHANGED <<mCtrlBlocks, mUsbDevice>>
    <3>1. mUsbDevice' = null
      BY <1>i, <2>3 DEF StopsForGood
    <3> QED BY <2>1, <2>3, <3>1 DEF BlockInv
  <2>4. CASE /\ ~\E c \in closed : onDisconnect(c)
             /\ mCtrlBlocks' = mCtrlBlocks \ closed /\ UNCHANGED mUsbDevice
    <3>1. \A c, e \in mCtrlBlocks' : c.plug = e.plug => c = e
      BY <2>4 DEF BlockInv
    <3>2. ASSUME mUsbDevice # null, asked[mUsbDevice.plug] = 1 PROVE mUsbDevice.plug # b.device.plug
      <4> SUFFICES ASSUME mUsbDevice.plug = b.device.plug PROVE FALSE
        OBVIOUS
      <4>1. PICK c \in mCtrlBlocks : c.plug = mUsbDevice.plug
        BY <3>2 DEF BlockInv
      <4>2. c = mUsbDevice
        BY <3>2, <4>1, OnlyObject DEF ObjectInv
      <4>3. onDisconnect(c)
        BY <3>2, <4>2 DEF onDisconnect, deviceIsUartVideoDevice, deviceHasConnected, ObjectInv, Request
      <4> QED BY <2>4, <4>1, <4>3
    <3>3. \A p : Detached(Device(p, 0)).device.plug = p
      BY DEF Detached, Device
    <3>4. ASSUME mUsbDevice # null, asked[mUsbDevice.plug] = 1
          PROVE  /\ \E c \in mCtrlBlocks' : c.plug = mUsbDevice.plug
                 /\ mUsbDevice.plug \notin plugged
                      => Detached(Device(mUsbDevice.plug, 0)) \in broadcasts'
      BY <2>1, <2>4, <3>2, <3>3, <3>4 DEF BlockInv
    <3> QED BY <2>1, <2>4, <3>1, <3>4 DEF BlockInv
  <2> QED BY <1>d, <2>2, <2>3, <2>4
<1> QED
  BY <1>1, <1>2, <1>3, <1>4, <1>5, <1>6, <1>7 DEF Next, Looper, Receive

LEMMA InitConnInv == Init => ConnInv
<1> SUFFICES ASSUME Init PROVE ConnInv
  OBVIOUS
<1>1. ObjectInv /\ BlockInv /\ VideoInv
  BY DEF Init, ObjectInv, BlockInv, VideoInv, OneConnection
<1>2. \A p : Dialogs(p) = {} /\ Answers(p) = {} /\ Calls(p) = {}
  BY DEF Init, Dialogs, Answers, Calls
<1>3. SingleInv
  BY <1>2 DEF SingleInv, Single, AtMostOne
<1> QED BY <1>1, <1>3 DEF ConnInv

LEMMA NextConnInv == IInv /\ ConnInv /\ [Next]_vars => ConnInv'
BY NextIInv, ObjectStep, SingleStep, VideoStep, BlockStep DEF ConnInv

-----------------------------------------------------------------------------
(* The theorems *)

\* However often cameras come and go, other devices are detached and callbacks are
\* late: once disconnected() has dropped the monitor, nothing is connected and
\* nothing plays.
THEOREM StaysStopped == Spec => []StopsForGood
<1>1. IInv => StopsForGood
  BY DEF IInv
<1> QED BY <1>1, InitIInv, NextIInv, PTL DEF Spec

LEMMA Inductive == Spec => [](IInv /\ ConnInv)
<1> QED BY InitIInv, NextIInv, InitConnInv, NextConnInv, PTL DEF Spec

\* The two guards of onAttach and onConnect compare objects, and yet a second
\* renderer or read thread needs a camera that was asked for a second time with the
\* first request still under way.
THEOREM ConnectsOnce == Spec => []OneConnection
<1>1. ConnInv => OneConnection
  BY DEF ConnInv, VideoInv
<1> QED BY <1>1, Inductive, PTL

\* onDisconnect is given the object that onConnect was as long as there is one
\* request: the connection of a camera that was pulled out ends with the broadcast.
THEOREM NoticesUnplug == Spec => []UnplugIsNoticed
<1>1. ConnInv => UnplugIsNoticed
  BY DEF ConnInv, BlockInv, UnplugIsNoticed
<1> QED BY <1>1, Inductive, PTL
\* What TypeOK says beyond the inductive invariant.
Numbers == /\ plugs <= MaxPlugs /\ others \in 0..MaxOthers
           /\ driver \in 0..MaxPlugs /\ mDeviceCounts \in 0..MaxPlugs
Connects == connect \in BOOLEAN

LEMMA NumbersStep == IInv /\ ObjectInv /\ Numbers /\ [Next]_vars => Numbers'
<1> SUFFICES ASSUME IInv, ObjectInv, Numbers, [Next]_vars PROVE Numbers'
  OBVIOUS
<1>1. MaxPlugs \in Nat /\ MaxOthers \in Nat
  BY UsbAssumption
<1>2. plugs \in Nat /\ plugged \subseteq Plugs
  BY DEF IInv, PlugInv
<1>3. Cardinality(plugged) \in 0..MaxPlugs
  <2>1. IsFiniteSet(Plugs) /\ Cardinality(Plugs) = MaxPlugs
    BY <1>1, FS_Interval DEF Plugs
  <2>2. IsFiniteSet(plugged) /\ Cardinality(plugged) <= MaxPlugs
    BY <1>2, <2>1, FS_Subset
  <2> QED BY <2>2, <1>1, FS_CardinalityType
<1>4. plugs' <= MaxPlugs /\ others' \in 0..MaxOthers
  <2>1. \/ UNCHANGED <<plugs, others>>
        \/ plugs < MaxPlugs /\ plugs' = plugs + 1 /\ UNCHANGED others
        \/ others < MaxOthers /\ others' = others + 1 /\ UNCHANGED plugs
    BY DEF Next, Looper, Receive, PlugIn, Unplug, OtherDetached, AnswerDialog, ReaderEnds, Check,
           onConnect, onDettach, ReceivePermission, ReceiveDetached, vars, outside
  <2> QED BY <1>1, <1>2, <2>1 DEF Numbers
<1>5. mDeviceCounts' \in {mDeviceCounts, 0, Cardinality(plugged)}
  BY DEF Next, Looper, Receive, PlugIn, Unplug, OtherDetached, AnswerDialog, ReaderEnds, Check,
         onConnect, onDettach, ReceivePermission, ReceiveDetached, disconnected, vars, monitor
<1>6. driver' \in {driver, 0} \/ driver' \in plugged
  BY DEF Next, Looper, Receive, PlugIn, Unplug, OtherDetached, AnswerDialog, ReaderEnds, Check,
         onConnect, Connect, openConnection, onDettach, ReceivePermission, ReceiveDetached,
         disconnected, vars, video
<1>7. mDeviceCounts' \in 0..MaxPlugs
  BY <1>1, <1>3, <1>5 DEF Numbers
<1>8. driver' \in 0..MaxPlugs
  <2>1. CASE driver' \in {driver, 0}
    BY <1>1, <2>1 DEF Numbers
  <2>2. CASE driver' \in plugged
    <3>1. driver' \in 1..MaxPlugs
      BY <1>2, <2>2 DEF Plugs
    <3> QED BY <1>1, <3>1
  <2> QED BY <1>6, <2>1, <2>2
<1> QED BY ONLY <1>4, <1>7, <1>8, MaxPlugs' = MaxPlugs, MaxOthers' = MaxOthers DEF Numbers

LEMMA ConnectsStep == Connects /\ [Next]_vars => Connects'
<1> SUFFICES ASSUME Connects, [Next]_vars PROVE Connects'
  OBVIOUS
<1>1. UNCHANGED connect \/ connect' = TRUE \/ connect' = FALSE
  BY DEF Next, Looper, Receive, PlugIn, Unplug, OtherDetached, AnswerDialog, ReaderEnds, Check,
         onConnect, Connect, openConnection, onDettach, ReceivePermission, ReceiveDetached,
         disconnected, vars, video
<1> QED BY ONLY <1>1, Connects, Zenon DEF Connects

\* Every variable keeps to its type, and the monitor never has a camera open twice.
THEOREM TypeCorrect == Spec => []TypeOK
<1>1. Init => Numbers /\ Connects
  <2> SUFFICES ASSUME Init PROVE Numbers /\ Connects
    OBVIOUS
  <2>1. MaxPlugs \in Nat /\ MaxOthers \in Nat
    BY UsbAssumption
  <2>2. IsFiniteSet(Plugs) /\ Cardinality(Plugs) = MaxPlugs
    BY <2>1, FS_Interval DEF Plugs
  <2>3. Cardinality(plugged) <= MaxPlugs
    BY <2>2, FS_Subset DEF Init
  <2>4. Numbers
    BY <2>1, <2>3 DEF Init, Numbers
  <2> QED BY <2>4 DEF Init, Connects
<1>2. IInv /\ ConnInv /\ Numbers /\ Connects => TypeOK
  <2> SUFFICES ASSUME IInv, ConnInv, Numbers, Connects PROVE TypeOK
    OBVIOUS
  <2>1. plugged \subseteq Plugs /\ plugs \in 0..MaxPlugs /\ others \in 0..MaxOthers
    BY UsbAssumption DEF IInv, PlugInv, Numbers
  <2>2. mUsbDevice = null \/ mUsbDevice.plug \in Plugs
    BY DEF ConnInv, ObjectInv, Request
  <2>3. readers \in Nat /\ renderers \in Nat
    BY DEF ConnInv, VideoInv
  <2>4. \A c, e \in mCtrlBlocks : c.plug = e.plug => c = e
    BY DEF ConnInv, BlockInv
  <2>5. \A k \in DOMAIN posted : posted[k].run \in {"connect", "dettach"}
    <3>1. posted \in Seq(Posts)
      BY DEF IInv, PostedInv
    <3>2. \A k \in DOMAIN posted : posted[k] \in Posts
      BY <3>1
    <3> QED BY <3>2 DEF Posts
  <2>6. driver \in 0..MaxPlugs /\ mDeviceCounts \in 0..MaxPlugs
    BY DEF Numbers
  <2> QED BY ONLY <2>1, <2>2, <2>3, <2>4, <2>5, <2>6, Connects DEF TypeOK, Connects
<1>3. Numbers /\ Connects /\ IInv /\ ConnInv /\ [Next]_vars => (Numbers /\ Connects)'
  BY NumbersStep, ConnectsStep DEF ConnInv
<1>4. IInv /\ ConnInv /\ Numbers /\ Connects /\ [Next]_vars => (IInv /\ ConnInv /\ Numbers /\ Connects)'
  BY <1>3, NextIInv, NextConnInv
<1> QED BY <1>1, <1>2, <1>4, InitIInv, InitConnInv, PTL DEF Spec
=============================================================================
