----------------------------- MODULE LedControl -----------------------------
(***************************************************************************)
(* util/thread/BaseThread.kt: every toggle of the searchlight switch       *)
(* starts a thread that opens a socket of its own to the LED controller,   *)
(* writes one command and closes it.  The threads share the field pw, the  *)
(* PrintWriter the command is written to, and nothing orders them.         *)
(*                                                                         *)
(* Thread, socket, writer and command i belong to toggle i.  A Socket()    *)
(* that throws is tried again after a second and changes nothing, so it is *)
(* no step of its own.                                                     *)
(***************************************************************************)
EXTENDS Naturals, Sequences

CONSTANT MaxToggles     \* bound: toggles of the switch

ASSUME ToggleAssumption == MaxToggles \in Nat

Toggles == 1..MaxToggles

VARIABLES
  toggled,      \* how often the switch has been toggled
  pc,           \* where the thread of each toggle is
  pw,           \* the shared field: the newest writer made, 0 for null
  buffer,       \* per writer, the commands not flushed
  open,         \* the sockets that are open
  wire,         \* per socket, the commands on their way
  applied,      \* the commands the controller has obeyed, oldest first
  overlapped    \* history: a toggle came before the one before was obeyed

vars == <<toggled, pc, pw, buffer, open, wire, applied, overlapped>>

Init ==
  /\ toggled = 0 /\ pc = [i \in Toggles |-> "unused"] /\ pw = 0
  /\ buffer = [i \in Toggles |-> <<>>] /\ open = {} /\ wire = [i \in Toggles |-> <<>>]
  /\ applied = <<>> /\ overlapped = FALSE

Goto(i, from, to) == pc[i] = from /\ pc' = [pc EXCEPT ![i] = to]

\* The change listener of the switch, and ManController.
Toggle(i) ==
  /\ i = toggled + 1
  /\ toggled' = i
  /\ Goto(i, "unused", "connect")
  /\ overlapped' = (overlapped \/ Len(applied) # toggled)
  /\ UNCHANGED <<pw, buffer, open, wire, applied>>

\* Socket() returns.
Connect(i) ==
  /\ Goto(i, "connect", "writer")
  /\ open' = open \cup {i}
  /\ UNCHANGED <<toggled, pw, buffer, wire, applied, overlapped>>

\* pw = PrintWriter(…)
MakeWriter(i) ==
  /\ Goto(i, "writer", "write")
  /\ pw' = i
  /\ UNCHANGED <<toggled, buffer, open, wire, applied, overlapped>>

\* pw?.write(LEDState): on the writer that is in the field now.
Write(i) ==
  /\ Goto(i, "write", "flush")
  /\ buffer' = [buffer EXCEPT ![pw] = Append(@, i)]
  /\ UNCHANGED <<toggled, pw, open, wire, applied, overlapped>>

\* Seeded fault: the writer is never flushed.
Flush_Nothing(i) ==
  /\ Goto(i, "flush", "close")
  /\ UNCHANGED <<toggled, pw, buffer, open, wire, applied, overlapped>>

\* pw?.flush(): a PrintWriter whose socket is closed swallows the error and
\* what it held.
Flush(i) ==
  /\ Goto(i, "flush", "close")
  /\ buffer' = [buffer EXCEPT ![pw] = <<>>]
  /\ wire' = IF pw \in open THEN [wire EXCEPT ![pw] = @ \o buffer[pw]] ELSE wire
  /\ UNCHANGED <<toggled, pw, open, applied, overlapped>>

\* Seeded fault: an exception after the command was sent starts the loop again.
Close_Retries(i) ==
  /\ \/ Goto(i, "close", "done") /\ open' = open \ {i}
     \/ Goto(i, "close", "connect") /\ UNCHANGED open
  /\ UNCHANGED <<toggled, pw, buffer, wire, applied, overlapped>>

\* shutdownInput() and close().  If the first throws, the catch block sleeps and
\* the loop ends, for socket is not null: the socket stays open.
Close(i) ==
  /\ Goto(i, "close", "done")
  /\ open' \in {open, open \ {i}}
  /\ UNCHANGED <<toggled, pw, buffer, wire, applied, overlapped>>

\* The controller obeys what has reached it; nothing orders two sockets.
Obey(i) ==
  /\ wire[i] # <<>>
  /\ applied' = Append(applied, Head(wire[i]))
  /\ wire' = [wire EXCEPT ![i] = Tail(@)]
  /\ UNCHANGED <<toggled, pc, pw, buffer, open, overlapped>>

Step(i) == Connect(i) \/ MakeWriter(i) \/ Write(i) \/ Flush(i) \/ Close(i)

Next == \E i \in Toggles : Toggle(i) \/ Step(i) \/ Obey(i)

Spec == Init /\ [][Next]_vars

\* Threads run, the controller can be reached and reads its sockets.
FairSpec == Spec /\ \A i \in Toggles : WF_vars(Step(i)) /\ WF_vars(Obey(i))

-----------------------------------------------------------------------------
(* Properties *)

Commands(s) == {s[k] : k \in DOMAIN s}

TypeOK ==
  /\ toggled \in 0..MaxToggles /\ pw \in 0..MaxToggles
  /\ pc \in [Toggles -> {"unused", "connect", "writer", "write", "flush", "close", "done"}]
  /\ buffer \in [Toggles -> Seq(Toggles)] /\ wire \in [Toggles -> Seq(Toggles)]
  /\ open \subseteq {i \in Toggles : pc[i] \notin {"unused", "connect"}}
  /\ applied \in Seq(Toggles) /\ overlapped \in BOOLEAN

\* A command is written once and obeyed at most once, whichever writer it went
\* to: the places that hold commands never hold one twice.
ObeyedOnce ==
  /\ \A k, l \in DOMAIN applied : applied[k] = applied[l] => k = l
  /\ \A i \in Toggles :
       Commands(applied) \cap (Commands(buffer[i]) \cup Commands(wire[i])) = {}

\* Toggles that wait for the light lose nothing and change nothing's order.
LoneTogglesObeyed ==
  ~overlapped => applied \in {[i \in 1..toggled |-> i], [i \in 1..(toggled - 1) |-> i]}

\* Such a toggle always reaches the light, once the controller can be reached.
LoneToggleReachesLight ==
  \A i \in Toggles :
    (toggled = i /\ ~overlapped) ~> (overlapped \/ i \in Commands(applied))
=============================================================================
