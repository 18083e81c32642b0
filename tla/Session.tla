------------------------------- MODULE Session -------------------------------
(***************************************************************************)
(* The conversation MainActivity has with the robot over one connection    *)
(* after another: the handshake, the loop of telemetry polls in which each *)
(* answer sends the next question, and the two groups of settings, which   *)
(* the user types and sends and whose answers are written into the same    *)
(* text fields.                                                            *)
(*                                                                         *)
(* Messages are whole (MessageStream is about how they are cut), but one   *)
(* read may find several, which the framing then loses together.  The      *)
(* robot is modelled from what analysisData expects of it.                 *)
(***************************************************************************)
EXTENDS Naturals, Sequences, FiniteSets

CONSTANTS Groups,           \* settings: the common ones, the automatic run's
          Values,           \* what can be typed into a group's fields: a number
                            \* below 4096 and a float that is zero or plus: the
                            \* fields take no sign (activity_right.xml:205-237, 366-453)
          Signs,            \* signs of the readings, from {"plus", "minus"}
          MaxInFlight,      \* bound: settings under way at once
          MaxConnections    \* bound: connections made

ASSUME SessionAssumption ==
  /\ Signs \subseteq {"plus", "minus"}
  /\ Values \subseteq [number : 0..4095, float : {"zero", "plus"}]
  /\ MaxInFlight \in Nat /\ MaxConnections \in Nat

VARIABLES
  connections,  \* how many connections have been made
  link,         \* the newest of them is open
  isConnect,    \* the client's flag: sends are not dropped
  toRobot, toApp,   \* messages under way
  uiQueue,      \* coroutines launched on Dispatchers.Main
  fields,       \* the text fields of each group
  robot,        \* the robot's settings
  seen,         \* history: telemetry was taken on this connection, to be shown
  lost,         \* history: what has gone wrong on this connection
  sentBy,       \* history: groups whose fields are as last sent on this connection
  misfit        \* history: a number above 255 or a zero float was sent on it

vars == <<connections, link, isConnect, toRobot, toApp, uiQueue, fields, robot,
          seen, lost, sentBy, misfit>>

Hello     == [kind |-> "hello"]                     \* B1 01, answered by A1 01
Poll      == [kind |-> "poll"]                      \* A1 02
Reading   == [kind : {"reading"}, sign : Signs]     \* B1 02
Setting   == [kind : {"setting"}, group : Groups, value : Values, digits : Nat]
                                                    \* A1 03, B1 03, A1 04, B1 04

\* A group one of whose fields holds no number: it is empty, as all are at first,
\* or a lone point.
Blank == [number |-> 0, float |-> "blank"]
Inputs == Values \cup {Blank}

InFlight(q, kind) == {i \in DOMAIN q : q[i].kind = kind}

Init ==
  /\ connections = 0 /\ link = FALSE /\ isConnect = FALSE
  /\ toRobot = <<>> /\ toApp = <<>> /\ uiQueue = <<>>
  /\ fields = [g \in Groups |-> Blank] /\ robot \in [Groups -> Values]
  /\ seen = FALSE /\ lost = {} /\ sentBy = {} /\ misfit = FALSE

-----------------------------------------------------------------------------
(* The connection, as NettyTcpClient makes it *)

\* The robot greets the app on every connection.
Establish ==
  /\ ~link /\ connections < MaxConnections
  /\ connections' = connections + 1
  /\ link' = TRUE /\ isConnect' = TRUE
  /\ toApp' = <<Hello>>
  /\ seen' = FALSE /\ lost' = {} /\ sentBy' = {} /\ misfit' = FALSE
  /\ UNCHANGED <<toRobot, uiQueue, fields, robot>>

Lose ==
  /\ link
  /\ link' = FALSE /\ isConnect' = FALSE
  /\ toRobot' = <<>> /\ toApp' = <<>>
  /\ UNCHANGED <<connections, uiQueue, fields, robot, seen, lost, sentBy, misfit>>

\* The failure listener of an earlier attempt runs late.
LateListener ==
  /\ link /\ isConnect
  /\ isConnect' = FALSE
  /\ UNCHANGED <<connections, link, toRobot, toApp, uiQueue, fields, robot, seen, lost, sentBy, misfit>>

\* sendData: sendMsgToServer writes to the channel or does nothing, and
\* sendTcpData does not look at which.
sendData(m) ==
  \/ isConnect /\ toRobot' = Append(toRobot, m) /\ UNCHANGED lost
  \/ ~isConnect /\ lost' = lost \cup {"send"} /\ UNCHANGED toRobot

-----------------------------------------------------------------------------
(* The app: analysisData on the event loop *)

\* Seeded fault: the handshake is not answered.
analyseHello_NoAnswer(m) ==
  /\ m = Hello
  /\ UNCHANGED <<toRobot, lost, uiQueue, seen>>

analyseHello(m) ==
  /\ m = Hello
  /\ sendData(Hello)
  /\ UNCHANGED <<uiQueue, seen>>

\* Seeded fault: the answer is shown and no next question sent.
analyseReading_NoPoll(m) ==
  /\ m.kind = "reading"
  /\ seen' = TRUE
  /\ UNCHANGED <<toRobot, lost, uiQueue>>

\* Integer.valueOf(hex, 16) throws for the eight digits of a negative float,
\* before the coroutine that shows the reading is launched and the next question
\* sent.  What that coroutine writes nobody else writes or reads.
analyseReading(m) ==
  /\ m.kind = "reading"
  /\ \/ m.sign = "plus" /\ seen' = TRUE /\ sendData(Poll)
     \/ m.sign = "minus" /\ lost' = lost \cup {"number"} /\ UNCHANGED <<toRobot, seen>>
  /\ UNCHANGED uiQueue

\* The same conversion does not throw for a setting, which is one the user typed.
analyseSetting(m) ==
  /\ m.kind = "setting"
  /\ uiQueue' = Append(uiQueue, m)
  /\ UNCHANGED <<toRobot, lost, seen>>

\* One read finds one message.
Receive ==
  /\ toApp # <<>>
  /\ toApp' = Tail(toApp)
  /\ \/ analyseHello(Head(toApp)) \/ analyseReading(Head(toApp)) \/ analyseSetting(Head(toApp))
  /\ UNCHANGED <<connections, link, isConnect, fields, robot, sentBy, misfit>>

\* One read finds several: the chunk starts with B1 and ends with 0D0A, and no
\* message has its length.
ReceiveSticky ==
  /\ \E n \in 2..Len(toApp) : toApp' = SubSeq(toApp, n + 1, Len(toApp))
  /\ lost' = lost \cup {"sticky"}
  /\ UNCHANGED <<connections, link, isConnect, toRobot, uiQueue, fields, robot, seen, sentBy, misfit>>

\* The main thread runs the oldest coroutine, which writes the answer into the
\* text fields over whatever the user has typed.
ShowSetting ==
  /\ uiQueue # <<>>
  /\ fields' = [fields EXCEPT ![Head(uiQueue).group] = Head(uiQueue).value]
  /\ uiQueue' = Tail(uiQueue)
  /\ UNCHANGED <<connections, link, isConnect, toRobot, toApp, robot, seen, lost, sentBy, misfit>>

-----------------------------------------------------------------------------
(* A settings frame, by the number of its hexadecimal digits; header and     *)
(* checksum, which always have theirs, are not counted.                      *)

\* Integer.toHexString
HexDigits(n) == IF n < 16 THEN 1 ELSE IF n < 256 THEN 2 ELSE 3

\* Seeded fault: a short number is left short.
addZeroForNum_None(digits, strLength) == digits

\* Zeros in front; a number that is longer already stays as long.
addZeroForNum(digits, strLength) == IF digits < strLength THEN strLength ELSE digits

\* The bits of a float as toHexString writes them: those of 0.0 are one zero.
singleToHex(float) == IF float = "zero" THEN 1 ELSE 8

FrameDigits(v) == addZeroForNum(HexDigits(v.number), 2) + singleToHex(v.float)

\* What the robot takes for two digits of number and eight of float.  A frame of
\* another length it ignores, and one with an odd number of digits, which gets a
\* zero in front, does not begin with a header.
Expected == 10

-----------------------------------------------------------------------------
(* The user *)

Type(g, v) ==
  /\ fields' = [fields EXCEPT ![g] = v]
  /\ sentBy' = sentBy \ {g}
  /\ UNCHANGED <<connections, link, isConnect, toRobot, toApp, uiQueue, robot, seen, lost, misfit>>

\* Settings on their way to the robot, back, or to the text fields.
Settings ==
  Len(uiQueue) + Cardinality(InFlight(toRobot, "setting")) + Cardinality(InFlight(toApp, "setting"))

\* sendControllerData and btnSettingParam.
SendSettings(g) ==
  /\ fields[g] # Blank /\ Settings < MaxInFlight
  /\ sendData([kind |-> "setting", group |-> g, value |-> fields[g],
               digits |-> FrameDigits(fields[g])])
  /\ sentBy' = sentBy \cup {g}
  /\ misfit' = (misfit \/ fields[g].number > 255 \/ fields[g].float = "zero")
  /\ UNCHANGED <<connections, link, isConnect, toApp, uiQueue, fields, robot, seen>>

\* toInt() or toFloat() of such a field throws on the main thread before anything
\* is sent: the app ends with its connection and coroutines, and is started anew.
SendEmpty(g) ==
  /\ fields[g] = Blank
  /\ link' = FALSE /\ isConnect' = FALSE
  /\ toRobot' = <<>> /\ toApp' = <<>> /\ uiQueue' = <<>>
  /\ fields' = [h \in Groups |-> Blank]
  /\ UNCHANGED <<connections, robot, seen, lost, sentBy, misfit>>

-----------------------------------------------------------------------------
(* The robot *)

\* The first reading comes unasked, or never: the app asks for none before it has
\* had one.
AnswerHello ==
  /\ toRobot # <<>> /\ Head(toRobot) = Hello
  /\ \/ \E r \in Reading : toApp' = Append(toApp, r) /\ UNCHANGED lost
     \/ lost' = lost \cup {"silent"} /\ UNCHANGED toApp
  /\ UNCHANGED robot

AnswerPoll ==
  /\ toRobot # <<>> /\ Head(toRobot) = Poll
  /\ \E r \in Reading : toApp' = Append(toApp, r)
  /\ UNCHANGED <<robot, lost>>

AnswerSetting ==
  /\ toRobot # <<>> /\ Head(toRobot).kind = "setting"
  /\ IF Head(toRobot).digits = Expected
     THEN /\ robot' = [robot EXCEPT ![Head(toRobot).group] = Head(toRobot).value]
          /\ toApp' = Append(toApp, Head(toRobot))
     ELSE UNCHANGED <<robot, toApp>>
  /\ UNCHANGED lost

Answer ==
  /\ AnswerHello \/ AnswerPoll \/ AnswerSetting
  /\ toRobot' = Tail(toRobot)
  /\ UNCHANGED <<connections, link, isConnect, uiQueue, fields, seen, sentBy, misfit>>

-----------------------------------------------------------------------------
Next ==
  \/ Establish \/ Lose \/ LateListener
  \/ Receive \/ ReceiveSticky \/ ShowSetting \/ Answer
  \/ \E g \in Groups : SendSettings(g) \/ SendEmpty(g) \/ \E v \in Inputs : Type(g, v)

Spec == Init /\ [][Next]_vars

\* The robot answers, the event loop reads, the main thread runs coroutines.
FairSpec == Spec /\ WF_vars(Answer) /\ WF_vars(Receive \/ ReceiveSticky) /\ WF_vars(ShowSetting)

-----------------------------------------------------------------------------
(* Properties *)

\* The variables have their types.
TypeOK ==
  /\ connections \in 0..MaxConnections
  /\ link \in BOOLEAN /\ isConnect \in BOOLEAN /\ seen \in BOOLEAN
  /\ toRobot \in Seq({Hello, Poll} \cup Setting)
  /\ toApp \in Seq({Hello} \cup Reading \cup Setting)
  /\ uiQueue \in Seq(Setting)
  /\ fields \in [Groups -> Inputs] /\ robot \in [Groups -> Values]
  /\ lost \subseteq {"send", "number", "sticky", "silent"}
  /\ sentBy \subseteq Groups /\ misfit \in BOOLEAN

\* There is one poll: no two questions or answers are ever under way together,
\* and once telemetry has been taken the question or its answer is under way
\* for as long as nothing is lost.  Nothing else keeps the display alive.
OnePoll ==
  LET polls    == InFlight(toRobot, "poll")
      readings == InFlight(toApp, "reading")
  IN /\ \A i, j \in polls : i = j
     /\ \A i, j \in readings : i = j
     /\ polls = {} \/ readings = {}
     /\ link /\ seen /\ lost = {} => polls \cup readings # {}

\* When everything sent has been answered and shown and nothing was lost, the
\* fields of a group the user has not typed in since it was sent show what the
\* robot has, however answers and typing were interleaved, unless a number above
\* 255 or a zero float was sent: such a frame never reaches the robot's settings,
\* and the answer to an earlier one replaces what was typed
\* (MainActivity.kt:190-199, 214-227, 375, 401).
SettingsAgree ==
  link /\ lost = {} /\ ~misfit /\ uiQueue = <<>>
       /\ InFlight(toRobot, "setting") = {} /\ InFlight(toApp, "setting") = {}
    => \A g \in sentBy : fields[g] = robot[g]

\* "定时读取", read at regular times: a connection on which nothing goes wrong
\* comes to take telemetry and to launch the coroutine that shows it.
TelemetryIsShown ==
  (link /\ lost = {}) ~> (seen \/ ~link \/ lost # {})

\* A reading that arrives is followed by another one, unless something is lost.
PollGoesOn ==
  (link /\ seen /\ lost = {})
    ~> (InFlight(toApp, "reading") # {} \/ ~link \/ lost # {})

\* The telemetry of a connection is a PollLoop: whoever has its one question or
\* answer under way, among the settings, has the turn.
turn == IF ~link THEN "down"
        ELSE IF InFlight(toRobot, "hello") \cup InFlight(toRobot, "poll") # {} THEN "robot"
        ELSE IF InFlight(toApp, "hello") \cup InFlight(toApp, "reading") # {} THEN "app"
        ELSE "dropped"

Loop == INSTANCE PollLoop WITH shown <- seen, trouble <- lost # {}

ImplementsPollLoop == Loop!LoopSpec
=============================================================================
