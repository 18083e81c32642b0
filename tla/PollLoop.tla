------------------------------ MODULE PollLoop ------------------------------
(***************************************************************************)
(* What the telemetry of a connection is, whatever else is sent on it: a   *)
(* turn that app and robot hand to each other.  The app takes its turn to  *)
(* greet or to show a reading and ask for the next one, the robot to       *)
(* answer.  The turn is dropped only with trouble, and once it is dropped  *)
(* nothing takes it up again: the next connection starts a new one.        *)
(***************************************************************************)

VARIABLES turn,       \* "app", "robot", "dropped", or "down" without connection
          shown,      \* telemetry was shown on this connection
          trouble     \* something has gone wrong on it

loopVars == <<turn, shown, trouble>>

LoopInit == turn = "down" /\ shown = FALSE /\ trouble = FALSE

Connect == turn = "down" /\ turn' = "app" /\ shown' = FALSE /\ trouble' = FALSE

Disconnect == turn # "down" /\ turn' = "down" /\ UNCHANGED <<shown, trouble>>

\* No greeting comes after a reading.
Greet == turn = "app" /\ ~shown /\ turn' = "robot" /\ UNCHANGED <<shown, trouble>>

ShowAndAsk == turn = "app" /\ turn' = "robot" /\ shown' = TRUE /\ UNCHANGED trouble

RobotTurn == turn = "robot" /\ turn' = "app" /\ UNCHANGED <<shown, trouble>>

\* The app does not pass the turn on: it fails to show what it was told, does not
\* see it in a read that holds more, or what it sends is not sent.
AppDrops == turn = "app" /\ turn' = "dropped" /\ shown' \in {shown, TRUE} /\ trouble' = TRUE

\* The robot answers every question, but may let a greeting pass.
RobotDrops == turn = "robot" /\ ~shown /\ turn' = "dropped" /\ trouble' = TRUE /\ UNCHANGED shown

\* Something else goes wrong.
Trouble == trouble' = TRUE /\ UNCHANGED <<turn, shown>>

LoopNext == \/ Connect \/ Disconnect \/ Greet \/ ShowAndAsk \/ RobotTurn
            \/ AppDrops \/ RobotDrops \/ Trouble

LoopSpec == LoopInit /\ [][LoopNext]_loopVars
=============================================================================
