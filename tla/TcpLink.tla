------------------------------- MODULE TcpLink -------------------------------
(***************************************************************************)
(* What NettyTcpClient promises about the wire, whatever its threads and   *)
(* event loops do: there is one link to the robot, it is dialled, comes up *)
(* or is refused, and it is down again before the next one is dialled.  A  *)
(* link is numbered by the dial that made it.                              *)
(***************************************************************************)
EXTENDS Naturals

CONSTANT MaxDials       \* bound on the dials of one life of the client

VARIABLES dials,        \* how many links have been dialled
          state         \* "down", "dialling" or "up": the link now

linkVars == <<dials, state>>

LinkInit == dials = 0 /\ state = "down"

Dial == /\ state = "down"
        /\ dials < MaxDials
        /\ dials' = dials + 1
        /\ state' = "dialling"

Establish == state = "dialling" /\ state' = "up" /\ UNCHANGED dials

Fail == state = "dialling" /\ state' = "down" /\ UNCHANGED dials

Lose == state = "up" /\ state' = "down" /\ UNCHANGED dials

LinkNext == Dial \/ Establish \/ Fail \/ Lose

LinkSpec == LinkInit /\ [][LinkNext]_linkVars
=============================================================================
