------------------------------ MODULE MCSession ------------------------------
(* Values of Session's constants for model checking. *)
EXTENDS Session

\* Each kind of number and of float: two that fit their frame, one of which needs a
\* zero in front, and two that do not.
MCValues == {[number |-> 5, float |-> "plus"], [number |-> 200, float |-> "plus"],
             [number |-> 300, float |-> "plus"], [number |-> 200, float |-> "zero"]}
=============================================================================
