------------------------------ MODULE MCMotors ------------------------------
(* Values of the constants of Motors for TLC. *)
EXTENDS Motors

CONSTANTS c1, c2

MCCallers == {c1, c2}
OneStopper == {c1}
NoStoppers == {}
NoFaults == {}

\* There and back, another motor, and a speed that is refused.
MCRequests == {[id |-> 1, steps |-> 1, speed_hz |-> 10000],
               [id |-> 1, steps |-> -1, speed_hz |-> 1],
               [id |-> 2, steps |-> 1, speed_hz |-> 100],
               [id |-> 2, steps |-> 1, speed_hz |-> 10001]}

=============================================================================
