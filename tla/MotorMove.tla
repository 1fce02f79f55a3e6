----------------------------- MODULE MotorMove ------------------------------
(***************************************************************************)
(* The motor service as its one caller sees it: what StateMachine takes    *)
(* src/src/motors.c for when the SPI bus does not fail.  The caller asks   *)
(* for a move, waits, and goes on when the motor has made it in full;      *)
(* motor_move never refuses a motor that exists.                           *)
(***************************************************************************)
EXTENDS Integers

CONSTANT m  \* a motor

VARIABLES
    job,  \* the move that the caller waits for, of this motor or another
    pos   \* the net steps of motor m, of the moves that are over

vars == <<job, pos>>

NoJob == [id |-> 0, steps |-> 0]

Init == job = NoJob /\ pos = 0

Ask ==
    /\ job = NoJob
    /\ job' \in [id : Int, steps : Int]
    /\ UNCHANGED pos

Made ==
    /\ job # NoJob
    /\ job' = NoJob
    /\ pos' = IF job.id = m THEN pos + job.steps ELSE pos

Next == Ask \/ Made

Spec == Init /\ [][Next]_vars

=============================================================================
