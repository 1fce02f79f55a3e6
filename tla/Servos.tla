------------------------------- MODULE Servos -------------------------------
(***************************************************************************)
(* src/src/servos.c: the door servo, the wick servo and the through-beam   *)
(* interrupt that tells that the wick has dropped, by way of a message     *)
(* queue of one message.                                                   *)
(***************************************************************************)
EXTENDS Integers, Zephyr

VARIABLES
    door_servo,   \* pulse width commanded to the door servo, 0 before the first
    wick_servo,   \* the same for the wick servo
    wick_msgq,    \* number of messages in the queue
    wick_run      \* history: "no" outside move_wick_servo, in it whether the
                  \* beam has broken since the queue was purged

servosVars == <<door_servo, wick_servo, wick_msgq, wick_run>>

LOCKED    == 1000
UNLOCKED  == 2000
WICK_TURN == 1500   \* "start continuous rotation"
WICK_STOP == 1500   \* "stopped for continuous rotation"

ServosTypeOK ==
    /\ door_servo \in {0, LOCKED, UNLOCKED}
    /\ wick_servo \in {0, WICK_TURN, WICK_STOP}
    /\ wick_msgq \in {0, 1}
    /\ wick_run \in {"no", "waiting", "dropped"}

ServosInit ==
    /\ door_servo = 0
    /\ wick_servo = 0
    /\ wick_msgq = 0
    /\ wick_run = "no"

-----------------------------------------------------------------------------
\* The beam broke.  The debounce of 1 ms may find it whole again; a full queue
\* drops the message (K_NO_WAIT).
thru_beam_isr ==
    /\ wick_msgq' = 1
    /\ wick_run' = IF wick_run = "no" THEN "no" ELSE "dropped"
    /\ UNCHANGED <<door_servo, wick_servo>>

-----------------------------------------------------------------------------
(* Door. *)

door_lock(ok)   == door_servo' = IF ok THEN LOCKED ELSE door_servo
door_unlock(ok) == door_servo' = IF ok THEN UNLOCKED ELSE door_servo

-----------------------------------------------------------------------------
(* move_wick_servo, cut where an interrupt or another thread can come in. *)

\* Mutant: old messages stay in the queue.
PurgeWickQueue_Skipped ==
    /\ wick_run' = "waiting"
    /\ UNCHANGED <<door_servo, wick_servo, wick_msgq>>

\* Lines up to the end of the purging loop.
PurgeWickQueue ==
    /\ wick_msgq' = 0
    /\ wick_run' = "waiting"
    /\ UNCHANGED <<door_servo, wick_servo>>

StartWickServo(ok) ==
    /\ wick_servo' = IF ok THEN WICK_TURN ELSE wick_servo
    /\ wick_run' = IF ok THEN wick_run ELSE "no"
    /\ UNCHANGED <<door_servo, wick_msgq>>

\* k_msgq_get(.., K_FOREVER): waits until there is a message and takes it.
TakeWickMessage ==
    /\ wick_msgq = 1
    /\ wick_msgq' = 0
    /\ UNCHANGED <<door_servo, wick_servo, wick_run>>

\* After the extra rotations; the result of the call is not looked at.
StopWickServo(ok) ==
    /\ wick_servo' = IF ok THEN WICK_STOP ELSE wick_servo
    /\ wick_run' = "no"
    /\ UNCHANGED <<door_servo, wick_msgq>>

=============================================================================
