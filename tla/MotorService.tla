---------------------------- MODULE MotorService ----------------------------
(***************************************************************************)
(* What src/src/motors.c promises of one motor to the callers of           *)
(* motor_move: a move is made once, in its direction and not beyond its    *)
(* last step, a new move is taken only when the one before is made, and    *)
(* the last caller to leave leaves when nothing is owed.  With a bus that  *)
(* fails, steps may be lost, never added.                                  *)
(***************************************************************************)
EXTENDS Integers

CONSTANTS
    Users,     \* who may ask for a move
    Lossless   \* the SPI bus never fails

VARIABLES
    clients,  \* the callers whose move was accepted and who have not left
    owed,     \* the steps still to be made, with their direction
    pos,      \* the net steps made
    void      \* a stop has begun: nothing is promised any more

vars == <<clients, owed, pos, void>>

Init ==
    /\ clients = {}
    /\ owed = 0
    /\ pos = 0
    /\ void = FALSE

\* x lies between 0 and a.
Between(x, a) == (a >= x /\ x >= 0) \/ (a <= x /\ x <= 0)

\* Some caller's move is accepted.
Accept ==
    /\ ~void
    /\ owed = 0
    /\ \E c \in Users \ clients : clients' = clients \union {c}
    /\ owed' \in Int
    /\ UNCHANGED <<pos, void>>

\* Some of the steps owed are made; or lost, if the bus may fail.
Turn ==
    /\ ~void
    /\ Between(owed', owed)
    /\ IF Lossless THEN pos' - pos = owed - owed'
                   ELSE Between(pos' - pos, owed - owed')
    /\ UNCHANGED <<clients, void>>

\* A caller leaves; if it is the only one, its move is over.
Return ==
    /\ ~void
    /\ \E c \in clients : clients' = clients \ {c}
    /\ owed = 0 \/ clients' # {}
    /\ UNCHANGED <<owed, pos, void>>

Stop == void'

Next == Accept \/ Turn \/ Return \/ Stop

Spec == Init /\ [][Next]_vars

=============================================================================
