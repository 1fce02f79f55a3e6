---------------------------- MODULE CandleCycle -----------------------------
(***************************************************************************)
(* What the machine promises its user, without motors, fans, interrupts or *)
(* a controller's program: the order of the stages of a candle, when the   *)
(* heater may come on, and when the door may open.  StateMachine is        *)
(* checked to implement it.                                                *)
(***************************************************************************)

VARIABLES
    stage,   \* how far the candle is
    heat,    \* the heater is on
    locked   \* the door is locked

cycleVars == <<stage, heat, locked>>

Stages == {"off", "idle", "ready", "cook", "cool", "done", "stopped"}

Init ==
    /\ stage = "off"
    /\ heat = FALSE
    /\ locked = FALSE

PowerUp == stage = "off" /\ stage' = "idle" /\ UNCHANGED <<heat, locked>>

\* The door is locked before the machine gets ready to heat, never later.
Lock == stage = "idle" /\ locked' = TRUE /\ UNCHANGED <<stage, heat>>

GetReady == stage = "idle" /\ locked /\ stage' = "ready" /\ UNCHANGED <<heat, locked>>

\* The only step that turns the heater on.
StartCooking ==
    /\ stage = "ready" /\ stage' = "cook"
    /\ heat' = TRUE
    /\ UNCHANGED locked

\* The heater may be cut at any time.
HeatOff == heat' = FALSE /\ UNCHANGED <<stage, locked>>

\* The wick goes in with the heater off.
StartCooling ==
    /\ stage = "cook" /\ stage' = "cool"
    /\ heat' = FALSE
    /\ UNCHANGED locked

Finish == stage = "cool" /\ stage' = "done" /\ UNCHANGED <<heat, locked>>

\* The only step that unlocks the door.
Unlock ==
    /\ stage = "done" /\ ~heat
    /\ locked' = FALSE
    /\ UNCHANGED <<stage, heat>>

BackToIdle == stage = "done" /\ stage' = "idle" /\ UNCHANGED <<heat, locked>>

\* An emergency stop may also cut the heater; it leaves the door as it is.
Stop ==
    /\ stage \in {"idle", "ready", "cook", "cool", "done"}
    /\ stage' = "stopped"
    /\ heat' \in {heat, FALSE}
    /\ UNCHANGED locked

Reset == stage = "stopped" /\ stage' = "idle" /\ UNCHANGED <<heat, locked>>

Next ==
    \/ PowerUp \/ Lock \/ GetReady \/ StartCooking \/ HeatOff \/ StartCooling
    \/ Finish \/ Unlock \/ BackToIdle \/ Stop \/ Reset

Spec == Init /\ [][Next]_cycleVars

=============================================================================
