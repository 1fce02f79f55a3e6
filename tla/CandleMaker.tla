---------------------------- MODULE CandleMaker -----------------------------
(***************************************************************************)
(* What the candle maker's firmware is meant to guarantee, stated about    *)
(* StateMachine.  Properties first, then statements of the repository's    *)
(* comments and docs that the code does not keep.                          *)
(***************************************************************************)
EXTENDS StateMachine

\* The type of every variable; INIT_CHECK's counter (src/src/stateMachine.c:233)
\* never passes the number of polls it grants.
TypeOK ==
    /\ HeatingTypeOK
    /\ SensorsTypeOK
    /\ ServosTypeOK
    /\ CoolingTypeOK
    /\ pc \in Pcs
    /\ current \in States
    /\ wash_cycle \in BOOLEAN
    /\ timeout_count \in 0..DoorTimeout
    /\ job \in [id : 0..4, steps : Int]
    /\ err \in {0, -1}
    /\ screw \in Int
    /\ lost \in 0..MaxLost
    /\ preempted \in BOOLEAN
    /\ fresh_press \in BOOLEAN

-----------------------------------------------------------------------------
(* Safety, whatever drivers fail. *)

\* The heater is never on behind a door that is not locked: not after a failed
\* heater write in ESTOP, not after a door that would not lock, not after an
\* over-temperature in any state (stateMachine.c:242-247, 329-334, 367, 385).
HeaterBehindLockedDoor == heating_pin => door_servo = LOCKED

\* Outside STIRRING the stirrer is raised but for the steps that the SPI bus has
\* lost: nothing else, and no e-stop, which is looked at only between two states,
\* leaves it in the wax (stateMachine.c:308-321, motors.c:375-383).
StirrerRaised == current # "STIRRING" => screw \in -lost..lost

\* The wick servo is stopped for a wick that dropped in this very run of
\* move_wick_servo, not for a message left from before (servos.c:119-123).
FreshWick == pc = "wick_extra" => wick_run = "dropped"

\* The door is not unlocked while the e-stop flag is up (stateMachine.c:168).
NoUnlockDuringEstop ==
    [][door_servo' = UNLOCKED /\ door_servo # UNLOCKED => ~estop_flag]_vars

\* The stage of the candle that main's state stands for.
StageOf(state) ==
    CASE state \in {"IDLE", "WASH_CYCLE", "INIT_CHECK"} -> "idle"
      [] state = "HEATING" -> "ready"
      [] state \in {"WAX_DISPENSE", "WAIT_FOR_TEMP", "SCENT_DISPENSE", "STIRRING"}
             -> "cook"
      [] state = "WICK_INSERT" -> IF pc = "loop" THEN "cook" ELSE "cool"
      [] state = "COOLING" -> "cool"
      [] state = "ENDSTATE" -> "done"
      [] state = "ESTOP" -> "stopped"

CycleStage ==
    IF pc \in {"boot", "motor_init", "door_lock_init", "sensors_init", "exited"}
    THEN "off" ELSE StageOf(current)

Cycle == INSTANCE CandleCycle WITH
            stage <- CycleStage, heat <- heating_pin, locked <- door_servo = LOCKED

\* The firmware implements the abstract candle cycle: stages in order, heat
\* only once the door is locked, the door opened only at the end with the
\* heater off (stateMachine.c:174-398 and heating.c:78-86).
CycleSpec == Cycle!Spec

\* Where main is blocked in a move of the lead screw.
ScrewService == INSTANCE MotorService WITH
    Users <- {"main"}, Lossless <- "spi" \notin Faults,
    clients <- IF pc \in {"screw_down", "screw_up"} THEN {"main"} ELSE {},
    owed <- IF job.id = LEAD_SCREW_ID THEN job.steps ELSE 0,
    pos <- screw,
    void <- FALSE

\* Main uses the lead screw as Motors serves it: it asks for a move only when none
\* is owed and goes on only when none is any more; on a bus that does not fail the
\* move has then been made in full, else up to the steps lost (stateMachine.c:312-318,
\* motors.c:319, 375-383).
ScrewSpec == ScrewService!Spec

-----------------------------------------------------------------------------
(* Safety when the drivers that it takes do not fail. *)

\* The heater is on only from the end of HEATING until the target temperature
\* is reached or an e-stop is served (stateMachine.c:256, 286, 385).
HeaterConfined == heating_pin => current \in {"WAX_DISPENSE", "WAIT_FOR_TEMP"}

\* When the flag is up the heater is off, but for one window: main ran HEATING
\* between the thread's cut of the pin and its raising of the flag, and has not
\* yet looked at the flag again (heating.c:82-83, stateMachine.c:168, 256).
HeaterRearmWindow ==
    estop_flag /\ heating_pin => current = "WAX_DISPENSE" /\ pc = "loop"

\* The fans turn only while the wick is inserted and while the candle cools
\* (stateMachine.c:336, 357, 386).
FansConfined ==
    (\E f \in Fans : fan_pwm[f] > 0) => current \in {"WICK_INSERT", "COOLING"}

-----------------------------------------------------------------------------
(* Liveness when the drivers that it takes do not fail. *)

\* The points where main waits for the user or for the wick, without a bound.
UserWaits == {"idle_wait", "wash_wait", "estop_wait", "wick_wait"}

\* Once the thread has seen a sample above the limit the heater goes off, and
\* even if main turns it back on before the flag is up it goes off again
\* (heating.c:81-84, stateMachine.c:168, 256, 385).
OvertempCutsHeater == (temp_pc # "sample" /\ heating_pin) ~> ~heating_pin

\* A raised flag brings main to ESTOP, unless main first comes to a place where
\* it waits for the user or for the wick (stateMachine.c:168-171).
EstopReached ==
    (estop_flag /\ pc # "exited") ~> (current = "ESTOP" \/ pc \in UserWaits)

\* Main is never stuck inside a state, be it in a motor move or polling the
\* door: it comes back to the loop or waits for someone (motors.c:319, 396,
\* stateMachine.c:230-238).
MainComesBack == []<>(pc \in UserWaits \union {"loop", "exited"})

-----------------------------------------------------------------------------
(* What comments and docs say and the code does not do. *)

\* README.rst:49 "IDLE - Waiting for button press (short = normal cycle, long =
\* wash)": the press that ends the wait in IDLE decides by its own length.
LatestPress == IF is_pressed THEN press_len ELSE press_duration_ms
PressDecides ==
    [][/\ pc \in {"idle_read", "idle_reread"}
       /\ pc' = "loop"
       => current' = IF LatestPress > 2000 THEN "WASH_CYCLE" ELSE "INIT_CHECK"]_vars

\* stateMachine.c:202 "wait for user to press the start button again" and
\* stateMachine.c:389 "Press button to reset": a press that begins in the wait.
WaitsForNewPress ==
    [][pc' # pc /\ pc \in {"wash_wait", "estop_wait"} => fresh_press]_vars

\* stateMachine.c:221 "if door closed, lock door".
LocksOnlyClosedDoor ==
    [][pc' = "lock_settle" /\ pc # "lock_settle" => door_closed']_vars

\* README.rst:68 "Closed-loop fan speed control via PWM adjustment": while the
\* candle cools the tach thread is in its monitoring loop.
FansAreMonitored == pc = "cooling_sleep" => tach_pc # "pend"

\* nucleo_f446re.overlay:237-267 "scent dispensing motor", "stirring motor", "wax
\* dispensing motor", "lead screw motor": each state moves the driver that is wired
\* for it, 1 scent, 2 stirring, 3 wax, 4 lead screw.
MovesTheRightDriver ==
    job # NoJob =>
        job.id \in CASE current \in {"WASH_CYCLE", "SCENT_DISPENSE"} -> {1}
                     [] current = "WAX_DISPENSE" -> {3}
                     [] current = "STIRRING" -> {2, 4}
                     [] OTHER -> {}

\* README.rst:163 "E-stop doesn't abort active motors - Only prevents new
\* operations from starting".
NoMoveStartsWhenFlagged ==
    [][job = NoJob /\ job' # NoJob => ~estop_flag]_vars

=============================================================================
