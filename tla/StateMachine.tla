---------------------------- MODULE StateMachine ----------------------------
(***************************************************************************)
(* src/src/stateMachine.c: main(), composed with the parts it drives.      *)
(*                                                                         *)
(* One action is one stretch of main between two places where it sleeps or *)
(* waits; main has the highest priority, so no other thread comes in       *)
(* between.  Where an interrupt handler matters inside such a stretch the  *)
(* stretch is cut and `MainRuns` keeps the other threads out.              *)
(*                                                                         *)
(* The motor service (src/src/motors.c) is seen through motor_move: it     *)
(* refuses a motor that does not exist, and otherwise blocks main until    *)
(* the motor thread is done with the move; the steps that a failing SPI    *)
(* bus has lost by then are nowhere noticed.                               *)
(***************************************************************************)
EXTENDS Heating, Sensors, Servos, Cooling

CONSTANTS
    FirstMotor,    \* the number MOTOR_1 stands for
    DoorTimeout,   \* the polls of the door INIT_CHECK grants: 120 in the code
    MaxLost        \* bound: the steps of the lead screw that the bus may lose

ASSUME FirstMotorAssumption == FirstMotor \in {0, 1}
ASSUME DoorTimeoutAssumption == DoorTimeout \in Nat
ASSUME MaxLostAssumption == MaxLost \in Nat

VARIABLES
    pc,            \* where main is
    current,       \* machine.current
    wash_cycle,    \* machine.wash_cycle
    timeout_count, \* the counter of INIT_CHECK
    job,           \* the move main waits for
    err,           \* the result of motor_move, until main is done with it
    screw,         \* net steps of the lead screw: 0 is the stirrer raised
    lost,          \* history: the steps of the lead screw that the bus has lost
    preempted,     \* main has run since the temperature thread was cut short
    fresh_press    \* history: main waits for a press, and one began since

mainVars  == <<pc, current, wash_cycle, timeout_count>>
motorVars == <<job, err, screw, lost>>
vars == <<heatingVars, sensorsVars, servosVars, coolingVars, mainVars,
          motorVars, preempted, fresh_press>>

States == {"IDLE", "WASH_CYCLE", "INIT_CHECK", "HEATING", "WAX_DISPENSE",
           "WAIT_FOR_TEMP", "SCENT_DISPENSE", "STIRRING", "WICK_INSERT",
           "COOLING", "ENDSTATE", "ESTOP"}

\* Where main waits for motor_move to return.
MovingPcs == {"wash_moving", "wax_moving", "scent_moving", "screw_down",
              "stirring", "screw_up"}

Pcs == MovingPcs \union
       {"boot", "motor_init", "door_lock_init", "sensors_init", "exited",
        "loop", "idle_wait", "idle_read", "idle_reread", "wash_wait",
        "door_poll", "lock_settle", "wick_start", "wick_wait", "wick_extra",
        "cooling_sleep", "unlock_settle", "estop_wait"}

SCENT_ID      == FirstMotor
STIR_ID       == FirstMotor + 1
WAX_ID        == FirstMotor + 2
LEAD_SCREW_ID == FirstMotor + 3

\* SCENT_STEPS, WAX_STEPS, STIR_STEPS and LEAD_SCREW_STEPS are all 3200.
STEPS == 3200

Motors == 1..4
NoJob  == [id |-> 0, steps |-> 0]

StateMachineInit ==
    /\ pc = "boot"
    /\ current = "IDLE"
    /\ wash_cycle = FALSE
    /\ timeout_count = 0
    /\ job = NoJob
    /\ err = 0
    /\ screw = 0
    /\ lost = 0
    /\ preempted = FALSE
    /\ fresh_press = FALSE

Init ==
    /\ HeatingInit
    /\ SensorsInit
    /\ ServosInit
    /\ CoolingInit
    /\ StateMachineInit

-----------------------------------------------------------------------------
(* Scheduling. *)

\* Main is running, not asleep and not waiting: no other thread runs.
MainRuns ==
    \/ pc \in {"boot", "door_lock_init", "sensors_init", "idle_read",
               "idle_reread", "wick_start"}
    \/ pc \in MovingPcs /\ job = NoJob

\* Main goes on from point p.  It may cut short the temperature thread, but not
\* twice: it next sleeps for 10 ms or more, in which the thread, woken before,
\* gets to its own sleep.  So does the tach thread, which main wakes itself.
MainAt(p) ==
    /\ pc = p
    /\ \/ MainRuns
       \/ /\ tach_pc \notin {"take", "test"}
          /\ temp_pc = "sample" \/ ~preempted
    /\ preempted' = (temp_pc # "sample")

\* Mutant: the flag is not looked at.
Dispatched_FlagIgnored == current

\* The state main executes when it wakes: the test at the top of the loop.
Dispatched ==
    IF estop_flag /\ current \notin {"ESTOP", "IDLE"} THEN "ESTOP" ELSE current

At(state) == MainAt("loop") /\ Dispatched = state

\* Main ends its iteration in `state` and sleeps for 100 ms.
GoTo(state) == pc' = "loop" /\ current' = state

\* Main goes on inside `state`, at point p.
StayIn(state, p) == pc' = p /\ current' = state

\* motor_move(id, steps), called in `state`; main continues at point p, at
\* once when the motor is refused, else when the motor thread has finished.
motor_move(id, steps, state, p) ==
    /\ IF id \in Motors
       THEN job' = [id |-> id, steps |-> steps] /\ err' = 0
       ELSE job' = NoJob /\ err' = -1
    /\ StayIn(state, p)
    /\ UNCHANGED <<screw, lost>>

\* motor_move has returned.
Returned(p) == MainAt(p) /\ job = NoJob

\* Main goes on and err is of no more use.
MoveOver == err' = 0 /\ UNCHANGED <<job, screw, lost>>

-----------------------------------------------------------------------------
(* Start-up: any failure ends main.  The other threads go on. *)

\* heating_init, then, if it succeeds, cooling_init.
Boot ==
    /\ MainAt("boot")
    /\ \E heater \in Outcome("init"), cooling \in Outcome("init"),
          oks \in FanOutcomes :
          LET heated == adc_ready /\ heater
              cooled == cooling /\ \A f \in Fans : oks[f]
          IN  /\ heating_init(heated)
              /\ cooling_init(heated /\ cooling, oks)
              /\ pc' = IF heated /\ cooled THEN "motor_init" ELSE "exited"
    /\ UNCHANGED <<sensorsVars, servosVars, motorVars, current, wash_cycle,
                   timeout_count, fresh_press>>

\* motor_init, door_lock_init and sensors_init, one after the other.
InitDevice(here, next) ==
    /\ MainAt(here)
    /\ \E ok \in Outcome("init") : pc' = IF ok THEN next ELSE "exited"
    /\ UNCHANGED <<heatingVars, sensorsVars, servosVars, coolingVars,
                   motorVars, current, wash_cycle, timeout_count, fresh_press>>

MotorInit    == InitDevice("motor_init", "door_lock_init")
DoorLockInit == InitDevice("door_lock_init", "sensors_init")
SensorsStart == InitDevice("sensors_init", "loop")

-----------------------------------------------------------------------------
(* IDLE. *)

IdleEnter ==
    /\ At("IDLE")
    /\ set_status_led_mode("LED_ON")
    /\ pc' = "idle_wait"
    /\ UNCHANGED <<is_pressed, press_duration_ms, press_len, door_closed,
                   heatingVars, servosVars, coolingVars, motorVars, current,
                   wash_cycle, timeout_count, fresh_press>>

\* wait_for_button_press looks at the level of the button, not at an edge.
IdlePressed ==
    /\ MainAt("idle_wait")
    /\ is_pressed
    /\ pc' = "idle_read"
    /\ UNCHANGED <<heatingVars, sensorsVars, servosVars, coolingVars, motorVars,
                   current, wash_cycle, timeout_count, fresh_press>>

\* First call of get_button_press_duration.
IdleRead ==
    /\ MainAt("idle_read")
    /\ IF press_duration_ms <= 2000
       THEN GoTo("INIT_CHECK") /\ set_status_led_mode("LED_OFF")
       ELSE StayIn("IDLE", "idle_reread") /\ UNCHANGED current_led_mode
    /\ UNCHANGED <<is_pressed, press_duration_ms, press_len, door_closed,
                   heatingVars, servosVars, coolingVars, motorVars,
                   wash_cycle, timeout_count, fresh_press>>

\* Second call; button_isr may have run since the first.
IdleReread ==
    /\ MainAt("idle_reread")
    /\ GoTo(IF press_duration_ms > 2000 THEN "WASH_CYCLE" ELSE "IDLE")
    /\ set_status_led_mode("LED_OFF")
    /\ UNCHANGED <<is_pressed, press_duration_ms, press_len, door_closed,
                   heatingVars, servosVars, coolingVars, motorVars,
                   wash_cycle, timeout_count, fresh_press>>

-----------------------------------------------------------------------------
(* WASH_CYCLE. *)

WashEnter ==
    /\ At("WASH_CYCLE")
    /\ set_status_led_mode("LED_FAST_BLINK")
    /\ pc' = "wash_wait"
    /\ UNCHANGED <<is_pressed, press_duration_ms, press_len, door_closed,
                   heatingVars, servosVars, coolingVars, motorVars, current,
                   wash_cycle, timeout_count, fresh_press>>

WashPressed ==
    /\ MainAt("wash_wait")
    /\ is_pressed
    /\ motor_move(SCENT_ID, STEPS, "WASH_CYCLE", "wash_moving")
    /\ fresh_press' = FALSE
    /\ UNCHANGED <<heatingVars, sensorsVars, servosVars, coolingVars,
                   wash_cycle, timeout_count>>

\* The result of motor_move is not looked at.
WashDone ==
    /\ Returned("wash_moving")
    /\ wash_cycle' = TRUE
    /\ set_status_led_mode("LED_OFF")
    /\ GoTo("IDLE")
    /\ MoveOver
    /\ UNCHANGED <<is_pressed, press_duration_ms, press_len, door_closed,
                   heatingVars, servosVars, coolingVars,
                   timeout_count, fresh_press>>

-----------------------------------------------------------------------------
(* INIT_CHECK. *)

\* Mutant: main goes on to heat behind a door that would not lock.
LockDoor_ErrorIgnored ==
    \E ok \in Outcome("door_pwm") :
        door_lock(ok) /\ StayIn("INIT_CHECK", "lock_settle")

\* door_lock; on success main sleeps while the servo moves.
LockDoor ==
    \E ok \in Outcome("door_pwm") :
        /\ door_lock(ok)
        /\ IF ok THEN StayIn("INIT_CHECK", "lock_settle") ELSE GoTo("ESTOP")

InitCheck ==
    /\ At("INIT_CHECK")
    /\ set_status_led_mode("LED_SLOW_BLINK")
    /\ SampleDoor
    /\ IF read_limit_switch
       THEN LockDoor
       ELSE StayIn("INIT_CHECK", "door_poll") /\ UNCHANGED door_servo
    /\ UNCHANGED <<is_pressed, press_duration_ms, press_len, heatingVars,
                   wick_servo, wick_msgq, wick_run, coolingVars, motorVars,
                   wash_cycle, timeout_count, fresh_press>>

\* Mutant: the door is polled without a limit.
DoorPoll_NoTimeout ==
    /\ MainAt("door_poll")
    /\ SampleDoor
    /\ IF read_limit_switch
       THEN LockDoor /\ timeout_count' = 0
       ELSE /\ timeout_count' = timeout_count + 1
            /\ UNCHANGED <<pc, current, door_servo>>
    /\ UNCHANGED <<is_pressed, press_duration_ms, press_len, current_led_mode,
                   heatingVars, wick_servo, wick_msgq, wick_run, coolingVars,
                   motorVars, wash_cycle, fresh_press>>

\* After each pause of 500 ms: count it, give up or look at the door again.
DoorPoll ==
    /\ MainAt("door_poll")
    /\ IF timeout_count + 1 > DoorTimeout
       THEN GoTo("IDLE") /\ timeout_count' = 0 /\ UNCHANGED <<door_servo, door_closed>>
       ELSE /\ SampleDoor
            /\ IF read_limit_switch
               THEN LockDoor /\ timeout_count' = 0
               ELSE /\ timeout_count' = timeout_count + 1
                    /\ UNCHANGED <<pc, current, door_servo>>
    /\ UNCHANGED <<is_pressed, press_duration_ms, press_len, current_led_mode,
                   heatingVars, wick_servo, wick_msgq, wick_run, coolingVars,
                   motorVars, wash_cycle, fresh_press>>

LockSettled ==
    /\ MainAt("lock_settle")
    /\ set_status_led_mode("LED_OFF")
    /\ GoTo("HEATING")
    /\ UNCHANGED <<is_pressed, press_duration_ms, press_len, door_closed,
                   heatingVars, servosVars, coolingVars, motorVars,
                   wash_cycle, timeout_count, fresh_press>>

-----------------------------------------------------------------------------
(* HEATING, WAX_DISPENSE, WAIT_FOR_TEMP, SCENT_DISPENSE, STIRRING. *)

StartHeating ==
    /\ At("HEATING")
    /\ \E ok \in Outcome("heating_gpio") :
          set_heating(TRUE, ok) /\ GoTo(IF ok THEN "WAX_DISPENSE" ELSE "ESTOP")
    /\ UNCHANGED <<adc_ready, current_temp, estop_flag, temp_pc, sensorsVars,
                   servosVars, coolingVars, motorVars, wash_cycle,
                   timeout_count, fresh_press>>

WaxDispense ==
    /\ At("WAX_DISPENSE")
    /\ motor_move(WAX_ID, STEPS, "WAX_DISPENSE", "wax_moving")
    /\ UNCHANGED <<heatingVars, sensorsVars, servosVars, coolingVars,
                   wash_cycle, timeout_count, fresh_press>>

WaxDone ==
    /\ Returned("wax_moving")
    /\ GoTo(IF err < 0 THEN "ESTOP" ELSE "WAIT_FOR_TEMP")
    /\ MoveOver
    /\ UNCHANGED <<heatingVars, sensorsVars, servosVars, coolingVars,
                   wash_cycle, timeout_count, fresh_press>>

\* Mutant: the heater stays on when the target is reached.
WaitForTemp_HeaterKept ==
    /\ At("WAIT_FOR_TEMP")
    /\ GoTo(IF current_temp >= TARGET_TEMP THEN "SCENT_DISPENSE" ELSE "WAIT_FOR_TEMP")
    /\ UNCHANGED <<heatingVars, sensorsVars, servosVars, coolingVars, motorVars,
                   wash_cycle, timeout_count, fresh_press>>

\* The result of set_heating is not looked at.
WaitForTemp ==
    /\ At("WAIT_FOR_TEMP")
    /\ IF current_temp >= TARGET_TEMP
       THEN /\ \E ok \in Outcome("heating_gpio") : set_heating(FALSE, ok)
            /\ GoTo("SCENT_DISPENSE")
       ELSE GoTo("WAIT_FOR_TEMP") /\ UNCHANGED heating_pin
    /\ UNCHANGED <<adc_ready, current_temp, estop_flag, temp_pc, sensorsVars,
                   servosVars, coolingVars, motorVars, wash_cycle,
                   timeout_count, fresh_press>>

ScentDispense ==
    /\ At("SCENT_DISPENSE")
    /\ motor_move(SCENT_ID, IF wash_cycle THEN STEPS + 3200 ELSE STEPS,
                  "SCENT_DISPENSE", "scent_moving")
    /\ UNCHANGED <<heatingVars, sensorsVars, servosVars, coolingVars,
                   wash_cycle, timeout_count, fresh_press>>

ScentDone ==
    /\ Returned("scent_moving")
    /\ GoTo("STIRRING")
    /\ MoveOver
    /\ UNCHANGED <<heatingVars, sensorsVars, servosVars, coolingVars,
                   wash_cycle, timeout_count, fresh_press>>

\* Three moves; no result is looked at, and the flag is not read in between.
StirLower ==
    /\ At("STIRRING")
    /\ motor_move(LEAD_SCREW_ID, STEPS, "STIRRING", "screw_down")
    /\ UNCHANGED <<heatingVars, sensorsVars, servosVars, coolingVars,
                   wash_cycle, timeout_count, fresh_press>>

\* Mutant: an e-stop is served at once, with the stirrer lowered.
Stir_Aborted ==
    /\ Returned("screw_down")
    /\ IF estop_flag
       THEN GoTo("ESTOP") /\ MoveOver
       ELSE motor_move(STIR_ID, STEPS, "STIRRING", "stirring")
    /\ UNCHANGED <<heatingVars, sensorsVars, servosVars, coolingVars,
                   wash_cycle, timeout_count, fresh_press>>

\* Mutant: main does not wait for the move of the lead screw.
Stir_NotAwaited ==
    /\ MainAt("screw_down")
    /\ motor_move(STIR_ID, STEPS, "STIRRING", "stirring")
    /\ UNCHANGED <<heatingVars, sensorsVars, servosVars, coolingVars,
                   wash_cycle, timeout_count, fresh_press>>

Stir ==
    /\ Returned("screw_down")
    /\ motor_move(STIR_ID, STEPS, "STIRRING", "stirring")
    /\ UNCHANGED <<heatingVars, sensorsVars, servosVars, coolingVars,
                   wash_cycle, timeout_count, fresh_press>>

StirRaise ==
    /\ Returned("stirring")
    /\ motor_move(LEAD_SCREW_ID, -STEPS, "STIRRING", "screw_up")
    /\ UNCHANGED <<heatingVars, sensorsVars, servosVars, coolingVars,
                   wash_cycle, timeout_count, fresh_press>>

StirDone ==
    /\ Returned("screw_up")
    /\ GoTo("WICK_INSERT")
    /\ MoveOver
    /\ UNCHANGED <<heatingVars, sensorsVars, servosVars, coolingVars,
                   wash_cycle, timeout_count, fresh_press>>

-----------------------------------------------------------------------------
(* WICK_INSERT, COOLING, ENDSTATE. *)

\* Mutant: the candle goes on when the heater could not be turned off.
WickInsert_ErrorIgnored ==
    /\ At("WICK_INSERT")
    /\ \E heater \in Outcome("heating_gpio"), oks \in FanOutcomes :
          /\ set_heating(FALSE, heater)
          /\ start_cooling(oks)
    /\ PurgeWickQueue
    /\ StayIn("WICK_INSERT", "wick_start")
    /\ UNCHANGED <<adc_ready, current_temp, estop_flag, temp_pc, sensorsVars,
                   motorVars, wash_cycle, timeout_count, fresh_press>>

\* Up to the purge of the queue in move_wick_servo.
WickInsert ==
    /\ At("WICK_INSERT")
    /\ \E heater \in Outcome("heating_gpio"), oks \in FanOutcomes :
          /\ set_heating(FALSE, heater)
          /\ IF heater
             THEN /\ start_cooling(oks)
                  /\ PurgeWickQueue
                  /\ StayIn("WICK_INSERT", "wick_start")
             ELSE GoTo("ESTOP") /\ UNCHANGED <<coolingVars, servosVars>>
    /\ UNCHANGED <<adc_ready, current_temp, estop_flag, temp_pc, sensorsVars,
                   motorVars, wash_cycle, timeout_count, fresh_press>>

WickStart ==
    /\ MainAt("wick_start")
    /\ \E ok \in Outcome("wick_pwm") :
          /\ StartWickServo(ok)
          /\ IF ok THEN StayIn("WICK_INSERT", "wick_wait") ELSE GoTo("ESTOP")
    /\ UNCHANGED <<heatingVars, sensorsVars, coolingVars, motorVars,
                   wash_cycle, timeout_count, fresh_press>>

WickDropped ==
    /\ MainAt("wick_wait")
    /\ TakeWickMessage
    /\ StayIn("WICK_INSERT", "wick_extra")
    /\ UNCHANGED <<heatingVars, sensorsVars, coolingVars, motorVars,
                   wash_cycle, timeout_count, fresh_press>>

WickDone ==
    /\ MainAt("wick_extra")
    /\ \E ok \in Outcome("wick_pwm") : StopWickServo(ok)
    /\ GoTo("COOLING")
    /\ UNCHANGED <<heatingVars, sensorsVars, coolingVars, motorVars,
                   wash_cycle, timeout_count, fresh_press>>

CoolingEnter ==
    /\ At("COOLING")
    /\ pc' = "cooling_sleep"
    /\ UNCHANGED <<heatingVars, sensorsVars, servosVars, coolingVars, motorVars,
                   current, wash_cycle, timeout_count, fresh_press>>

CoolingDone ==
    /\ MainAt("cooling_sleep")
    /\ \E oks \in FanOutcomes : stop_cooling(oks)
    /\ GoTo("ENDSTATE")
    /\ UNCHANGED <<heatingVars, sensorsVars, servosVars, motorVars,
                   wash_cycle, timeout_count, fresh_press>>

\* What ENDSTATE does whether or not the door could be unlocked.
CycleOver == wash_cycle' = FALSE /\ GoTo("IDLE")

EndState ==
    /\ At("ENDSTATE")
    /\ \E ok \in Outcome("door_pwm") :
          /\ door_unlock(ok)
          /\ IF ok
             THEN StayIn("ENDSTATE", "unlock_settle") /\ UNCHANGED wash_cycle
             ELSE CycleOver
    /\ UNCHANGED <<heatingVars, sensorsVars, wick_servo, wick_msgq, wick_run,
                   coolingVars, motorVars, timeout_count, fresh_press>>

UnlockSettled ==
    /\ MainAt("unlock_settle")
    /\ CycleOver
    /\ UNCHANGED <<heatingVars, sensorsVars, servosVars, coolingVars, motorVars,
                   timeout_count, fresh_press>>

-----------------------------------------------------------------------------
(* ESTOP. *)

\* Mutant: the heater is left alone.
Estop_HeaterKept ==
    /\ At("ESTOP")
    /\ \E oks \in FanOutcomes : stop_cooling(oks)
    /\ StayIn("ESTOP", "estop_wait")
    /\ UNCHANGED <<heatingVars, sensorsVars, servosVars, motorVars, wash_cycle,
                   timeout_count, fresh_press>>

\* Mutant: the fans are left alone.
Estop_FansKept ==
    /\ At("ESTOP")
    /\ \E heater \in Outcome("heating_gpio") : set_heating(FALSE, heater)
    /\ StayIn("ESTOP", "estop_wait")
    /\ UNCHANGED <<adc_ready, current_temp, estop_flag, temp_pc, sensorsVars,
                   servosVars, coolingVars, motorVars, wash_cycle,
                   timeout_count, fresh_press>>

\* Neither result is looked at; the motors, the servos and the door are left.
Estop ==
    /\ At("ESTOP")
    /\ \E heater \in Outcome("heating_gpio"), oks \in FanOutcomes :
          set_heating(FALSE, heater) /\ stop_cooling(oks)
    /\ StayIn("ESTOP", "estop_wait")
    /\ UNCHANGED <<adc_ready, current_temp, estop_flag, temp_pc, sensorsVars,
                   servosVars, motorVars, wash_cycle, timeout_count, fresh_press>>

EstopReset ==
    /\ MainAt("estop_wait")
    /\ is_pressed
    /\ clear_estop_flag
    /\ CycleOver
    /\ fresh_press' = FALSE
    /\ UNCHANGED <<adc_ready, heating_pin, current_temp, temp_pc, sensorsVars,
                   servosVars, coolingVars, motorVars, timeout_count>>

-----------------------------------------------------------------------------
(* The other threads, the interrupt handlers and the user. *)

\* Mutant: the stepping loop ends one step too early.
ScrewTurns_OneShort(n) ==
    /\ screw' = screw + (IF n >= 0 THEN n - 1 ELSE n + 1)
    /\ UNCHANGED lost

\* The lead screw is told to make n steps.  The results of the SPI writes are not
\* looked at: a write that fails is a step lost.
ScrewTurns(n) ==
    \E missed \in IF "spi" \in Faults THEN 0..(MaxLost - lost) ELSE {0} :
       /\ missed <= n \/ missed <= -n
       /\ screw' = screw + (IF n >= 0 THEN n - missed ELSE n + missed)
       /\ lost' = lost + missed

\* Mutant: a move in reverse never ends.
MotorThread_ForwardOnly ==
    /\ job # NoJob
    /\ job.steps >= 0
    /\ temp_pc = "sample"
    /\ TachWaits
    /\ job' = NoJob
    /\ IF job.id = LEAD_SCREW_ID THEN ScrewTurns(job.steps) ELSE UNCHANGED <<screw, lost>>
    /\ UNCHANGED <<err, heatingVars, sensorsVars, servosVars, coolingVars,
                   mainVars, preempted, fresh_press>>

\* The motor thread makes the move main waits for, and gives its completion whether
\* or not all steps got through; it has the lowest priority.
MotorThread ==
    /\ job # NoJob
    /\ temp_pc = "sample"
    /\ TachWaits
    /\ job' = NoJob
    /\ IF job.id = LEAD_SCREW_ID THEN ScrewTurns(job.steps) ELSE UNCHANGED <<screw, lost>>
    /\ UNCHANGED <<err, heatingVars, sensorsVars, servosVars, coolingVars,
                   mainVars, preempted, fresh_press>>

TempThread ==
    /\ ~MainRuns
    /\ TempSafetyThread
    /\ preempted' = (preempted /\ temp_pc' # "sample")
    /\ UNCHANGED <<sensorsVars, servosVars, coolingVars, mainVars, motorVars,
                   fresh_press>>

FanThread ==
    /\ ~MainRuns
    /\ TachThread
    /\ UNCHANGED <<heatingVars, sensorsVars, servosVars, mainVars, motorVars,
                   preempted, fresh_press>>

\* The handlers are installed by sensors_init and by door_lock_init.
ButtonIsr ==
    /\ pc \notin {"boot", "motor_init", "door_lock_init", "sensors_init", "exited"}
    /\ \/ ButtonPress /\ fresh_press' = (pc \in {"wash_wait", "estop_wait"})
       \/ ButtonRelease /\ UNCHANGED fresh_press
    /\ UNCHANGED <<heatingVars, servosVars, coolingVars, mainVars, motorVars,
                   preempted>>

BeamIsr ==
    /\ pc \notin {"boot", "motor_init", "door_lock_init", "exited"}
    /\ thru_beam_isr
    /\ UNCHANGED <<heatingVars, sensorsVars, coolingVars, mainVars, motorVars,
                   preempted, fresh_press>>

Main ==
    \/ Boot \/ MotorInit \/ DoorLockInit \/ SensorsStart
    \/ IdleEnter \/ IdlePressed \/ IdleRead \/ IdleReread
    \/ WashEnter \/ WashPressed \/ WashDone
    \/ InitCheck \/ DoorPoll \/ LockSettled
    \/ StartHeating \/ WaxDispense \/ WaxDone \/ WaitForTemp
    \/ ScentDispense \/ ScentDone
    \/ StirLower \/ Stir \/ StirRaise \/ StirDone
    \/ WickInsert \/ WickStart \/ WickDropped \/ WickDone
    \/ CoolingEnter \/ CoolingDone \/ EndState \/ UnlockSettled
    \/ Estop \/ EstopReset

Environment == ButtonIsr \/ BeamIsr

Next == Main \/ MotorThread \/ TempThread \/ FanThread \/ Environment

\* Every thread that can run does run.  Main sleeps in every iteration and the
\* temperature thread after every sample, which leaves the processor, again and
\* again, to the motor thread (hence SF).  Nothing is assumed of the user.
Fairness ==
    /\ WF_vars(Main)
    /\ WF_vars(TempThread)
    /\ WF_vars(FanThread)
    /\ SF_vars(MotorThread)

Spec == Init /\ [][Next]_vars /\ Fairness

=============================================================================
