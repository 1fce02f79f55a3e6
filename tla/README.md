# A TLA+ model of the candle maker's firmware

The firmware under `src/` runs an automatic candle maker on an STM32F446RE with
Zephyr: it locks a door, heats wax, moves four stepper motors over SPI, drops a
wick, cools the candle with two fans and unlocks the door. This directory holds
a specification of it in TLA+, the TLC configurations that check it, and TLAPS
proofs of its main safety properties. Line references below are to `src/src/`
unless another directory is named.

## 1. Inventory

| Component | State | Operations | Talks to |
|---|---|---|---|
| State machine, `stateMachine.c` (thread `main`, priority 0) | `machine.current`, `machine.wash_cycle`, the local `timeout_count` | start-up; the e-stop test at the top of the loop; one case per state; it sleeps 100 ms per iteration | calls all the others; reads the e-stop flag |
| Heating, `heating.c` (thread, priority 2) | heater pin, `current_temp`, atomic `estop_flag` | `heating_init`, `set_heating`, `clear_estop_flag`, `temp_safety_thread` every 100 ms | sets the flag that main reads; cuts the pin that main sets |
| Sensors, `sensors.c` (interrupt; LED thread, priority 5) | `button_state`, `current_led_mode`, the switch of the door | `button_isr`, `wait_for_button_press`, `get_button_press_duration`, `read_limit_switch`, `set_status_led_mode`, `led_control_thread` | its interrupt handler writes what main polls |
| Servos, `servos.c` (interrupt) | pulse widths of the two servos, `wick_msgq` (one message) | `door_lock`, `door_unlock`, `move_wick_servo`, `thru_beam_isr` | the handler posts the message main waits for |
| Fans, `cooling.c` (thread, priority 2) | PWM of two fans, `current_duty_fan1/2`, `cooling_sem`, tach counters | `start_cooling`, `stop_cooling`, `stop_fans`, `set_fan1/2`, `tach_monitoring_thread` | main starts and stops what the thread controls |
| Motor service, `motors.c` (thread, priority 5) | four command slots, two mutexes, `motor_sem`, four completion semaphores, driver registers | `motor_move` (blocks its caller), `motor_thread_entry`, `motor_init_for_spi_stepping` and `stop_all_motors` (no caller in the build), register access | main waits for its thread |
| Display, `display.c` | - | - | compiled, never started; its queue `state_msgq` is never written |
| `Testing/` | - | bench programs, outside the build | `stateMachine.c` includes its `motor_step.h` |

What is hard here, and cannot be seen in a unit test:

- **Preemption.** Main has the highest priority and may take over from the
  temperature thread between its cut of the heater pin and its raising of the
  flag (`heating.c:82-83`), and from the tach thread anywhere in its loop.
- **Shared command slots.** `motor_move` tests a slot, fills it, signals and waits
  in four steps; the motor thread copies, steps, clears and gives in others. One
  semaphore that counts to 1 stands for all slots.
- **Interrupts.** A button edge may come between two reads of the press length,
  a through-beam edge before, during or after the purge of the wick queue.
- **Partial failure.** Every driver call may fail; about half of the results are
  not looked at, in ESTOP none of them.
- **Unbounded waits.** For a press, for the wick, for a motor; the e-stop flag is
  looked at only between two states.
- **Stale state.** The length of the *last completed* press; the queue of the
  wick; what an e-stop leaves behind for the next candle.

What makes each component correct:

- state machine: stages in order; heat only behind a locked door; door opened
  only at the end, without heat, never while the flag is up; the stirrer never
  left in the wax; every e-stop reaches ESTOP unless main waits for someone;
- heating: an over-temperature turns the heater off, and if main turns it on
  again in the window above, it goes off again;
- sensors: a press decides by its own length; "again" means a new press; only a
  closed door is locked;
- servos: the wick servo stops for a wick of this run;
- fans: duty cycles in range; control settles; a stop is final;
- motors: the right driver moves; a move is made once, in its direction and, on a
  bus that does not fail, in full; the last caller of a motor leaves when nothing is
  owed; until a stop no queued move is forgotten; no caller sleeps for a completion that will not come; a call
  returns; the bus has one user at a time.

`PROJECT.json` lists thirty-six hazards, each at its line with the properties that
would catch it.

## 2. Modules

| Module | Models |
|---|---|
| `Zephyr` | the outcome of a driver call; which drivers may fail is the constant `Faults` |
| `Heating`, `Sensors`, `Servos`, `Cooling` | one per C file: its state, its operations as operators on primed variables, the steps of its thread or handler |
| `StateMachine` | `main()`, composed with the four above; scheduling, `Next`, fairness, `Spec` |
| `CandleCycle` | the abstract specification: the stages of a candle, the heater, the lock |
| `CandleMaker` | every property of the composed system, and the refinement mapping to `CandleCycle` |
| `CoolingUse` | the fans alone, under a caller that starts and stops in any order |
| `MotorService` | the abstract specification: what `motors.c` promises of one motor |
| `MotorMove` | the abstract specification that is left of it for a single caller: ask, wait, the move is made |
| `Motors` | `motors.c`: several callers, the motor thread, slots, mutexes, semaphores; the refinement mapping to `MotorService` |
| `MotorRegisters` | `Motors` with the CTRL3 register of each driver |
| `MCCandleMaker`, `MCCoolingUse`, `MCMotors`, `MCMotorRegisters` | values of the constants for TLC |
| `CoolingProofs`, `CoolingUseProofs` | types of the fans' state in any use, and the arithmetic and stability of their control |
| `CandleMakerProofs`, `CandleCycleProofs` | theorems about `CandleMaker`: safety whatever fails; the refinements, and safety when some drivers do not fail |
| `MotorsProofs`, `MotorCallersProofs` | theorems about `Motors`: the service of each motor; what its callers may rely on |
| `MotorRegistersProofs` | theorems about `MotorRegisters` |

How they compose: `StateMachine` is `main()` with `Heating`, `Sensors`, `Servos`
and `Cooling`. It sees a motor as one `job` that the motor thread finishes.
`Motors` is the detail below that: it implements `MotorService` for each motor
(`ServiceSpec`), and `CandleMaker.ScrewSpec` says that main and its `job` are, for
the lead screw, a behaviour of the same `MotorService`. `MotorService` lets two
callers come to the same motor; main is alone. What main takes the service for is
`MotorMove`, and both sides of it are proved: a caller that is alone, in a build
without stops and on a bus that does not fail, gets `MotorMove` of each motor from
`Motors` (`AloneIsServed`), and main uses no more on such a bus (`MainAsksOneMove`).
There the one `job` of `StateMachine` is no assumption about `motors.c` but a
consequence of it.

On a bus that fails there is no `MotorMove`: `motors.c:375-383` ignores the result of
every write, a step that does not get through is lost, and `motor_move` returns 0 all
the same. `Motors!ThreadStep` loses steps, and so does `StateMachine!ScrewTurns`: a
move of the lead screw misses any part of its steps. Both sides are then behaviours
of `MotorService` without `Lossless` (`ServiceImplemented`, `ScrewIsServed`), which
says that steps may be lost, never added; that the `job` of `StateMachine` is all
that `Motors` does on such a bus is taken from the code and not proved.

### State and actions

Each variable has the name of the C variable it stands for where there is one;
the comment at its declaration says what it is. `screw` and `lost` are the net steps
that the lead screw has made and those that the bus has lost. Three more variables
have no counterpart: `wick_run` and `fresh_press` are history, read only by
properties, and `preempted` belongs to the scheduler. `press_len` is the user's intention at
the start of a press, `door_closed` the door at the moment the switch was last
read (the user may open or shut it between any two reads), `fan_gain` the fans.

An action of `main` is one stretch of it between two places where it sleeps or
waits: since nothing has a higher priority, no other thread can see anything in
between. Where an *interrupt* can (between the two reads of the press length in
IDLE, and after the purge of the wick queue) the stretch is cut and `MainRuns`
keeps the other threads out. `MainAt` is where a thread is preempted:

- main may resume with the temperature thread in the middle of its step, but not
  twice in the same step: main sleeps at least 10 ms after every stretch that
  can repeat, and the thread needs microseconds to come to its own sleep;
- main does not resume before the tach thread, which main itself has made ready,
  has come to its next sleep or wait; within its one-second samples and its
  adjustments it may be overtaken anywhere.

The other threads have a step per access to shared state. The temperature thread
(`TempSample`, `TempCutoff`, `TempFlag`) and the tach thread (`TachTake` ..
`TachPause`) have equal priority and sleep in between; the motor thread, which
has the lowest, runs only while both sleep.

In `Motors` a caller is where `op` says in `motor_move`, `motor_init_for_spi_stepping`
or `stop_all_motors`: one action per stretch between two kernel calls, named after
the function and the stretch (`MoveLock`, `MoveCheck`, `MovePublish`, ...). Callers
have priorities of their own, so they interleave freely; the motor thread has
priority 5, below all of them, and `CallersOff` lets it take a step only when each
caller is outside, asleep or blocked. `ThreadDir` and `ThreadStep` are the writes of
one round of the stepping loop: between them callers run, but none can use the bus,
which the thread holds. `pos` is the net number of steps that a driver was told to
make. After `StopClear` the thread finishes the move it is making, as the code does.
`GiveCompletions` wakes one of the callers that wait: which one, where several do,
is left open.

A call that may fail takes its result from `Outcome(driver)`. Results the code
ignores are ignored in the model: `WaitForTemp`, `Estop`, `StopWickServo`,
`start_cooling`, `TempCutoff`.

### Repairs assumed

The commit does not build as it stands. The model takes these readings, each the
one that the surrounding code asks for:

- `stateMachine.c:93` includes `motor_step.h`, which is only in `Testing/`; its
  enum counts `MOTOR_1 = 0`. That is `FirstMotor = 0`. `FirstMotor = 1` stands for
  the numbering that `motor_move` takes (`motors.c:279`, 1 to 4) and that the
  overlay's comments and the defines at `stateMachine.c:97-109` then agree on; no header
  of the repository gives it. The runs take both. The comment at
  `stateMachine.c:79-83` is a third numbering (section 6).
- `motor_init` (`stateMachine.c:148`) is declared by that header; the build has
  `drv8434s_init` instead, which nobody calls. `MotorInit` stands for either: it
  succeeds or fails. `Motors` starts where `drv8434s_init` has returned 0; without
  it the completion semaphores are not initialised, and nothing can be said.
- `STIR_SPEED_HZ` (`:316`) is not defined; `STIR_SPEED` is, and is a speed that
  `motor_move` accepts.
- `move_wick_servo` and several other functions have no prototype; C of the time
  takes the definitions as they are.

The thermistor's conversion is missing (`heating.c:146`, it returns 25): the
constant `Readings` stands for what a conversion that succeeds may return, and the
theorems hold for every set of readings. A conversion that fails returns -1 in the
code and in the model (driver "adc").

## 3. Runs

| Run | Configuration | Shows |
|---|---|---|
| `faulty` | every driver may fail, the ADC and the SPI bus too; readings 25, 80, 120, 121, two polls of the door, motors from 0, a step lost | the safety that must hold whatever fails, and the refinements of `CandleCycle` and, for the lead screw, of `MotorService` with steps lost |
| `nominal` | thermistor and door may fail, nothing else; readings 25, 80, 121, one poll, motors from 1 | where heater and fans may be on, the re-arm window, lead screw moves made in full (`MotorService` with none lost), and the three liveness properties |
| `cooling` | four calls of start and stop, fans of 15, 20, 30 and 80 rpm per percent | duty cycles in range, each fan driven towards the band and never across, the control settles, a stop ends the monitoring |
| `motors` | two callers, one of which may call `stop_all_motors` once; two motors, one of them moved both ways | with a stop too: one user of slots and bus, no caller left without a completion, calls that return; until the stop: no forgotten move, the refinement of `MotorService`, a true `-EBUSY` |
| `stale_press`, `held_button`, `door_switch`, `fan_loop`, `flagged_move`, `motor_numbers`, `stop_race`, `spi_mode` | no failures | each shows that the code does not do what a comment or document says; see section 6 |

**Bounds.** Readings: one below the target, the target, the limit itself and one
above it; the code compares only with 80 and 120. Press
lengths 2000 and 2001 are the two sides of the only comparison. `DoorTimeout` is
120 in the code; the counter is compared and incremented and nothing else, so 2
shows the first poll, a later one, the last and the one that is refused. Fans:
one too weak for the band, one that meets it near full duty, one in between and
a strong one. `MaxLost = 1`: one step of the lead screw is lost, on the way down or
on the way up, or none; `StirrerRaised` bounds the offset by what is lost, so one is
enough to tell a move that loses from one that does not, and the proofs hold for any
bound. A step of 5% must not jump over the band of 400 rpm: `NeverHunts`
shows that it does not, from any duty cycle, for fans of up to 84 rpm per percent,
that is **8400 rpm at full duty**. The bound is near the truth: a fan of 8900 rpm is
measured at 1770 rpm with 20% and at 2220 with 25%, and goes back and forth for ever.
`MaxCalls = 4` is two starts, which
it takes for the loop to be entered, and two stops. In `Motors` two callers are
enough for each way in which one can come between two statements of another, and
two motors for a scan that has passed a slot and one that has not. `Travel = 1`
keeps `pos` finite: a caller asks only for moves that end within it, so motor 1
goes back and forth, again and again, and motor 2 moves at most once per caller. `MaxStops = 1`: after
the first stop `MotorService` is void, and it may come in at any point;
`NobodyStranded` speaks of one stop, as two may strand a caller (section 6). `NumMotors = 2`,
`Travel`, the requests and the callers are constants: the proofs hold for any.
Nothing else is bounded; the state spaces are finite because the code's counters
are.

**Deadlock** is checked in all runs of `CandleMaker` and `Motors`. In those of `CoolingUse`
it is not: after the last of the calls the tach thread waits, as it should.

**Fairness.** Weak fairness for main, the temperature and the tach thread: each
sleeps for a bounded time and the scheduler runs it when it is ready. Strong
fairness for the motor thread, which is ready only while the others sleep: they
do so again and again, for 10 ms or more at a time, and use microseconds. There
is none for the user or the beam. In `Motors` a caller that is inside a call goes
on (strong, since it may wait for a mutex that is taken and released again and
again, and `k_mutex_unlock` hands it to a thread that waits), the motor thread gets
what is left, and `[]<>CallersOff` says that something is left: callers of a
higher priority that never sleep would starve it under any design. No caller is
obliged to call. `CallsReturn` exempts a caller that shares its motor with another
(`Shares`): between `in_use = false` and the give the other may come in, queue a
move and take the unit, again and again. `OvertempCutsHeater`, `EstopReached` and
`MainComesBack` are checked with a thermistor and a door lock that may fail, and no
other driver: a heater pin that can never be written cannot be cut. `EstopReached` leaves out the points in `UserWaits`,
where main waits for a press or for the wick: there the e-stop has to wait too,
which is a limit of the code, not of the model.

**Mutants.** Every property of a passing run is paired in `PROJECT.json` with a
plausible bug, defined next to the definition it replaces (`X_Something` before
`X`), that TLC finds to violate it: a result that is ignored, a purge left out,
a flag not tested, a limit not applied.

## 4. Proofs

Six modules state theorems, a seventh (`CoolingProofs`) lemmas they share. For **every** choice of failing drivers, readings,
press lengths, fans, motor numbering and door timeout, `CandleMakerProofs` and,
from `CycleImplemented` on, `CandleCycleProofs` prove:

| Theorem | Property | Argument |
|---|---|---|
| `TypeCorrect` | `TypeOK` | inductive as it stands, from the type lemmas of each part; the interesting parts are the duty cycles (`DutyInRange`), the speed computed by integer division (`SpeedArithmetic`) and the counter of INIT_CHECK |
| `HeaterSafe` | `HeaterBehindLockedDoor` | `HeaterInv` |
| `WickIsFresh` | `FreshWick` | `WickInv` |
| `StirrerIsRaised` | `StirrerRaised` | `ScrewInv`, any number of steps lost (`Drift`) |
| `StirrerIsFullyRaised` | (none: raised to the step) | the bus does not fail; `ScrewInv` |
| `NoUnlock` | `NoUnlockDuringEstop` | by cases on the step: only ENDSTATE unlocks, in the same stretch in which main has found the flag down |
| `CycleImplemented` | `CycleSpec` | each step of `StateMachine` is a step of `CandleCycle` or a stutter, from `HeaterInv` and `HomeInv` |
| `ScrewIsServed` | `ScrewSpec` | from `ScrewInv`: at each call and each return nothing is owed; the steps owed were made, or those lost by a bus that fails were not (`ScrewTurnsLosing`) |
| `NeverMonitored` | (none: `Unmonitored`) | the tach loop is never entered, whatever fails: what `fan_loop` finds is the only thing that can happen |
| `HeaterIsConfined` | `HeaterConfined` | the heater's pin does not fail, anything else may; `ConfinedInv` |
| `RearmIsOneWindow` | `HeaterRearmWindow` | the same; `RearmInv` |
| `FansAreConfined` | `FansConfined` | the PWM of fans and wick servo does not fail, anything else may; `FansInv`, and `Unmonitored`, as the tach thread then never drives a fan |
| `MainAsksOneMove` | (none: `ScrewMove!Spec`) | the bus does not fail; main and its `job` are a behaviour of `MotorMove` |

`CoolingUseProofs` proves for any fans, failures and number of calls:

| Theorem | Property | Argument |
|---|---|---|
| `DutyTypeCorrect` | `TypeOK` | the same type lemmas, here in a use that does enter the loop |
| `NeverHunts` | `NoHunting` | gains up to 84, the fans' PWM does not fail; `StepInBand` |
| `SteadyFromCalls` | (none) | the fans' PWM does not fail; by cases on the call |

`MotorsProofs` proves for any callers, stoppers, motors, requests and failures:

| Theorem | Property | Argument |
|---|---|---|
| `MotorsTypeCorrect` | `TypeOK` | inductive; the scan stays within the slots (`NextSlotType`) |
| `Exclusive` | `OneAtATime` | `MutexInv`: who is between lock and unlock owns the mutex |
| `WakeupKept` | `NoLostWakeup` | `WakeInv`: and a thread that waits starts its scan at the first slot. That much holds after a stop too, but says nothing there, and `NoLostWakeup` does not claim it |
| `BusyTrue` | `BusyIsTrue` | `ServiceInv` |
| `ServiceImplemented` | `ServiceSpec` | each step is, for each motor, a step of `MotorService` or a stutter, from `ServiceInv` |
| `MovesOnlyForCallers` | (none) | from `ServiceInv`: a motor turns only while somebody waits for it |

`MotorCallersProofs` goes on from there:

| Theorem | Property | Argument |
|---|---|---|
| `NobodyIsStranded` | `NobodyStranded` | `UnitsInv`: a count of units against callers, with at most one stop |
| `AloneIsServed` | (none: `Move(c, m)!Spec`) | one caller, no stops, a bus that does not fail; `AloneInv` |

and `MotorRegistersProofs` for the CTRL3 registers, on a bus that does not fail:

| Theorem | Property | Argument |
|---|---|---|
| `DirectionHolds` | (none: `SteppingRegister`) | inductive with `MutexInv`: nobody sets a driver up while the thread steps |
| `NoStepInSpiMode` | (none) | from it: what `spi_mode` finds once is so in every move |

`HeaterBehindLockedDoor` is not inductive. HEATING turns the heater on without
looking at the door, so `HeaterInv` adds that in HEATING, and while INIT_CHECK
waits for the lock to settle, the door *is* locked. ENDSTATE unlocks it without
looking at the heater, so `HeaterInv` adds that the heater is off from the middle
of WICK_INSERT on (`Cold`): there `set_heating(0)` is the one call whose result
stops the cycle. In between, nothing but HEATING turns the heater on
(`TempThreadOnlyCuts`), and nothing but ENDSTATE unlocks. What is left of ESTOP,
with its two ignored results, is harmless because IDLE, INIT_CHECK and ESTOP
never unlock.

`WickInv` says why a message that main takes is a new one: from the purge on, a
message in the queue implies that the beam broke after it. `ScrewInv` gives the
position of the lead screw, up to the steps lost so far, as a function of where main
is and whether the motor thread has finished: it is what makes the three moves of STIRRING, with the flag
tested only before the first, leave the stirrer raised; it also covers the
numbering from 0, where the "lead screw" is motor 3.

`HomeInv` ties where main is to the state it is in: the abstract stage is read off
`machine.current`, which a case of the switch changes only at its end. `ConfinedInv`
adds that without failures a wax move is never refused (a refusal would leave
WAX_DISPENSE for ESTOP with the heater on). `HeaterRearmWindow` is not inductive
because the flag goes up only after the window: `RearmInv` speaks of the moment
before, when the thread is about to raise it and main, which has preempted it and
cannot do so twice, has just run HEATING.

`OneAtATime` holds with stops. For the service, `ServiceInv` says
that until a stop callers and commands **match**: a command in use has a caller that
waits for it, a completion that is about to be given has one too and, if its slot
is in use again, *two*; no completion is left over; and a caller about to fill a
slot finds it free. That is what makes the window between `in_use = false` and the
give harmless for the last caller: the unit may go to the wrong one of two, but
whoever is left still has a move owed, or has a unit coming. A stop breaks the
match (it gives units for moves that go on), which is why `MotorService` is void
after it. The proof covers a bus that fails, with steps lost (`Lossless`).

`NobodyStranded` is not inductive: it does not say why two callers of one motor do
not share one unit. `UnitsInv` counts: a motor has at most as many callers waiting
as units of its semaphore that are there, that its queued command stands for, or
that the thread is about to give (`Queued`, `Due`). A caller adds one to both sides
at once, as `MoveCheck` has found the slot free; a give takes one from both. A stop
clears the command, which takes a unit away, and gives one in the same stretch; the
first stop finds the count at 0 (`Matched`). A give of the motor thread that finds
the count at 1 loses its unit, but then nobody is there to miss it: a caller that
sleeps has found no unit (`SleepInv`), and the thread runs only while no caller is
on its way to sleep (`CallersOff`). A second stop, called by a thread of a higher
priority, has no such excuse. The proof counts the members of a set, so it rests on the library's
theorems about finite sets.

`AloneInv` says where a single caller and the thread can be at the same time; the
refinement mapping of `AloneIsServed` then reads the abstract move off the caller's
own call (`Moving`) and holds `pos` at the value it had when the call began
(`Start`), as the steps that are under way are nobody's to see before `motor_move`
returns. A refusal or a return before the last step would be no step of `MotorMove`.

`NoHunting` starts from a thread that knows the truth (`Steady`): the sample it
holds of a fan is the fan's speed, and its record of the duty cycle is what the fan
is driven with. It says that the thread's next steps keep it so and drive the fan
only towards the band and never across. The rest is arithmetic on the code's
integer divisions, which `StepInBand` does once for all gains up to 84 and all duty
cycles; `SteadyFromCalls` shows that a call of main between two rounds leaves the
thread in that state. A call in the middle of a round need not, which is the race
that `stop_race` shows. That the control comes to *rest* is liveness, and is
TLC's (`ControlSettles`).

`HeaterConfined`, `HeaterRearmWindow` and `FansConfined` name the drivers that they
need: a thermistor, door, stirrer or wick that fails takes nothing away from the
first two. For the fans it takes the wick servo too: if it does not start, main goes
on to ESTOP from the middle of WICK_INSERT, and the fans turn there until it stops
them.

The proofs assume what the modules assume of the constants: `Faults` a set of
driver names, `Readings` integers, `PressLengths` and `Gains` and `DoorTimeout`
natural numbers, `FirstMotor` 0 or 1; in `Motors`, that `Callers` holds neither
of the two names that mutex owners use, and at least one motor. TLC evaluates these assumptions in the
runs.

Only model-checked: liveness (`OvertempCutsHeater`, `EstopReached`, `MainComesBack`,
`ControlSettles`, `StopEndsMonitoring`, `CallsReturn`), which is out of the prover's
reach, as is what it would rest on (`ENABLED`, fairness). Every invariant, action
property and refinement of a passing run is proved, with the assumption its row
names.

## 5. Not modelled, and plan

Not modelled, and why:

- the display and the bench programs: neither runs;
- the LED thread: it copies `current_led_mode`, which is modelled, to the LED and
  nothing reads the LED; it would multiply the states for no property;
- words printed, delays as durations (a sleep is a point where others run);
- the analog side of ADC and PWM beyond what the code computes;
- the frames of an SPI write beyond which register bits arrive, CTRL1 and CTRL2
  (written once, read by nobody), and `drv8434s_read_reg`, which has no caller in the
  build (on a failed transfer it returns what its buffer happened to hold);
- the widths of `steps` and `speed_hz`: the build passes a few constants. The one edge
  is a move of `INT32_MIN` steps, whose negation in `motors.c:358` overflows;
- two calls of `motor_move` by one thread at a time: it blocks its caller.

Left for later: a theorem about the behaviours of `MotorMove` that the other three
motors take part in (`MainAsksOneMove` speaks of the lead screw, whose position is
the only one that `StateMachine` keeps); theorems about a repaired `stop_cooling` (for which
`StoppedFansStayOff` would hold) and a repaired loop condition at `cooling.c:259`;
a `stop_all_motors` that aborts the move in progress, once it is written, with what
`MotorService` then promises after a stop.

## 6. What the code does not keep

Each has a run that finds the counterexample, and an entry under `findings`.

- **The press before decides** (`stale_press`): `wait_for_button_press` returns
  when the button goes *down*, and the length read then is that of the press
  before. The first press after power-up always starts a candle.
- **A held button passes for a new one** (`held_button`): WASH_CYCLE and ESTOP
  wait for a level, not for an edge; a press that is held from IDLE on starts the
  scent motor.
- **The limit switch is inverted twice** (`door_switch`): by `GPIO_ACTIVE_LOW` in
  the overlay and by `val == 0` in `read_limit_switch`.
- **The fans are never controlled** (`fan_loop`): the thread takes the one unit of
  the semaphore and then loops while there is one. Only a second start without a
  stop in between, as in `CoolingUse`, enters the loop.
- **Moves start during an e-stop** (`flagged_move`).
- **Motor numbers** (`motor_numbers`): with the enum of `motor_step.h` the scent
  move is refused, the wax state moves the stirring motor, and STIRRING moves the
  wax motor for the lead screw and the scent motor for the stirrer. The comments do
  not agree either: `stateMachine.c:79-83` has wax 2 and stirring 3, the overlay and
  the defines, counted from 1, have stirring 2 and wax 3. The statement that the run
  checks is the overlay's, where the drivers are wired; counted from 1 the defines
  agree with it, and not with the other comment.
- **A stopped fan may be driven again** (`stop_race`): after two starts the tach
  thread is in its loop; a stop comes in while it takes its samples. The thread
  finishes its round: it finds the fans too slow, computes 5% from the records of 0
  that the stop left, drives them with it, and only then waits for a start.
- **SPI stepping mode is lost** (`spi_mode`): `motor_init_for_spi_stepping` sets
  bits 5 and 4 of CTRL3; the motor thread then writes the whole register with only
  DIR and STEP, so the first move takes the driver out of the mode again.

Of `fan_loop` there is also a proof: `NeverMonitored` shows that in the composed
system the loop is not entered in any behaviour.

`stop_all_motors`, which the comment at `stateMachine.c:384` means to call in ESTOP,
would need more than the call: it gives a completion for every motor, so the next
`motor_move` of a motor that had none under way returns before its move is made,
and it clears a command that the motor thread may already be executing. The slot is
then free: if the motor is moved again before the thread is done, the thread clears
that command too (`motors.c:391`) and gives its completion, and the move is never
made. A second stop could do worse. `completion_sem` counts to 1, so the second stop's unit is lost if
nobody has taken the first one's; with three callers, one motor and two stops TLC
finds a caller that sleeps for ever. `NobodyIsStranded` shows that one stop cannot.

Four more have no run. Two because nothing but a comment's number is at stake:
`sensors.h:33` says "with timeout" of a wait that has none, and the 60 seconds of
`stateMachine.c:233` are 120 pauses and a 121st. Two because no interleaving is needed
to see them: the wick servo is started with a pulse of 1500 microseconds
(`servos.c:115`), which the comment at `servos.c:142` calls stopped, so it never turns
(`WICK_TURN = WICK_STOP` in `Servos`); and the comment at `stateMachine.c:59-60` lists
"temperature is too high -> e-stop" as an exit of the wick state, where the wait for the
beam (`servos.c:135`) has none: the liveness properties exempt it by name.
