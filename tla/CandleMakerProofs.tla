------------------------- MODULE CandleMakerProofs --------------------------
(***************************************************************************)
(* Theorems about CandleMaker, for every choice of failing drivers,        *)
(* thermistor readings, press lengths, fans, motor numbering and door      *)
(* timeout that the assumptions allow.                                     *)
(***************************************************************************)
EXTENDS CandleMaker, CoolingProofs

-----------------------------------------------------------------------------
(* What the drivers return. *)

\* A driver call yields TRUE or FALSE.
LEMMA OutcomeIsBoolean == \A d : Outcome(d) \subseteq BOOLEAN
  BY DEF Outcome

-----------------------------------------------------------------------------
(* The parts keep their types. *)

\* No step of the temperature thread leaves the types of heating.c's state.
LEMMA TempThreadType == HeatingTypeOK /\ TempSafetyThread => HeatingTypeOK'
<1> SUFFICES ASSUME HeatingTypeOK, TempSafetyThread PROVE HeatingTypeOK'
  OBVIOUS
<1> USE DEF HeatingTypeOK
<1>1. CASE TempNotReady
  BY <1>1 DEF TempNotReady, heatingVars
<1>2. CASE TempSample
  BY <1>2, ReadingsAssumption DEF TempSample, read_thermistor_temp
<1>3. CASE TempCutoff
  BY <1>3 DEF TempCutoff, set_heating
<1>4. CASE TempFlag
  BY <1>4 DEF TempFlag
<1>5. QED
  BY <1>1, <1>2, <1>3, <1>4 DEF TempSafetyThread

-----------------------------------------------------------------------------
(* TypeOK. *)

\* The states that have the types of the four parts keep them when the part does
\* not change.
LEMMA PartsStay ==
  /\ HeatingTypeOK /\ UNCHANGED heatingVars => HeatingTypeOK'
  /\ SensorsTypeOK /\ UNCHANGED sensorsVars => SensorsTypeOK'
  /\ ServosTypeOK /\ UNCHANGED servosVars => ServosTypeOK'
  /\ CoolingTypeOK /\ UNCHANGED coolingVars => CoolingTypeOK'
  BY DEF HeatingTypeOK, heatingVars, SensorsTypeOK, sensorsVars, ServosTypeOK,
     servosVars, CoolingTypeOK, coolingVars

\* The motor numbers are small.
LEMMA MotorNumbers ==
  /\ SCENT_ID \in 0..4 /\ STIR_ID \in 0..4
  /\ WAX_ID \in 0..4 /\ LEAD_SCREW_ID \in 0..4
  BY FirstMotorAssumption DEF SCENT_ID, STIR_ID, WAX_ID, LEAD_SCREW_ID

\* A move of the lead screw misses what the bus loses meanwhile, and nothing else.
LEMMA ScrewTurnsLosing ==
  ASSUME NEW n \in Int, screw \in Int, lost \in 0..MaxLost, ScrewTurns(n)
  PROVE  /\ screw' \in Int /\ lost' \in lost..MaxLost
         /\ screw' - (screw + n) <= lost' - lost
         /\ (screw + n) - screw' <= lost' - lost
         /\ (0 <= screw' - screw /\ screw' - screw <= n)
              \/ (n <= screw' - screw /\ screw' - screw <= 0)
         /\ "spi" \notin Faults => screw' = screw + n /\ lost' = lost
<1>1. PICK missed \in 0..(MaxLost - lost) :
        /\ missed <= n \/ missed <= -n
        /\ screw' = screw + (IF n >= 0 THEN n - missed ELSE n + missed)
        /\ lost' = lost + missed
        /\ "spi" \notin Faults => missed = 0
  BY MaxLostAssumption DEF ScrewTurns
<1>2. QED
  BY <1>1, MaxLostAssumption

\* TypeOK holds of every reachable state (src/src/stateMachine.c and the parts it
\* drives): in particular INIT_CHECK never polls more often than it grants.
THEOREM TypeCorrect == Spec => []TypeOK
<1>1. Init => TypeOK
  <2>1. HeatingInit => HeatingTypeOK
    <3>1. HeatingInit => adc_ready \in BOOLEAN
      BY OutcomeIsBoolean, Zenon DEF HeatingInit
    <3>2. HeatingInit => heating_pin \in BOOLEAN /\ estop_flag \in BOOLEAN
      BY Zenon DEF HeatingInit
    <3>3. HeatingInit => current_temp \in Int
      BY DEF HeatingInit
    <3>4. QED
      BY <3>1, <3>2, <3>3 DEF HeatingInit, HeatingTypeOK
  <2>2. SensorsInit => SensorsTypeOK
    BY DEF SensorsInit, SensorsTypeOK, LedModes
  <2>3. ServosInit => ServosTypeOK
    BY DEF ServosInit, ServosTypeOK
  <2>4. CoolingInit => CoolingTypeOK
    BY CoolingInitType
  <2>5. StateMachineInit => job \in [id : 0..4, steps : Int]
    BY DEF StateMachineInit, NoJob
  <2>6. StateMachineInit => pc \in Pcs /\ current \in States
    BY DEF StateMachineInit, Pcs, States
  <2>7. StateMachineInit => timeout_count \in 0..DoorTimeout
    BY DoorTimeoutAssumption DEF StateMachineInit
  <2>8. StateMachineInit => /\ wash_cycle \in BOOLEAN
                            /\ preempted \in BOOLEAN /\ fresh_press \in BOOLEAN
    BY Zenon DEF StateMachineInit
  <2>9. StateMachineInit => err \in {0, -1} /\ screw \in Int /\ lost \in 0..MaxLost
    BY MaxLostAssumption DEF StateMachineInit
  <2>10. QED
    BY <2>1, <2>2, <2>3, <2>4, <2>5, <2>6, <2>7, <2>8, <2>9 DEF Init, TypeOK
<1>2. TypeOK /\ [Next]_vars => TypeOK'
  <2> SUFFICES ASSUME TypeOK, [Next]_vars PROVE TypeOK'
    OBVIOUS
  <2>1. CASE Boot
    <3>1. HeatingTypeOK'
      BY <2>1 DEF Boot, heating_init, clear_estop_flag, TypeOK, HeatingTypeOK
    <3>2. CoolingTypeOK'
      BY <2>1 DEF Boot, cooling_init, stop_fans, TypeOK, CoolingTypeOK
    <3>3. pc' \in Pcs
      BY <2>1 DEF Boot, Pcs
    <3>4. QED
      BY <2>1, <3>1, <3>2, <3>3, PartsStay DEF Boot, MainAt, motorVars, TypeOK
  <2>2. CASE MotorInit
    BY <2>2, PartsStay DEF MotorInit, InitDevice, motorVars, MainAt, TypeOK,
       Pcs
  <2>3. CASE DoorLockInit
    BY <2>3, PartsStay DEF DoorLockInit, InitDevice, motorVars, MainAt,
       TypeOK, Pcs
  <2>4. CASE SensorsStart
    BY <2>4, PartsStay DEF SensorsStart, InitDevice, motorVars, MainAt,
       TypeOK, Pcs
  <2>5. CASE IdleEnter
    BY <2>5, PartsStay DEF IdleEnter, At, set_status_led_mode, SensorsTypeOK,
       LedModes, motorVars, MainAt, TypeOK, Pcs
  <2>6. CASE IdlePressed
    BY <2>6, PartsStay DEF IdlePressed, motorVars, MainAt, TypeOK, Pcs
  <2>7. CASE IdleRead
    BY <2>7, PartsStay DEF IdleRead, set_status_led_mode, SensorsTypeOK,
       LedModes, motorVars, MainAt, GoTo, StayIn, TypeOK, Pcs, States
  <2>8. CASE IdleReread
    BY <2>8, PartsStay DEF IdleReread, set_status_led_mode, SensorsTypeOK,
       LedModes, motorVars, MainAt, GoTo, TypeOK, Pcs, States
  <2>9. CASE WashEnter
    BY <2>9, PartsStay DEF WashEnter, At, set_status_led_mode, SensorsTypeOK,
       LedModes, motorVars, MainAt, TypeOK, Pcs
  <2>10. CASE WashPressed
    <3>1. motor_move(SCENT_ID, STEPS, "WASH_CYCLE", "wash_moving")
      BY <2>10 DEF WashPressed
    <3>2. /\ pc' \in Pcs /\ current' \in States
          /\ job' \in [id : 0..4, steps : Int]
          /\ err' \in {0, -1} /\ screw' \in Int /\ lost' \in 0..MaxLost
      BY <3>1, MotorNumbers DEF motor_move, StayIn, NoJob, STEPS, TypeOK,
         States, Pcs, MovingPcs
    <3>3. QED
      BY <2>10, <3>2, PartsStay DEF WashPressed, MainAt, TypeOK
  <2>11. CASE WashDone
    BY <2>11, PartsStay DEF WashDone, Returned, MoveOver, set_status_led_mode,
       SensorsTypeOK, LedModes, MainAt, GoTo, TypeOK, Pcs, States
  <2>12. CASE InitCheck
    BY <2>12, PartsStay DEF InitCheck, At, set_status_led_mode, SampleDoor,
       LockDoor, door_lock, ServosTypeOK, SensorsTypeOK, LedModes, motorVars,
       MainAt, GoTo, StayIn, TypeOK, Pcs, States
  <2>13. CASE DoorPoll
    BY <2>13, PartsStay, DoorTimeoutAssumption DEF DoorPoll, SampleDoor,
       LockDoor, door_lock, ServosTypeOK, SensorsTypeOK, motorVars, MainAt,
       GoTo, StayIn, TypeOK, Pcs, States
  <2>14. CASE LockSettled
    BY <2>14, PartsStay DEF LockSettled, set_status_led_mode, SensorsTypeOK,
       LedModes, motorVars, MainAt, GoTo, TypeOK, Pcs, States
  <2>15. CASE StartHeating
    BY <2>15, PartsStay DEF StartHeating, At, set_heating, HeatingTypeOK,
       motorVars, MainAt, GoTo, TypeOK, States
  <2>16. CASE WaxDispense
    <3>1. motor_move(WAX_ID, STEPS, "WAX_DISPENSE", "wax_moving")
      BY <2>16 DEF WaxDispense
    <3>2. /\ pc' \in Pcs /\ current' \in States
          /\ job' \in [id : 0..4, steps : Int]
          /\ err' \in {0, -1} /\ screw' \in Int /\ lost' \in 0..MaxLost
      BY <3>1, MotorNumbers DEF motor_move, StayIn, NoJob, STEPS, TypeOK,
         States, Pcs, MovingPcs
    <3>3. QED
      BY <2>16, <3>2, PartsStay DEF WaxDispense, At, MainAt, TypeOK
  <2>17. CASE WaxDone
    BY <2>17, PartsStay DEF WaxDone, Returned, MoveOver, MainAt, GoTo, TypeOK,
       Pcs, States
  <2>18. CASE WaitForTemp
    BY <2>18, PartsStay DEF WaitForTemp, At, set_heating, HeatingTypeOK,
       motorVars, MainAt, GoTo, TypeOK, States
  <2>19. CASE ScentDispense
    <3>1. motor_move(SCENT_ID, IF wash_cycle THEN STEPS + 3200 ELSE STEPS,
                     "SCENT_DISPENSE", "scent_moving")
      BY <2>19 DEF ScentDispense
    <3>2. /\ pc' \in Pcs /\ current' \in States
          /\ job' \in [id : 0..4, steps : Int]
          /\ err' \in {0, -1} /\ screw' \in Int /\ lost' \in 0..MaxLost
      BY <3>1, MotorNumbers DEF motor_move, StayIn, NoJob, STEPS, TypeOK,
         States, Pcs, MovingPcs
    <3>3. QED
      BY <2>19, <3>2, PartsStay DEF ScentDispense, At, MainAt, TypeOK
  <2>20. CASE ScentDone
    BY <2>20, PartsStay DEF ScentDone, Returned, MoveOver, MainAt, GoTo,
       TypeOK, Pcs, States
  <2>21. CASE StirLower
    <3>1. motor_move(LEAD_SCREW_ID, STEPS, "STIRRING", "screw_down")
      BY <2>21 DEF StirLower
    <3>2. /\ pc' \in Pcs /\ current' \in States
          /\ job' \in [id : 0..4, steps : Int]
          /\ err' \in {0, -1} /\ screw' \in Int /\ lost' \in 0..MaxLost
      BY <3>1, MotorNumbers DEF motor_move, StayIn, NoJob, STEPS, TypeOK,
         States, Pcs, MovingPcs
    <3>3. QED
      BY <2>21, <3>2, PartsStay DEF StirLower, At, MainAt, TypeOK
  <2>22. CASE Stir
    <3>1. motor_move(STIR_ID, STEPS, "STIRRING", "stirring")
      BY <2>22 DEF Stir
    <3>2. /\ pc' \in Pcs /\ current' \in States
          /\ job' \in [id : 0..4, steps : Int]
          /\ err' \in {0, -1} /\ screw' \in Int /\ lost' \in 0..MaxLost
      BY <3>1, MotorNumbers DEF motor_move, StayIn, NoJob, STEPS, TypeOK,
         States, Pcs, MovingPcs
    <3>3. QED
      BY <2>22, <3>2, PartsStay DEF Stir, Returned, MainAt, TypeOK
  <2>23. CASE StirRaise
    <3>1. motor_move(LEAD_SCREW_ID, -STEPS, "STIRRING", "screw_up")
      BY <2>23 DEF StirRaise
    <3>2. /\ pc' \in Pcs /\ current' \in States
          /\ job' \in [id : 0..4, steps : Int]
          /\ err' \in {0, -1} /\ screw' \in Int /\ lost' \in 0..MaxLost
      BY <3>1, MotorNumbers DEF motor_move, StayIn, NoJob, STEPS, TypeOK,
         States, Pcs, MovingPcs
    <3>3. QED
      BY <2>23, <3>2, PartsStay DEF StirRaise, Returned, MainAt, TypeOK
  <2>24. CASE StirDone
    BY <2>24, PartsStay DEF StirDone, Returned, MoveOver, MainAt, GoTo,
       TypeOK, Pcs, States
  <2>25. CASE WickInsert
    <3>1. HeatingTypeOK'
      BY <2>25 DEF WickInsert, set_heating, TypeOK, HeatingTypeOK
    <3>2. CoolingTypeOK'
      BY <2>25, CoolingCallsType, PartsStay DEF WickInsert, TypeOK
    <3>3. ServosTypeOK'
      BY <2>25, PartsStay DEF WickInsert, PurgeWickQueue, TypeOK, ServosTypeOK
    <3>4. pc' \in Pcs /\ current' \in States
      BY <2>25 DEF WickInsert, GoTo, StayIn, Pcs, States
    <3>5. QED
      BY <2>25, <3>1, <3>2, <3>3, <3>4, PartsStay DEF WickInsert, At, MainAt,
         motorVars, TypeOK
  <2>26. CASE WickStart
    BY <2>26, PartsStay DEF WickStart, StartWickServo, ServosTypeOK,
       motorVars, MainAt, GoTo, StayIn, TypeOK, Pcs, States
  <2>27. CASE WickDropped
    BY <2>27, PartsStay DEF WickDropped, TakeWickMessage, ServosTypeOK,
       motorVars, MainAt, StayIn, TypeOK, Pcs, States
  <2>28. CASE WickDone
    BY <2>28, PartsStay DEF WickDone, StopWickServo, ServosTypeOK, motorVars,
       MainAt, GoTo, TypeOK, Pcs, States
  <2>29. CASE CoolingEnter
    BY <2>29, PartsStay DEF CoolingEnter, At, motorVars, MainAt, TypeOK, Pcs
  <2>30. CASE CoolingDone
    BY <2>30, PartsStay, CoolingCallsType DEF CoolingDone, motorVars, MainAt,
       GoTo, TypeOK, Pcs, States
  <2>31. CASE EndState
    BY <2>31, PartsStay DEF EndState, At, CycleOver, door_unlock,
       ServosTypeOK, motorVars, MainAt, GoTo, StayIn, TypeOK, Pcs, States
  <2>32. CASE UnlockSettled
    BY <2>32, PartsStay DEF UnlockSettled, CycleOver, motorVars, MainAt, GoTo,
       TypeOK, Pcs, States
  <2>33. CASE Estop
    BY <2>33, PartsStay, CoolingCallsType DEF Estop, At, set_heating,
       HeatingTypeOK, motorVars, MainAt, StayIn, TypeOK, Pcs, States
  <2>34. CASE EstopReset
    BY <2>34, PartsStay DEF EstopReset, CycleOver, clear_estop_flag,
       HeatingTypeOK, motorVars, MainAt, GoTo, TypeOK, Pcs, States
  <2>35. CASE MotorThread
    <3>1. screw' \in Int /\ lost' \in 0..MaxLost
      <4>1. CASE ScrewTurns(job.steps)
        <5>1. job.steps \in Int /\ screw \in Int /\ lost \in 0..MaxLost
          BY DEF TypeOK
        <5>2. QED
          BY <4>1, <5>1, ScrewTurnsLosing, MaxLostAssumption
      <4>2. CASE UNCHANGED <<screw, lost>>
        BY <4>2 DEF TypeOK
      <4>3. QED
        BY <2>35, <4>1, <4>2 DEF MotorThread
    <3>2. QED
      BY <2>35, <3>1, PartsStay DEF MotorThread, NoJob, mainVars, TypeOK
  <2>36. CASE TempThread
    BY <2>36, PartsStay, TempThreadType DEF TempThread, mainVars, motorVars,
       TypeOK
  <2>37. CASE FanThread
    BY <2>37, PartsStay, TachThreadType DEF FanThread, mainVars, motorVars,
       TypeOK
  <2>38. CASE ButtonIsr
    <3>1. SensorsTypeOK'
      BY <2>38 DEF ButtonIsr, ButtonPress, ButtonRelease, TypeOK,
         SensorsTypeOK
    <3>2. fresh_press' \in BOOLEAN
      <4>1. CASE ButtonPress /\ fresh_press' = (pc \in {"wash_wait", "estop_wait"})
        BY <4>1
      <4>2. CASE UNCHANGED fresh_press
        BY <4>2 DEF TypeOK
      <4>3. QED
        BY <2>38, <4>1, <4>2 DEF ButtonIsr
    <3>3. QED
      BY <2>38, <3>1, <3>2, PartsStay DEF ButtonIsr, mainVars, motorVars,
         TypeOK
  <2>39. CASE BeamIsr
    BY <2>39, PartsStay DEF BeamIsr, thru_beam_isr, ServosTypeOK, mainVars,
       motorVars, TypeOK
  <2>40. CASE UNCHANGED vars
    BY <2>40, PartsStay DEF vars, mainVars, motorVars, TypeOK
  <2>41. QED
    BY <2>1, <2>2, <2>3, <2>4, <2>5, <2>6, <2>7, <2>8, <2>9, <2>10, <2>11,
       <2>12, <2>13, <2>14, <2>15, <2>16, <2>17, <2>18, <2>19, <2>20, <2>21,
       <2>22, <2>23, <2>24, <2>25, <2>26, <2>27, <2>28, <2>29, <2>30, <2>31,
       <2>32, <2>33, <2>34, <2>35, <2>36, <2>37, <2>38, <2>39, <2>40 DEF Next,
       Main, Environment
<1>3. QED
  BY <1>1, <1>2, PTL DEF Spec

-----------------------------------------------------------------------------
(* HeaterBehindLockedDoor. *)

\* The heater is off for good once the wick is being inserted.
Cold ==
    \/ current \in {"COOLING", "ENDSTATE"}
    \/ current = "WICK_INSERT" /\ pc # "loop"

\* The temperature thread never turns the heater on.
LEMMA TempThreadOnlyCuts == TempSafetyThread => (heating_pin' => heating_pin)
<1>1. TempNotReady => (heating_pin' => heating_pin)
  BY DEF TempNotReady, heatingVars
<1>2. TempSample => (heating_pin' => heating_pin)
  BY DEF TempSample
<1>3. TempCutoff => (heating_pin' => heating_pin)
  BY DEF TempCutoff, set_heating
<1>4. TempFlag => (heating_pin' => heating_pin)
  BY DEF TempFlag
<1>5. QED
  BY <1>1, <1>2, <1>3, <1>4 DEF TempSafetyThread

\* HeaterBehindLockedDoor is not inductive: that HEATING finds the door locked
\* and ENDSTATE the heater off is decided several states before.
HeaterInv ==
    /\ HeaterBehindLockedDoor
    /\ current = "HEATING" \/ pc = "lock_settle" => door_servo = LOCKED
    /\ Cold => ~heating_pin
    /\ pc \in {"wick_start", "wick_wait", "wick_extra"} => current = "WICK_INSERT"
    /\ pc = "cooling_sleep" => current = "COOLING"

\* HeaterInv is an invariant.
LEMMA HeaterInvariant == Spec => []HeaterInv
<1>1. Init => HeaterInv
  BY DEF Init, HeatingInit, StateMachineInit, HeaterInv,
     HeaterBehindLockedDoor
<1>2. HeaterInv /\ [Next]_vars => HeaterInv'
  <2> SUFFICES ASSUME HeaterInv, [Next]_vars PROVE HeaterInv'
    OBVIOUS
  <2> USE DEF HeaterInv, HeaterBehindLockedDoor, Cold
  <2>1. CASE Boot
    BY <2>1 DEF Boot, heating_init, servosVars
  <2>2. CASE MotorInit
    BY <2>2 DEF MotorInit, InitDevice, MainAt, heatingVars, servosVars
  <2>3. CASE DoorLockInit
    BY <2>3 DEF DoorLockInit, InitDevice, MainAt, heatingVars, servosVars
  <2>4. CASE SensorsStart
    BY <2>4 DEF SensorsStart, InitDevice, MainAt, heatingVars, servosVars
  <2>5. CASE IdleEnter
    BY <2>5 DEF IdleEnter, At, Dispatched, heatingVars, servosVars
  <2>6. CASE IdlePressed
    BY <2>6 DEF IdlePressed, MainAt, heatingVars, servosVars
  <2>7. CASE IdleRead
    BY <2>7 DEF IdleRead, GoTo, StayIn, heatingVars, servosVars
  <2>8. CASE IdleReread
    BY <2>8 DEF IdleReread, GoTo, heatingVars, servosVars
  <2>9. CASE WashEnter
    BY <2>9 DEF WashEnter, At, Dispatched, heatingVars, servosVars
  <2>10. CASE WashPressed
    BY <2>10 DEF WashPressed, motor_move, StayIn, heatingVars, servosVars
  <2>11. CASE WashDone
    BY <2>11 DEF WashDone, GoTo, heatingVars, servosVars
  <2>12. CASE InitCheck
    BY <2>12 DEF InitCheck, LockDoor, door_lock, GoTo, StayIn, heatingVars
  <2>13. CASE DoorPoll
    BY <2>13 DEF DoorPoll, LockDoor, door_lock, GoTo, StayIn, heatingVars
  <2>14. CASE LockSettled
    BY <2>14 DEF LockSettled, MainAt, GoTo, servosVars
  <2>15. CASE StartHeating
    BY <2>15 DEF StartHeating, At, Dispatched, GoTo, servosVars
  <2>16. CASE WaxDispense
    BY <2>16 DEF WaxDispense, motor_move, StayIn, heatingVars, servosVars
  <2>17. CASE WaxDone
    BY <2>17 DEF WaxDone, GoTo, heatingVars, servosVars
  <2>18. CASE WaitForTemp
    BY <2>18 DEF WaitForTemp, set_heating, GoTo, servosVars
  <2>19. CASE ScentDispense
    BY <2>19 DEF ScentDispense, motor_move, StayIn, heatingVars, servosVars
  <2>20. CASE ScentDone
    BY <2>20 DEF ScentDone, GoTo, heatingVars, servosVars
  <2>21. CASE StirLower
    BY <2>21 DEF StirLower, motor_move, StayIn, heatingVars, servosVars
  <2>22. CASE Stir
    BY <2>22 DEF Stir, motor_move, StayIn, heatingVars, servosVars
  <2>23. CASE StirRaise
    BY <2>23 DEF StirRaise, motor_move, StayIn, heatingVars, servosVars
  <2>24. CASE StirDone
    BY <2>24 DEF StirDone, GoTo, heatingVars, servosVars
  <2>25. CASE WickInsert
    BY <2>25 DEF WickInsert, set_heating, GoTo, StayIn, servosVars
  <2>26. CASE WickStart
    BY <2>26 DEF WickStart, MainAt, GoTo, StayIn, heatingVars
  <2>27. CASE WickDropped
    BY <2>27 DEF WickDropped, MainAt, StayIn, heatingVars
  <2>28. CASE WickDone
    BY <2>28 DEF WickDone, MainAt, GoTo, heatingVars
  <2>29. CASE CoolingEnter
    BY <2>29 DEF CoolingEnter, At, Dispatched, heatingVars
  <2>30. CASE CoolingDone
    BY <2>30 DEF CoolingDone, MainAt, GoTo, heatingVars
  <2>31. CASE EndState
    BY <2>31 DEF EndState, At, Dispatched, CycleOver, GoTo, StayIn,
       heatingVars
  <2>32. CASE UnlockSettled
    BY <2>32 DEF UnlockSettled, CycleOver, GoTo, heatingVars, servosVars
  <2>33. CASE Estop
    BY <2>33 DEF Estop, set_heating, StayIn, servosVars
  <2>34. CASE EstopReset
    BY <2>34 DEF EstopReset, CycleOver, GoTo, servosVars
  <2>35. CASE MotorThread
    BY <2>35 DEF MotorThread, mainVars, heatingVars, servosVars
  <2>36. CASE TempThread
    BY <2>36, TempThreadOnlyCuts DEF TempThread, TempThread, servosVars,
       mainVars
  <2>37. CASE FanThread
    BY <2>37 DEF FanThread, mainVars, heatingVars, servosVars
  <2>38. CASE ButtonIsr
    BY <2>38 DEF ButtonIsr, mainVars, heatingVars, servosVars
  <2>39. CASE BeamIsr
    BY <2>39 DEF BeamIsr, thru_beam_isr, mainVars, heatingVars
  <2>40. CASE UNCHANGED vars
    BY <2>40 DEF vars, mainVars, heatingVars, servosVars
  <2>41. QED
    BY <2>1, <2>2, <2>3, <2>4, <2>5, <2>6, <2>7, <2>8, <2>9, <2>10, <2>11,
       <2>12, <2>13, <2>14, <2>15, <2>16, <2>17, <2>18, <2>19, <2>20, <2>21,
       <2>22, <2>23, <2>24, <2>25, <2>26, <2>27, <2>28, <2>29, <2>30, <2>31,
       <2>32, <2>33, <2>34, <2>35, <2>36, <2>37, <2>38, <2>39, <2>40 DEF Next,
       Main, Environment
<1>3. QED
  BY <1>1, <1>2, PTL DEF Spec

\* Whatever drivers fail and however hot it gets, the heater is never on behind a
\* door that is not locked (stateMachine.c:242-247, 256, 329, 367, heating.c:82).
THEOREM HeaterSafe == Spec => []HeaterBehindLockedDoor
<1>1. HeaterInv => HeaterBehindLockedDoor
  BY DEF HeaterInv
<1>2. QED
  BY <1>1, HeaterInvariant, PTL

-----------------------------------------------------------------------------
(* FreshWick. *)

\* While main waits for the wick, a message in the queue is one that came after
\* the purge.
WickInv ==
    /\ FreshWick
    /\ pc \in {"wick_start", "wick_wait"} =>
          wick_run # "no" /\ (wick_msgq = 1 => wick_run = "dropped")

\* The wick servo is stopped only for a wick that dropped since move_wick_servo
\* emptied its queue (servos.c:119-123, 135), wherever interrupts come in.
THEOREM WickIsFresh == Spec => []FreshWick
<1>1. Init => WickInv
  BY DEF Init, StateMachineInit, WickInv, FreshWick
<1>2. WickInv /\ [Next]_vars => WickInv'
  <2> SUFFICES ASSUME WickInv, [Next]_vars PROVE WickInv'
    OBVIOUS
  <2> USE DEF WickInv, FreshWick
  <2>1. CASE Boot
    BY <2>1 DEF Boot
  <2>2. CASE MotorInit
    BY <2>2 DEF MotorInit, InitDevice
  <2>3. CASE DoorLockInit
    BY <2>3 DEF DoorLockInit, InitDevice
  <2>4. CASE SensorsStart
    BY <2>4 DEF SensorsStart, InitDevice
  <2>5. CASE IdleEnter
    BY <2>5 DEF IdleEnter
  <2>6. CASE IdlePressed
    BY <2>6 DEF IdlePressed
  <2>7. CASE IdleRead
    BY <2>7 DEF IdleRead, GoTo, StayIn
  <2>8. CASE IdleReread
    BY <2>8 DEF IdleReread, GoTo
  <2>9. CASE WashEnter
    BY <2>9 DEF WashEnter
  <2>10. CASE WashPressed
    BY <2>10 DEF WashPressed, motor_move, StayIn
  <2>11. CASE WashDone
    BY <2>11 DEF WashDone, GoTo
  <2>12. CASE InitCheck
    BY <2>12 DEF InitCheck, LockDoor, GoTo, StayIn
  <2>13. CASE DoorPoll
    BY <2>13 DEF DoorPoll, LockDoor, GoTo, StayIn
  <2>14. CASE LockSettled
    BY <2>14 DEF LockSettled, GoTo
  <2>15. CASE StartHeating
    BY <2>15 DEF StartHeating, GoTo
  <2>16. CASE WaxDispense
    BY <2>16 DEF WaxDispense, motor_move, StayIn
  <2>17. CASE WaxDone
    BY <2>17 DEF WaxDone, GoTo
  <2>18. CASE WaitForTemp
    BY <2>18 DEF WaitForTemp, GoTo
  <2>19. CASE ScentDispense
    BY <2>19 DEF ScentDispense, motor_move, StayIn
  <2>20. CASE ScentDone
    BY <2>20 DEF ScentDone, GoTo
  <2>21. CASE StirLower
    BY <2>21 DEF StirLower, motor_move, StayIn
  <2>22. CASE Stir
    BY <2>22 DEF Stir, motor_move, StayIn
  <2>23. CASE StirRaise
    BY <2>23 DEF StirRaise, motor_move, StayIn
  <2>24. CASE StirDone
    BY <2>24 DEF StirDone, GoTo
  <2>25. CASE WickInsert
    BY <2>25 DEF WickInsert, PurgeWickQueue, GoTo, StayIn
  <2>26. CASE WickStart
    BY <2>26 DEF WickStart, MainAt, StartWickServo, GoTo, StayIn
  <2>27. CASE WickDropped
    BY <2>27 DEF WickDropped, MainAt, TakeWickMessage
  <2>28. CASE WickDone
    BY <2>28 DEF WickDone, GoTo
  <2>29. CASE CoolingEnter
    BY <2>29 DEF CoolingEnter
  <2>30. CASE CoolingDone
    BY <2>30 DEF CoolingDone, GoTo
  <2>31. CASE EndState
    BY <2>31 DEF EndState, CycleOver, GoTo, StayIn
  <2>32. CASE UnlockSettled
    BY <2>32 DEF UnlockSettled, CycleOver, GoTo
  <2>33. CASE Estop
    BY <2>33 DEF Estop, StayIn
  <2>34. CASE EstopReset
    BY <2>34 DEF EstopReset, CycleOver, GoTo
  <2>35. CASE MotorThread
    BY <2>35 DEF MotorThread, mainVars, servosVars
  <2>36. CASE TempThread
    BY <2>36 DEF TempThread, servosVars, mainVars
  <2>37. CASE FanThread
    BY <2>37 DEF FanThread, mainVars, servosVars
  <2>38. CASE ButtonIsr
    BY <2>38 DEF ButtonIsr, mainVars, servosVars
  <2>39. CASE BeamIsr
    BY <2>39 DEF BeamIsr, thru_beam_isr, mainVars
  <2>40. CASE UNCHANGED vars
    BY <2>40 DEF vars, mainVars, servosVars
  <2>41. QED
    BY <2>1, <2>2, <2>3, <2>4, <2>5, <2>6, <2>7, <2>8, <2>9, <2>10, <2>11,
       <2>12, <2>13, <2>14, <2>15, <2>16, <2>17, <2>18, <2>19, <2>20, <2>21,
       <2>22, <2>23, <2>24, <2>25, <2>26, <2>27, <2>28, <2>29, <2>30, <2>31,
       <2>32, <2>33, <2>34, <2>35, <2>36, <2>37, <2>38, <2>39, <2>40 DEF Next,
       Main, Environment
<1>3. WickInv => FreshWick
  BY DEF WickInv
<1>4. QED
  BY <1>1, <1>2, <1>3, PTL DEF Spec

-----------------------------------------------------------------------------
(* StirrerRaised. *)

\* Where main stands with the lead screw down.
Lowered ==
    \/ pc = "screw_down" /\ job = NoJob
    \/ pc = "stirring"
    \/ pc = "screw_up" /\ job # NoJob

\* The position of the screw follows, but for the steps lost, from where main is
\* and whether the motor thread is done with the move that main waits for.
ScrewInv ==
    /\ screw - (IF Lowered THEN STEPS ELSE 0) \in -lost..lost
    /\ "spi" \notin Faults => lost = 0
    /\ pc \in {"screw_down", "stirring", "screw_up"} => current = "STIRRING"
    /\ job # NoJob =>
          /\ pc \in MovingPcs
          /\ job.id = LEAD_SCREW_ID => pc \in {"screw_down", "screw_up"}
          /\ pc = "screw_down" =>
                job = [id |-> LEAD_SCREW_ID, steps |-> STEPS]
          /\ pc = "screw_up" =>
                job = [id |-> LEAD_SCREW_ID, steps |-> -STEPS]

\* What is off before a move is off after it by no more than what the move loses.
LEMMA Drift ==
  ASSUME NEW x \in Int, NEW y \in Int, NEW n \in Int, NEW a \in Int,
         NEW l \in Int, NEW k \in Int,
         x - a \in -l..l, y - (x + n) <= k - l, (x + n) - y <= k - l
  PROVE  y - (a + n) \in -k..k
  OBVIOUS

\* ScrewInv is an invariant.
LEMMA ScrewInvariant == Spec => []ScrewInv
<1>1. Init => ScrewInv
  BY DEF Init, StateMachineInit, ScrewInv, Lowered
<1>2. TypeOK /\ ScrewInv /\ [Next]_vars => ScrewInv'
  <2> SUFFICES ASSUME TypeOK, ScrewInv, [Next]_vars PROVE ScrewInv'
    OBVIOUS
  <2> USE DEF ScrewInv, Lowered, MovingPcs
  <2>1. CASE Boot
    BY <2>1 DEF Boot, MainAt, motorVars
  <2>2. CASE MotorInit
    BY <2>2 DEF MotorInit, InitDevice, MainAt, motorVars
  <2>3. CASE DoorLockInit
    BY <2>3 DEF DoorLockInit, InitDevice, MainAt, motorVars
  <2>4. CASE SensorsStart
    BY <2>4 DEF SensorsStart, InitDevice, MainAt, motorVars
  <2>5. CASE IdleEnter
    BY <2>5 DEF IdleEnter, At, MainAt, motorVars
  <2>6. CASE IdlePressed
    BY <2>6 DEF IdlePressed, MainAt, motorVars
  <2>7. CASE IdleRead
    BY <2>7 DEF IdleRead, MainAt, GoTo, StayIn, motorVars
  <2>8. CASE IdleReread
    BY <2>8 DEF IdleReread, MainAt, GoTo, motorVars
  <2>9. CASE WashEnter
    BY <2>9 DEF WashEnter, At, MainAt, motorVars
  <2>10. CASE WashPressed
    BY <2>10, FirstMotorAssumption DEF WashPressed, MainAt, motor_move,
       StayIn, SCENT_ID, LEAD_SCREW_ID
  <2>11. CASE WashDone
    BY <2>11 DEF WashDone, Returned, MainAt, GoTo, MoveOver
  <2>12. CASE InitCheck
    BY <2>12 DEF InitCheck, At, MainAt, LockDoor, GoTo, StayIn, motorVars
  <2>13. CASE DoorPoll
    BY <2>13 DEF DoorPoll, MainAt, LockDoor, GoTo, StayIn, motorVars
  <2>14. CASE LockSettled
    BY <2>14 DEF LockSettled, MainAt, GoTo, motorVars
  <2>15. CASE StartHeating
    BY <2>15 DEF StartHeating, At, MainAt, GoTo, motorVars
  <2>16. CASE WaxDispense
    BY <2>16, FirstMotorAssumption DEF WaxDispense, At, MainAt, motor_move,
       StayIn, WAX_ID, LEAD_SCREW_ID
  <2>17. CASE WaxDone
    BY <2>17 DEF WaxDone, Returned, MainAt, GoTo, MoveOver
  <2>18. CASE WaitForTemp
    BY <2>18 DEF WaitForTemp, At, MainAt, GoTo, motorVars
  <2>19. CASE ScentDispense
    BY <2>19, FirstMotorAssumption DEF ScentDispense, At, MainAt, motor_move,
       StayIn, SCENT_ID, LEAD_SCREW_ID
  <2>20. CASE ScentDone
    BY <2>20 DEF ScentDone, Returned, MainAt, GoTo, MoveOver
  <2>21. CASE StirLower
    BY <2>21, FirstMotorAssumption DEF StirLower, At, MainAt, motor_move,
       StayIn, NoJob, Motors, LEAD_SCREW_ID
  <2>22. CASE Stir
    BY <2>22, FirstMotorAssumption DEF Stir, Returned, MainAt, motor_move,
       StayIn, STIR_ID, LEAD_SCREW_ID
  <2>23. CASE StirRaise
    BY <2>23, FirstMotorAssumption DEF StirRaise, Returned, MainAt,
       motor_move, StayIn, NoJob, Motors, LEAD_SCREW_ID
  <2>24. CASE StirDone
    BY <2>24 DEF StirDone, Returned, MainAt, GoTo, MoveOver
  <2>25. CASE WickInsert
    BY <2>25 DEF WickInsert, GoTo, StayIn, At, MainAt, motorVars
  <2>26. CASE WickStart
    BY <2>26 DEF WickStart, MainAt, GoTo, StayIn, motorVars
  <2>27. CASE WickDropped
    BY <2>27 DEF WickDropped, MainAt, StayIn, motorVars
  <2>28. CASE WickDone
    BY <2>28 DEF WickDone, MainAt, GoTo, motorVars
  <2>29. CASE CoolingEnter
    BY <2>29 DEF CoolingEnter, At, MainAt, motorVars
  <2>30. CASE CoolingDone
    BY <2>30 DEF CoolingDone, MainAt, GoTo, motorVars
  <2>31. CASE EndState
    BY <2>31 DEF EndState, At, MainAt, CycleOver, GoTo, StayIn, motorVars
  <2>32. CASE UnlockSettled
    BY <2>32 DEF UnlockSettled, MainAt, CycleOver, GoTo, motorVars
  <2>33. CASE Estop
    BY <2>33 DEF Estop, At, MainAt, StayIn, motorVars
  <2>34. CASE EstopReset
    BY <2>34 DEF EstopReset, MainAt, CycleOver, GoTo, motorVars
  <2>35. CASE MotorThread
    <3>1. /\ job \in [id : 0..4, steps : Int]
          /\ screw \in Int /\ lost \in 0..MaxLost /\ lost \in Int
      BY MaxLostAssumption DEF TypeOK
    <3>2. /\ job # NoJob /\ job' = NoJob
          /\ pc' = pc /\ current' = current
          /\ IF job.id = LEAD_SCREW_ID THEN ScrewTurns(job.steps)
                                      ELSE UNCHANGED <<screw, lost>>
      BY <2>35 DEF MotorThread, mainVars
    <3>3. CASE job.id = LEAD_SCREW_ID
      <4>0. job.steps \in Int
        BY <3>1
      <4>1. /\ screw' \in Int /\ lost' \in Int
            /\ screw' - (screw + job.steps) <= lost' - lost
            /\ (screw + job.steps) - screw' <= lost' - lost
            /\ "spi" \notin Faults => lost' = lost
        BY <3>1, <3>2, <3>3, <4>0, ScrewTurnsLosing, MaxLostAssumption
      <4>2. \/ pc = "screw_down" /\ job = [id |-> LEAD_SCREW_ID, steps |-> STEPS]
            \/ pc = "screw_up" /\ job = [id |-> LEAD_SCREW_ID, steps |-> -STEPS]
        BY <3>2, <3>3
      <4>3. screw' - (IF Lowered' THEN STEPS ELSE 0) \in -lost'..lost'
        <5> DEFINE a == IF Lowered THEN STEPS ELSE 0
        <5>1. a \in Int /\ screw - a \in -lost..lost
          BY DEF STEPS
        <5>2. a + job.steps = IF Lowered' THEN STEPS ELSE 0
          BY <3>2, <4>2 DEF STEPS
        <5> HIDE DEF a
        <5>3. screw' - (a + job.steps) \in -lost'..lost'
          BY <3>1, <4>0, <4>1, <5>1, Drift
        <5>4. QED
          BY <5>2, <5>3
      <4>4. QED
        BY <3>2, <4>1, <4>3
    <3>4. CASE job.id # LEAD_SCREW_ID
      BY <3>1, <3>2, <3>4
    <3>5. QED
      BY <3>3, <3>4
  <2>36. CASE TempThread
    BY <2>36 DEF TempThread, mainVars, motorVars
  <2>37. CASE FanThread
    BY <2>37 DEF FanThread, mainVars, motorVars
  <2>38. CASE ButtonIsr
    BY <2>38 DEF ButtonIsr, mainVars, motorVars
  <2>39. CASE BeamIsr
    BY <2>39 DEF BeamIsr, mainVars, motorVars
  <2>40. CASE UNCHANGED vars
    BY <2>40 DEF vars, mainVars, motorVars
  <2>41. QED
    BY <2>1, <2>2, <2>3, <2>4, <2>5, <2>6, <2>7, <2>8, <2>9, <2>10, <2>11,
       <2>12, <2>13, <2>14, <2>15, <2>16, <2>17, <2>18, <2>19, <2>20, <2>21,
       <2>22, <2>23, <2>24, <2>25, <2>26, <2>27, <2>28, <2>29, <2>30, <2>31,
       <2>32, <2>33, <2>34, <2>35, <2>36, <2>37, <2>38, <2>39, <2>40 DEF Next,
       Main, Environment
<1>3. QED
  BY <1>1, <1>2, TypeCorrect, PTL DEF Spec

\* Outside STIRRING the stirrer is out of the wax but for the steps that the SPI bus
\* has lost: no e-stop, which main serves only between two states, finds it lowered
\* (stateMachine.c:308-321, 168, motors.c:375-383).
THEOREM StirrerIsRaised == Spec => []StirrerRaised
<1>1. TypeOK /\ ScrewInv => StirrerRaised
  BY DEF TypeOK, ScrewInv, Lowered, StirrerRaised
<1>2. QED
  BY <1>1, TypeCorrect, ScrewInvariant, PTL

\* On a bus that does not fail it is out of the wax to the step.
THEOREM StirrerIsFullyRaised ==
  ASSUME "spi" \notin Faults
  PROVE  Spec => [](current # "STIRRING" => screw = 0)
<1>1. TypeOK /\ ScrewInv => (current # "STIRRING" => screw = 0)
  BY DEF TypeOK, ScrewInv, Lowered
<1>2. QED
  BY <1>1, TypeCorrect, ScrewInvariant, PTL

-----------------------------------------------------------------------------
(* NoUnlockDuringEstop. *)

\* The only step that unlocks the door is ENDSTATE's, and main takes it only
\* when it has just found the flag down (stateMachine.c:168, 367).
THEOREM NoUnlock == Spec => NoUnlockDuringEstop
<1> DEFINE Unlocks == door_servo' = UNLOCKED /\ door_servo # UNLOCKED
<1>1. Next /\ Unlocks => ~estop_flag
  <2> SUFFICES ASSUME Next, Unlocks PROVE ~estop_flag
    OBVIOUS
  <2>1. CASE Boot
    BY <2>1 DEF Boot, servosVars
  <2>2. CASE MotorInit
    BY <2>2 DEF MotorInit, InitDevice, servosVars
  <2>3. CASE DoorLockInit
    BY <2>3 DEF DoorLockInit, InitDevice, servosVars
  <2>4. CASE SensorsStart
    BY <2>4 DEF SensorsStart, InitDevice, servosVars
  <2>5. CASE IdleEnter
    BY <2>5 DEF IdleEnter, servosVars
  <2>6. CASE IdlePressed
    BY <2>6 DEF IdlePressed, servosVars
  <2>7. CASE IdleRead
    BY <2>7 DEF IdleRead, servosVars
  <2>8. CASE IdleReread
    BY <2>8 DEF IdleReread, servosVars
  <2>9. CASE WashEnter
    BY <2>9 DEF WashEnter, servosVars
  <2>10. CASE WashPressed
    BY <2>10 DEF WashPressed, servosVars
  <2>11. CASE WashDone
    BY <2>11 DEF WashDone, servosVars
  <2>12. CASE InitCheck
    BY <2>12 DEF InitCheck, LockDoor, door_lock, LOCKED, UNLOCKED
  <2>13. CASE DoorPoll
    BY <2>13 DEF DoorPoll, LockDoor, door_lock, LOCKED, UNLOCKED
  <2>14. CASE LockSettled
    BY <2>14 DEF LockSettled, servosVars
  <2>15. CASE StartHeating
    BY <2>15 DEF StartHeating, servosVars
  <2>16. CASE WaxDispense
    BY <2>16 DEF WaxDispense, servosVars
  <2>17. CASE WaxDone
    BY <2>17 DEF WaxDone, servosVars
  <2>18. CASE WaitForTemp
    BY <2>18 DEF WaitForTemp, servosVars
  <2>19. CASE ScentDispense
    BY <2>19 DEF ScentDispense, servosVars
  <2>20. CASE ScentDone
    BY <2>20 DEF ScentDone, servosVars
  <2>21. CASE StirLower
    BY <2>21 DEF StirLower, servosVars
  <2>22. CASE Stir
    BY <2>22 DEF Stir, servosVars
  <2>23. CASE StirRaise
    BY <2>23 DEF StirRaise, servosVars
  <2>24. CASE StirDone
    BY <2>24 DEF StirDone, servosVars
  <2>25. CASE WickInsert
    BY <2>25 DEF WickInsert, PurgeWickQueue, servosVars
  <2>26. CASE WickStart
    BY <2>26 DEF WickStart, StartWickServo
  <2>27. CASE WickDropped
    BY <2>27 DEF WickDropped, TakeWickMessage
  <2>28. CASE WickDone
    BY <2>28 DEF WickDone, StopWickServo
  <2>29. CASE CoolingEnter
    BY <2>29 DEF CoolingEnter, servosVars
  <2>30. CASE CoolingDone
    BY <2>30 DEF CoolingDone, servosVars
  <2>31. CASE EndState
    BY <2>31 DEF EndState, At, Dispatched
  <2>32. CASE UnlockSettled
    BY <2>32 DEF UnlockSettled, servosVars
  <2>33. CASE Estop
    BY <2>33 DEF Estop, servosVars
  <2>34. CASE EstopReset
    BY <2>34 DEF EstopReset, servosVars
  <2>35. CASE MotorThread
    BY <2>35 DEF MotorThread, servosVars
  <2>36. CASE TempThread
    BY <2>36 DEF TempThread, servosVars
  <2>37. CASE FanThread
    BY <2>37 DEF FanThread, servosVars
  <2>38. CASE ButtonIsr
    BY <2>38 DEF ButtonIsr, servosVars
  <2>39. CASE BeamIsr
    BY <2>39 DEF BeamIsr, thru_beam_isr
  <2>40. QED
    BY <2>1, <2>2, <2>3, <2>4, <2>5, <2>6, <2>7, <2>8, <2>9, <2>10, <2>11,
       <2>12, <2>13, <2>14, <2>15, <2>16, <2>17, <2>18, <2>19, <2>20, <2>21,
       <2>22, <2>23, <2>24, <2>25, <2>26, <2>27, <2>28, <2>29, <2>30, <2>31,
       <2>32, <2>33, <2>34, <2>35, <2>36, <2>37, <2>38, <2>39 DEF Next, Main,
       Environment
<1>2. [Next]_vars => [Unlocks => ~estop_flag]_vars
  BY <1>1
<1>3. QED
  BY <1>2, PTL DEF Spec, NoUnlockDuringEstop

=============================================================================
