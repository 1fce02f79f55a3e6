------------------------- MODULE CandleCycleProofs --------------------------
(***************************************************************************)
(* That StateMachine implements the abstract candle cycle and the service  *)
(* of the lead screw whatever drivers fail, and where heater and fans may  *)
(* be on when theirs do not.                                               *)
(***************************************************************************)
EXTENDS CandleMakerProofs

\* The state in whose case of the switch main is at point p.
Home(p) ==
    CASE p \in {"idle_wait", "idle_read", "idle_reread"} -> "IDLE"
      [] p \in {"wash_wait", "wash_moving"} -> "WASH_CYCLE"
      [] p \in {"door_poll", "lock_settle"} -> "INIT_CHECK"
      [] p = "wax_moving" -> "WAX_DISPENSE"
      [] p = "scent_moving" -> "SCENT_DISPENSE"
      [] p \in {"screw_down", "stirring", "screw_up"} -> "STIRRING"
      [] p \in {"wick_start", "wick_wait", "wick_extra"} -> "WICK_INSERT"
      [] p = "cooling_sleep" -> "COOLING"
      [] p = "unlock_settle" -> "ENDSTATE"
      [] p = "estop_wait" -> "ESTOP"
      [] OTHER -> "IDLE"

\* Inside the switch machine.current is the state of the case, before the loop it
\* is IDLE.
HomeInv == pc # "loop" => current = Home(pc)

\* HomeInv is an invariant (stateMachine.c:134-404).
LEMMA HomeInvariant == Spec => []HomeInv
<1>1. Init => HomeInv
  BY DEF Init, StateMachineInit, HomeInv, Home
<1>2. HomeInv /\ [Next]_vars => HomeInv'
  <2> SUFFICES ASSUME HomeInv, [Next]_vars PROVE HomeInv'
    OBVIOUS
  <2> USE DEF HomeInv, Home
  <2>1. CASE Boot
    BY <2>1 DEF Boot, MainAt
  <2>2. CASE MotorInit
    BY <2>2 DEF MotorInit, InitDevice, MainAt
  <2>3. CASE DoorLockInit
    BY <2>3 DEF DoorLockInit, InitDevice, MainAt
  <2>4. CASE SensorsStart
    BY <2>4 DEF SensorsStart, InitDevice, MainAt
  <2>5. CASE IdleEnter
    BY <2>5 DEF IdleEnter, At, MainAt, Dispatched
  <2>6. CASE IdlePressed
    BY <2>6 DEF IdlePressed, MainAt
  <2>7. CASE IdleRead
    BY <2>7 DEF IdleRead, MainAt, GoTo, StayIn
  <2>8. CASE IdleReread
    BY <2>8 DEF IdleReread, MainAt, GoTo
  <2>9. CASE WashEnter
    BY <2>9 DEF WashEnter, At, MainAt, Dispatched
  <2>10. CASE WashPressed
    BY <2>10 DEF WashPressed, MainAt, motor_move, StayIn
  <2>11. CASE WashDone
    BY <2>11 DEF WashDone, GoTo, Returned, MainAt
  <2>12. CASE InitCheck
    BY <2>12 DEF InitCheck, At, StayIn, LockDoor, MainAt, Dispatched, GoTo
  <2>13. CASE DoorPoll
    BY <2>13 DEF DoorPoll, MainAt, GoTo, LockDoor, StayIn
  <2>14. CASE LockSettled
    BY <2>14 DEF LockSettled, MainAt, GoTo
  <2>15. CASE StartHeating
    BY <2>15 DEF StartHeating, At, GoTo, MainAt, Dispatched
  <2>16. CASE WaxDispense
    BY <2>16 DEF WaxDispense, At, motor_move, MainAt, Dispatched, StayIn
  <2>17. CASE WaxDone
    BY <2>17 DEF WaxDone, GoTo, Returned, MainAt
  <2>18. CASE WaitForTemp
    BY <2>18 DEF WaitForTemp, At, GoTo, MainAt, Dispatched
  <2>19. CASE ScentDispense
    BY <2>19 DEF ScentDispense, At, motor_move, MainAt, Dispatched, StayIn
  <2>20. CASE ScentDone
    BY <2>20 DEF ScentDone, GoTo, Returned, MainAt
  <2>21. CASE StirLower
    BY <2>21 DEF StirLower, At, motor_move, MainAt, Dispatched, StayIn
  <2>22. CASE Stir
    BY <2>22 DEF Stir, motor_move, Returned, MainAt, StayIn
  <2>23. CASE StirRaise
    BY <2>23 DEF StirRaise, motor_move, Returned, MainAt, StayIn
  <2>24. CASE StirDone
    BY <2>24 DEF StirDone, GoTo, Returned, MainAt
  <2>25. CASE WickInsert
    BY <2>25 DEF WickInsert, At, GoTo, StayIn, MainAt, Dispatched
  <2>26. CASE WickStart
    BY <2>26 DEF WickStart, MainAt, GoTo, StayIn
  <2>27. CASE WickDropped
    BY <2>27 DEF WickDropped, MainAt, StayIn
  <2>28. CASE WickDone
    BY <2>28 DEF WickDone, MainAt, GoTo
  <2>29. CASE CoolingEnter
    BY <2>29 DEF CoolingEnter, At, MainAt, Dispatched
  <2>30. CASE CoolingDone
    BY <2>30 DEF CoolingDone, MainAt, GoTo
  <2>31. CASE EndState
    BY <2>31 DEF EndState, At, StayIn, CycleOver, MainAt, Dispatched, GoTo
  <2>32. CASE UnlockSettled
    BY <2>32 DEF UnlockSettled, MainAt, CycleOver, GoTo
  <2>33. CASE Estop
    BY <2>33 DEF Estop, At, StayIn, MainAt, Dispatched
  <2>34. CASE EstopReset
    BY <2>34 DEF EstopReset, MainAt, CycleOver, GoTo
  <2>35. CASE MotorThread
    BY <2>35 DEF MotorThread, mainVars
  <2>36. CASE TempThread
    BY <2>36 DEF TempThread, mainVars
  <2>37. CASE FanThread
    BY <2>37 DEF FanThread, mainVars
  <2>38. CASE ButtonIsr
    BY <2>38 DEF ButtonIsr, mainVars
  <2>39. CASE BeamIsr
    BY <2>39 DEF BeamIsr, mainVars
  <2>40. CASE UNCHANGED vars
    BY <2>40 DEF vars, mainVars
  <2>41. QED
    BY <2>1, <2>2, <2>3, <2>4, <2>5, <2>6, <2>7, <2>8, <2>9, <2>10, <2>11,
       <2>12, <2>13, <2>14, <2>15, <2>16, <2>17, <2>18, <2>19, <2>20, <2>21,
       <2>22, <2>23, <2>24, <2>25, <2>26, <2>27, <2>28, <2>29, <2>30, <2>31,
       <2>32, <2>33, <2>34, <2>35, <2>36, <2>37, <2>38, <2>39, <2>40 DEF Next,
       Main, Environment
<1>3. QED
  BY <1>1, <1>2, PTL DEF Spec

-----------------------------------------------------------------------------
(* ScrewSpec. *)

\* Main is the only client of the lead screw and uses it as Motors serves it: on a
\* bus that does not fail each move is made in full before main goes on, else up to
\* the steps lost (stateMachine.c:312-318, motors.c:317-323, 375-383).
THEOREM ScrewIsServed == Spec => ScrewSpec
<1> USE DEF LEAD_SCREW_ID, NoJob
<1>1. Init => ScrewService!Init
  BY FirstMotorAssumption DEF Init, StateMachineInit, ScrewService!Init
<1>2. ScrewInv /\ TypeOK /\ [Next]_vars => [ScrewService!Next]_(ScrewService!vars)
  <2> SUFFICES ASSUME ScrewInv, TypeOK, [Next]_vars
               PROVE  [ScrewService!Next]_(ScrewService!vars)
    OBVIOUS
  <2>0. job # NoJob => pc \in MovingPcs
    BY DEF ScrewInv
  <2> USE FirstMotorAssumption DEF ScrewService!vars
  <2>1. CASE Boot
    BY <2>1 DEF Boot, MainAt, motorVars
  <2>2. CASE MotorInit
    BY <2>2 DEF MotorInit, InitDevice, MainAt, motorVars
  <2>3. CASE DoorLockInit
    BY <2>3 DEF DoorLockInit, InitDevice, MainAt, motorVars
  <2>4. CASE SensorsStart
    BY <2>4 DEF SensorsStart, InitDevice, MainAt, motorVars
  <2>5. CASE IdleEnter
    BY <2>5 DEF IdleEnter, At, motorVars, MainAt
  <2>6. CASE IdlePressed
    BY <2>6 DEF IdlePressed, MainAt, motorVars
  <2>7. CASE IdleRead
    BY <2>7 DEF IdleRead, MainAt, GoTo, StayIn, motorVars
  <2>8. CASE IdleReread
    BY <2>8 DEF IdleReread, MainAt, GoTo, motorVars
  <2>9. CASE WashEnter
    BY <2>9 DEF WashEnter, At, motorVars, MainAt
  <2>10. CASE WashPressed
    BY <2>0, <2>10 DEF WashPressed, MainAt, motor_move, StayIn, SCENT_ID,
       MovingPcs
  <2>11. CASE WashDone
    BY <2>11 DEF WashDone, Returned, MoveOver, GoTo, MainAt
  <2>12. CASE InitCheck
    BY <2>12 DEF InitCheck, At, StayIn, LockDoor, motorVars, MainAt, GoTo
  <2>13. CASE DoorPoll
    BY <2>13 DEF DoorPoll, MainAt, GoTo, LockDoor, motorVars, StayIn
  <2>14. CASE LockSettled
    BY <2>14 DEF LockSettled, MainAt, GoTo, motorVars
  <2>15. CASE StartHeating
    BY <2>15 DEF StartHeating, At, GoTo, motorVars, MainAt
  <2>16. CASE WaxDispense
    BY <2>0, <2>16 DEF WaxDispense, At, motor_move, MainAt, StayIn, WAX_ID,
       MovingPcs
  <2>17. CASE WaxDone
    BY <2>17 DEF WaxDone, Returned, MoveOver, GoTo, MainAt
  <2>18. CASE WaitForTemp
    BY <2>18 DEF WaitForTemp, At, GoTo, motorVars, MainAt
  <2>19. CASE ScentDispense
    BY <2>0, <2>19 DEF ScentDispense, At, motor_move, MainAt, StayIn,
       SCENT_ID, MovingPcs
  <2>20. CASE ScentDone
    BY <2>20 DEF ScentDone, Returned, MoveOver, GoTo, MainAt
  <2>21. CASE StirLower
    <3>1. ScrewService!Accept
      BY <2>0, <2>21 DEF StirLower, At, MainAt, motor_move, StayIn, MovingPcs,
         Motors, STEPS, ScrewService!Accept
    <3>2. QED
      BY <3>1 DEF ScrewService!Next
  <2>22. CASE Stir
    <3>1. ScrewService!Return
      BY <2>0, <2>22 DEF Stir, Returned, MainAt, motor_move, StayIn, STIR_ID,
         ScrewService!Return
    <3>2. QED
      BY <3>1 DEF ScrewService!Next
  <2>23. CASE StirRaise
    <3>1. ScrewService!Accept
      BY <2>0, <2>23 DEF StirRaise, Returned, MainAt, motor_move, StayIn,
         Motors, STEPS, ScrewService!Accept
    <3>2. QED
      BY <3>1 DEF ScrewService!Next
  <2>24. CASE StirDone
    <3>1. ScrewService!Return
      BY <2>0, <2>24 DEF StirDone, Returned, MainAt, MoveOver, GoTo,
         ScrewService!Return
    <3>2. QED
      BY <3>1 DEF ScrewService!Next
  <2>25. CASE WickInsert
    BY <2>25 DEF WickInsert, At, GoTo, StayIn, motorVars, MainAt
  <2>26. CASE WickStart
    BY <2>26 DEF WickStart, MainAt, GoTo, StayIn, motorVars
  <2>27. CASE WickDropped
    BY <2>27 DEF WickDropped, MainAt, StayIn, motorVars
  <2>28. CASE WickDone
    BY <2>28 DEF WickDone, MainAt, GoTo, motorVars
  <2>29. CASE CoolingEnter
    BY <2>29 DEF CoolingEnter, At, motorVars, MainAt
  <2>30. CASE CoolingDone
    BY <2>30 DEF CoolingDone, MainAt, GoTo, motorVars
  <2>31. CASE EndState
    BY <2>31 DEF EndState, At, StayIn, CycleOver, motorVars, MainAt, GoTo
  <2>32. CASE UnlockSettled
    BY <2>32 DEF UnlockSettled, MainAt, CycleOver, motorVars, GoTo
  <2>33. CASE Estop
    BY <2>33 DEF Estop, At, StayIn, motorVars, MainAt
  <2>34. CASE EstopReset
    BY <2>34 DEF EstopReset, MainAt, CycleOver, motorVars, GoTo
  <2>35. CASE MotorThread
    <3>1. CASE job.id = LEAD_SCREW_ID
      <4>1. /\ job.steps \in Int /\ screw \in Int /\ lost \in 0..MaxLost
            /\ ScrewTurns(job.steps) /\ job' = NoJob /\ pc' = pc
        BY <2>35, <3>1 DEF MotorThread, mainVars, TypeOK
      <4>2. /\ screw' \in Int
            /\ \/ 0 <= screw' - screw /\ screw' - screw <= job.steps
               \/ job.steps <= screw' - screw /\ screw' - screw <= 0
            /\ "spi" \notin Faults => screw' = screw + job.steps
        BY <4>1, ScrewTurnsLosing
      <4>3. job'.id # LEAD_SCREW_ID
        BY <4>1
      <4>4. CASE "spi" \notin Faults
        <5>1. screw' - screw = job.steps
          BY <4>1, <4>2, <4>4
        <5>2. ScrewService!Turn
          BY <3>1, <4>1, <4>3, <4>4, <5>1 DEF ScrewService!Turn, ScrewService!Between
        <5>3. QED
          BY <5>2 DEF ScrewService!Next
      <4>5. CASE "spi" \in Faults
        <5>1. ScrewService!Between(screw' - screw, job.steps - 0)
          <6>1. job.steps - 0 = job.steps /\ screw' - screw \in Int
            BY <4>1, <4>2
          <6>2. QED
            BY ONLY <4>1, <4>2, <6>1 DEF ScrewService!Between
        <5>2. ScrewService!Between(0, job.steps)
          BY <4>1 DEF ScrewService!Between
        <5>3. ScrewService!Turn
          BY <3>1, <4>1, <4>3, <4>5, <5>1, <5>2 DEF ScrewService!Turn
        <5>4. QED
          BY <5>3 DEF ScrewService!Next
      <4>6. QED
        BY <4>4, <4>5
    <3>2. CASE job.id # LEAD_SCREW_ID
      BY <2>35, <3>2 DEF MotorThread, mainVars
    <3>3. QED
      BY <3>1, <3>2
  <2>36. CASE TempThread
    BY <2>36 DEF TempThread, mainVars, motorVars
  <2>37. CASE FanThread
    BY <2>37 DEF FanThread, mainVars, motorVars
  <2>38. CASE ButtonIsr
    BY <2>38 DEF ButtonIsr, mainVars, motorVars
  <2>39. CASE BeamIsr
    BY <2>39 DEF BeamIsr, mainVars, motorVars
  <2>40. CASE UNCHANGED vars
    BY <2>40 DEF vars, mainVars, motorVars
  <2>41. QED
    BY <2>1, <2>2, <2>3, <2>4, <2>5, <2>6, <2>7, <2>8, <2>9, <2>10, <2>11,
       <2>12, <2>13, <2>14, <2>15, <2>16, <2>17, <2>18, <2>19, <2>20, <2>21,
       <2>22, <2>23, <2>24, <2>25, <2>26, <2>27, <2>28, <2>29, <2>30, <2>31,
       <2>32, <2>33, <2>34, <2>35, <2>36, <2>37, <2>38, <2>39, <2>40 DEF Next,
       Main, Environment
<1>3. QED
  BY <1>1, <1>2, ScrewInvariant, TypeCorrect, PTL DEF Spec, ScrewSpec, ScrewService!Spec

-----------------------------------------------------------------------------
(* The other side of the motor service. *)

\* What main and MotorThread make of the lead screw.
ScrewMove == INSTANCE MotorMove WITH m <- LEAD_SCREW_ID, pos <- screw

\* Main uses the motor service for no more than Motors is proved to give a caller
\* that is alone on a bus that does not fail (AloneIsServed): it asks for a move only
\* when none is under way, and the screw moves by what main asked for
\* (stateMachine.c:205-318).
THEOREM MainAsksOneMove ==
  ASSUME "spi" \notin Faults
  PROVE  Spec => ScrewMove!Spec
<1> USE DEF ScrewMove!NoJob, NoJob
<1>1. Init => ScrewMove!Init
  BY DEF Init, StateMachineInit, ScrewMove!Init
<1>2. ScrewInv /\ TypeOK /\ [Next]_vars => [ScrewMove!Next]_(ScrewMove!vars)
  <2> SUFFICES ASSUME ScrewInv, TypeOK, [Next]_vars
               PROVE  [ScrewMove!Next]_(ScrewMove!vars)
    OBVIOUS
  <2>1. ASSUME NEW id \in Int, NEW n \in Int, NEW s, NEW p,
               motor_move(id, n, s, p), job = NoJob
        PROVE  [ScrewMove!Next]_(ScrewMove!vars)
    BY <2>1 DEF motor_move, ScrewMove!Next, ScrewMove!Ask, ScrewMove!vars
  <2>2. pc \notin MovingPcs => job = NoJob
    BY DEF ScrewInv
  <2>3. /\ SCENT_ID \in Int /\ STIR_ID \in Int /\ WAX_ID \in Int /\ LEAD_SCREW_ID \in Int
        /\ STEPS \in Int /\ STEPS + 3200 \in Int /\ -STEPS \in Int
    BY FirstMotorAssumption DEF SCENT_ID, STIR_ID, WAX_ID, LEAD_SCREW_ID, STEPS
  <2>4. CASE WashPressed \/ WaxDispense \/ ScentDispense \/ StirLower
    <3>1. job = NoJob
      BY <2>2, <2>4 DEF WashPressed, WaxDispense, ScentDispense, StirLower, At, MainAt,
         MovingPcs
    <3>2. CASE WashPressed
      BY <2>1, <2>3, <3>1, <3>2 DEF WashPressed
    <3>3. CASE WaxDispense
      BY <2>1, <2>3, <3>1, <3>3 DEF WaxDispense
    <3>4. CASE ScentDispense
      BY <2>1, <2>3, <3>1, <3>4 DEF ScentDispense
    <3>5. CASE StirLower
      BY <2>1, <2>3, <3>1, <3>5 DEF StirLower
    <3>6. QED
      BY <2>4, <3>2, <3>3, <3>4, <3>5
  <2>5. CASE Stir
    BY <2>1, <2>3, <2>5 DEF Stir, Returned
  <2>6. CASE StirRaise
    BY <2>1, <2>3, <2>6 DEF StirRaise, Returned
  <2>7. CASE MotorThread
    <3>1. CASE job.id = LEAD_SCREW_ID
      <4>1. /\ job.steps \in Int /\ screw \in Int /\ lost \in 0..MaxLost
            /\ ScrewTurns(job.steps)
        BY <2>7, <3>1 DEF MotorThread, TypeOK
      <4>2. screw' = screw + job.steps
        BY <4>1, ScrewTurnsLosing
      <4>3. QED
        BY <2>7, <3>1, <4>2 DEF MotorThread, ScrewMove!Next, ScrewMove!Made
    <3>2. CASE job.id # LEAD_SCREW_ID
      BY <2>7, <3>2 DEF MotorThread, ScrewMove!Next, ScrewMove!Made
    <3>3. QED
      BY <3>1, <3>2
  <2>8. CASE \/ Boot \/ MotorInit \/ DoorLockInit \/ SensorsStart
             \/ IdleEnter \/ IdlePressed \/ IdleRead \/ IdleReread
             \/ WashEnter \/ WashDone \/ InitCheck \/ DoorPoll \/ LockSettled
             \/ StartHeating \/ WaxDone \/ WaitForTemp \/ ScentDone \/ StirDone
    <3>1. UNCHANGED <<job, screw>>
      BY <2>8 DEF motorVars, MoveOver, Boot, MotorInit, DoorLockInit, SensorsStart,
         InitDevice, IdleEnter, IdlePressed, IdleRead, IdleReread, WashEnter, WashDone,
         InitCheck, DoorPoll, LockSettled, StartHeating, WaxDone, WaitForTemp, ScentDone,
         StirDone
    <3>2. QED
      BY <3>1 DEF ScrewMove!vars
  <2>9. CASE \/ WickInsert \/ WickStart \/ WickDropped \/ WickDone
             \/ CoolingEnter \/ CoolingDone \/ EndState \/ UnlockSettled
             \/ Estop \/ EstopReset \/ TempThread \/ FanThread \/ Environment
             \/ UNCHANGED vars
    <3>1. UNCHANGED <<job, screw>>
      BY <2>9 DEF motorVars, vars, WickInsert, WickStart, WickDropped, WickDone,
         CoolingEnter, CoolingDone, EndState, UnlockSettled, Estop, EstopReset,
         TempThread, FanThread, Environment, ButtonIsr, BeamIsr
    <3>2. QED
      BY <3>1 DEF ScrewMove!vars
  <2>10. QED
    BY <2>4, <2>5, <2>6, <2>7, <2>8, <2>9 DEF Next, Main
<1>3. QED
  BY <1>1, <1>2, ScrewInvariant, TypeCorrect, PTL DEF Spec, ScrewMove!Spec

-----------------------------------------------------------------------------
(* CycleSpec. *)

\* Whatever drivers fail, the firmware implements the abstract candle: its stages in
\* order, heat only once the door is locked and not while the wick goes in, the
\* door opened only at the end with the heater off (stateMachine.c:134-404).
THEOREM CycleImplemented == Spec => CycleSpec
<1> USE DEF CycleStage, StageOf
<1>1. Init => Cycle!Init
  BY DEF Init, HeatingInit, ServosInit, StateMachineInit, Cycle!Init, LOCKED
<1>2. HomeInv /\ HeaterInv /\ TypeOK /\ [Next]_vars => [Cycle!Next]_(Cycle!cycleVars)
  <2> SUFFICES ASSUME HomeInv, HeaterInv, TypeOK, [Next]_vars
               PROVE  [Cycle!Next]_(Cycle!cycleVars)
    OBVIOUS
  <2>0. current \in States /\ heating_pin \in BOOLEAN
    BY DEF TypeOK, HeatingTypeOK
  <2> USE DEF HomeInv, Home, Cycle!cycleVars
  <2>1. CASE Boot
    BY <2>0, <2>1 DEF Boot, MainAt, heating_init, servosVars, Cycle!Next,
       Cycle!HeatOff
  <2>2. CASE MotorInit
    BY <2>0, <2>2 DEF MotorInit, InitDevice, MainAt, heatingVars,
       servosVars
  <2>3. CASE DoorLockInit
    BY <2>0, <2>3 DEF DoorLockInit, InitDevice, MainAt,
       heatingVars, servosVars
  <2>4. CASE SensorsStart
    BY <2>0, <2>4 DEF SensorsStart, InitDevice, MainAt,
       heatingVars, servosVars, Cycle!Next, Cycle!PowerUp
  <2>5. CASE IdleEnter
    BY <2>0, <2>5 DEF IdleEnter, At, heatingVars, servosVars, MainAt,
       Dispatched
  <2>6. CASE IdlePressed
    BY <2>0, <2>6 DEF IdlePressed, MainAt, heatingVars, servosVars
  <2>7. CASE IdleRead
    BY <2>0, <2>7 DEF IdleRead, MainAt, GoTo, StayIn, heatingVars, servosVars
  <2>8. CASE IdleReread
    BY <2>0, <2>8 DEF IdleReread, MainAt, GoTo, heatingVars, servosVars
  <2>9. CASE WashEnter
    BY <2>0, <2>9 DEF WashEnter, At, heatingVars, servosVars, MainAt,
       Dispatched
  <2>10. CASE WashPressed
    BY <2>0, <2>10 DEF WashPressed, MainAt, motor_move, heatingVars,
       servosVars, StayIn
  <2>11. CASE WashDone
    BY <2>0, <2>11 DEF WashDone, GoTo, Returned, heatingVars, servosVars,
       MainAt
  <2>12. CASE InitCheck
    BY <2>0, <2>12 DEF InitCheck, At, LockDoor, StayIn, heatingVars, MainAt,
       Dispatched, GoTo, door_lock, Cycle!Next, Cycle!Lock, Cycle!Stop
  <2>13. CASE DoorPoll
    BY <2>0, <2>13 DEF DoorPoll, MainAt, LockDoor, GoTo, heatingVars, StayIn,
       door_lock, Cycle!Next, Cycle!Lock, Cycle!Stop
  <2>14. CASE LockSettled
    BY <2>0, <2>14 DEF LockSettled, MainAt, GoTo, heatingVars, servosVars,
       Cycle!Next, Cycle!GetReady, HeaterInv
  <2>15. CASE StartHeating
    BY <2>0, <2>15 DEF StartHeating, At, set_heating, GoTo, servosVars,
       MainAt, Dispatched, Cycle!Next, Cycle!StartCooking, Cycle!Stop
  <2>16. CASE WaxDispense
    BY <2>0, <2>16 DEF WaxDispense, At, motor_move, heatingVars, servosVars,
       MainAt, Dispatched, StayIn
  <2>17. CASE WaxDone
    BY <2>0, <2>17 DEF WaxDone, GoTo, Returned, heatingVars, servosVars,
       MainAt, Cycle!Next, Cycle!Stop
  <2>18. CASE WaitForTemp
    BY <2>0, <2>18 DEF WaitForTemp, At, set_heating, GoTo, servosVars, MainAt,
       Dispatched, Cycle!Next, Cycle!HeatOff
  <2>19. CASE ScentDispense
    BY <2>0, <2>19 DEF ScentDispense, At, motor_move, heatingVars, servosVars,
       MainAt, Dispatched, StayIn
  <2>20. CASE ScentDone
    BY <2>0, <2>20 DEF ScentDone, GoTo, Returned, heatingVars, servosVars,
       MainAt
  <2>21. CASE StirLower
    BY <2>0, <2>21 DEF StirLower, At, motor_move, heatingVars, servosVars,
       MainAt, Dispatched, StayIn
  <2>22. CASE Stir
    BY <2>0, <2>22 DEF Stir, motor_move, Returned, heatingVars, servosVars,
       MainAt, StayIn
  <2>23. CASE StirRaise
    BY <2>0, <2>23 DEF StirRaise, motor_move, Returned, heatingVars,
       servosVars, MainAt, StayIn
  <2>24. CASE StirDone
    BY <2>0, <2>24 DEF StirDone, GoTo, Returned, heatingVars, servosVars,
       MainAt
  <2>25. CASE WickInsert
    BY <2>0, <2>25 DEF WickInsert, At, set_heating, GoTo, StayIn,
       PurgeWickQueue, servosVars, MainAt, Dispatched, Cycle!Next,
       Cycle!StartCooling, Cycle!Stop
  <2>26. CASE WickStart
    BY <2>0, <2>26 DEF WickStart, MainAt, GoTo, StayIn, StartWickServo,
       heatingVars, Cycle!Next, Cycle!Stop
  <2>27. CASE WickDropped
    BY <2>0, <2>27 DEF WickDropped, MainAt, StayIn, TakeWickMessage,
       heatingVars
  <2>28. CASE WickDone
    BY <2>0, <2>28 DEF WickDone, MainAt, GoTo, StopWickServo, heatingVars
  <2>29. CASE CoolingEnter
    BY <2>0, <2>29 DEF CoolingEnter, At, heatingVars, servosVars, MainAt,
       Dispatched
  <2>30. CASE CoolingDone
    BY <2>0, <2>30 DEF CoolingDone, MainAt, GoTo, heatingVars, servosVars,
       Cycle!Next, Cycle!Finish
  <2>31. CASE EndState
    BY <2>0, <2>31 DEF EndState, At, StayIn, door_unlock, CycleOver,
       heatingVars, MainAt, Dispatched, GoTo, Cycle!Next, Cycle!Unlock,
       Cycle!BackToIdle, HeaterInv, Cold, LOCKED, UNLOCKED
  <2>32. CASE UnlockSettled
    BY <2>0, <2>32 DEF UnlockSettled, MainAt, CycleOver, heatingVars,
       servosVars, GoTo, Cycle!Next, Cycle!BackToIdle
  <2>33. CASE Estop
    BY <2>0, <2>33 DEF Estop, At, set_heating, StayIn, servosVars, MainAt,
       Dispatched, Cycle!Next, Cycle!Stop, Cycle!HeatOff, States
  <2>34. CASE EstopReset
    BY <2>0, <2>34 DEF EstopReset, MainAt, CycleOver, servosVars, GoTo,
       Cycle!Next, Cycle!Reset
  <2>35. CASE MotorThread
    BY <2>0, <2>35 DEF MotorThread, mainVars, heatingVars, servosVars
  <2>36. CASE TempThread
    <3>1. heating_pin' = heating_pin \/ heating_pin' = FALSE
      <4>1. CASE TempCutoff
        BY <4>1 DEF TempCutoff, set_heating
      <4>2. CASE TempNotReady \/ TempSample \/ TempFlag
        BY <4>2 DEF TempNotReady, TempSample, TempFlag, heatingVars
      <4>3. QED
        BY <2>36, <4>1, <4>2 DEF TempThread, TempSafetyThread
    <3>2. UNCHANGED <<pc, current, door_servo>>
      BY <2>36 DEF TempThread, mainVars, servosVars
    <3>3. QED
      BY <3>1, <3>2 DEF Cycle!Next, Cycle!HeatOff
  <2>37. CASE FanThread
    BY <2>0, <2>37 DEF FanThread, mainVars, heatingVars, servosVars
  <2>38. CASE ButtonIsr
    BY <2>0, <2>38 DEF ButtonIsr, mainVars, heatingVars, servosVars
  <2>39. CASE BeamIsr
    BY <2>0, <2>39 DEF BeamIsr, thru_beam_isr, mainVars, heatingVars
  <2>40. CASE UNCHANGED vars
    BY <2>40 DEF vars, mainVars, heatingVars, servosVars
  <2>41. QED
    BY <2>1, <2>2, <2>3, <2>4, <2>5, <2>6, <2>7, <2>8, <2>9, <2>10, <2>11,
       <2>12, <2>13, <2>14, <2>15, <2>16, <2>17, <2>18, <2>19, <2>20, <2>21,
       <2>22, <2>23, <2>24, <2>25, <2>26, <2>27, <2>28, <2>29, <2>30, <2>31,
       <2>32, <2>33, <2>34, <2>35, <2>36, <2>37, <2>38, <2>39, <2>40 DEF Next,
       Main, Environment
<1>3. QED
  BY <1>1, <1>2, HomeInvariant, HeaterInvariant, TypeCorrect, PTL
     DEF Spec, CycleSpec, Cycle!Spec

-----------------------------------------------------------------------------
(* When the driver that matters does not fail. *)

\* A driver that cannot fail succeeds.
LEMMA NoFailure ==
  ASSUME NEW d, d \notin Faults
  PROVE  Outcome(d) = {TRUE}
  BY DEF Outcome

\* Nor do calls to fans that cannot fail.
LEMMA FansAccept ==
  ASSUME "fan_pwm" \notin Faults
  PROVE  \A oks \in FanOutcomes : \A f \in Fans : oks[f] = TRUE
  BY DEF Outcome, FanOutcomes

\* HeaterConfined is inductive once it is known that the wax motor exists, so that
\* WAX_DISPENSE is not left for ESTOP with the heater on.
ConfinedInv == HeaterConfined /\ (pc = "wax_moving" => err = 0)

\* If the heater's pin can be written, the heater is on only from the end of HEATING
\* until the target is reached or an e-stop is served, whatever other drivers fail
\* and with either numbering of the motors (stateMachine.c:256, 286, 385).
THEOREM HeaterIsConfined ==
  ASSUME "heating_gpio" \notin Faults
  PROVE  Spec => []HeaterConfined
<1>1. Init => ConfinedInv
  BY DEF Init, HeatingInit, StateMachineInit, ConfinedInv, HeaterConfined
<1>2. HomeInv /\ ConfinedInv /\ [Next]_vars => ConfinedInv'
  <2> SUFFICES ASSUME HomeInv, ConfinedInv, [Next]_vars PROVE ConfinedInv'
    OBVIOUS
  <2>0. Outcome("heating_gpio") = {TRUE}
    BY NoFailure
  <2> USE DEF ConfinedInv, HeaterConfined
  <2>1. CASE Boot
    BY <2>1 DEF Boot, MainAt, heating_init, motorVars
  <2>2. CASE MotorInit
    BY <2>2 DEF MotorInit, InitDevice, MainAt, heatingVars,
       motorVars, HomeInv, Home
  <2>3. CASE DoorLockInit
    BY <2>3 DEF DoorLockInit, InitDevice, MainAt, heatingVars,
       motorVars, HomeInv, Home
  <2>4. CASE SensorsStart
    BY <2>4 DEF SensorsStart, InitDevice, MainAt, heatingVars,
       motorVars, HomeInv, Home
  <2>5. CASE IdleEnter
    BY <2>5 DEF IdleEnter, At, heatingVars, motorVars, MainAt, Dispatched
  <2>6. CASE IdlePressed
    BY <2>6 DEF IdlePressed, MainAt, heatingVars, motorVars, HomeInv, Home
  <2>7. CASE IdleRead
    BY <2>7 DEF IdleRead, MainAt, GoTo, StayIn, heatingVars, motorVars,
       HomeInv, Home
  <2>8. CASE IdleReread
    BY <2>8 DEF IdleReread, MainAt, GoTo, heatingVars, motorVars, HomeInv,
       Home
  <2>9. CASE WashEnter
    BY <2>9 DEF WashEnter, At, heatingVars, motorVars, MainAt, Dispatched
  <2>10. CASE WashPressed
    BY <2>10 DEF WashPressed, MainAt, motor_move, heatingVars, StayIn,
       HomeInv, Home
  <2>11. CASE WashDone
    BY <2>11 DEF WashDone, GoTo, Returned, MoveOver, heatingVars, MainAt,
       HomeInv, Home
  <2>12. CASE InitCheck
    BY <2>12 DEF InitCheck, At, LockDoor, StayIn, heatingVars, motorVars,
       MainAt, Dispatched, GoTo
  <2>13. CASE DoorPoll
    BY <2>13 DEF DoorPoll, MainAt, LockDoor, GoTo, heatingVars, motorVars,
       StayIn, HomeInv, Home
  <2>14. CASE LockSettled
    BY <2>14 DEF LockSettled, MainAt, GoTo, heatingVars, motorVars, HomeInv,
       Home
  <2>15. CASE StartHeating
    BY <2>0, <2>15 DEF StartHeating, At, set_heating, GoTo, motorVars, MainAt,
       Dispatched
  <2>16. CASE WaxDispense
    BY <2>16, FirstMotorAssumption DEF WaxDispense, At, motor_move,
       heatingVars, MainAt, Dispatched, StayIn, WAX_ID, Motors
  <2>17. CASE WaxDone
    BY <2>17 DEF WaxDone, GoTo, Returned, MoveOver, heatingVars, MainAt,
       HomeInv, Home
  <2>18. CASE WaitForTemp
    BY <2>0, <2>18 DEF WaitForTemp, At, set_heating, GoTo, motorVars, MainAt,
       Dispatched
  <2>19. CASE ScentDispense
    BY <2>19 DEF ScentDispense, At, motor_move, heatingVars, MainAt,
       Dispatched, StayIn
  <2>20. CASE ScentDone
    BY <2>20 DEF ScentDone, GoTo, Returned, MoveOver, heatingVars, MainAt,
       HomeInv, Home
  <2>21. CASE StirLower
    BY <2>21 DEF StirLower, At, motor_move, heatingVars, MainAt, Dispatched,
       StayIn
  <2>22. CASE Stir
    BY <2>22 DEF Stir, motor_move, Returned, heatingVars, MainAt, StayIn,
       HomeInv, Home
  <2>23. CASE StirRaise
    BY <2>23 DEF StirRaise, motor_move, Returned, heatingVars, MainAt, StayIn,
       HomeInv, Home
  <2>24. CASE StirDone
    BY <2>24 DEF StirDone, GoTo, Returned, MoveOver, heatingVars, MainAt,
       HomeInv, Home
  <2>25. CASE WickInsert
    BY <2>0, <2>25 DEF WickInsert, At, set_heating, GoTo, StayIn, motorVars,
       MainAt, Dispatched
  <2>26. CASE WickStart
    BY <2>26 DEF WickStart, MainAt, GoTo, StayIn, heatingVars, motorVars,
       HomeInv, Home
  <2>27. CASE WickDropped
    BY <2>27 DEF WickDropped, MainAt, StayIn, heatingVars, motorVars, HomeInv,
       Home
  <2>28. CASE WickDone
    BY <2>28 DEF WickDone, MainAt, GoTo, heatingVars, motorVars, HomeInv, Home
  <2>29. CASE CoolingEnter
    BY <2>29 DEF CoolingEnter, At, heatingVars, motorVars, MainAt, Dispatched
  <2>30. CASE CoolingDone
    BY <2>30 DEF CoolingDone, MainAt, GoTo, heatingVars, motorVars, HomeInv,
       Home
  <2>31. CASE EndState
    BY <2>31 DEF EndState, At, StayIn, CycleOver, heatingVars, motorVars,
       MainAt, Dispatched, GoTo
  <2>32. CASE UnlockSettled
    BY <2>32 DEF UnlockSettled, MainAt, CycleOver, heatingVars, motorVars,
       GoTo, HomeInv, Home
  <2>33. CASE Estop
    BY <2>0, <2>33 DEF Estop, At, set_heating, StayIn, motorVars, MainAt,
       Dispatched
  <2>34. CASE EstopReset
    BY <2>34 DEF EstopReset, MainAt, CycleOver, motorVars, GoTo, HomeInv, Home
  <2>35. CASE MotorThread
    BY <2>35 DEF MotorThread, mainVars, heatingVars
  <2>36. CASE TempThread
    BY <2>36, TempThreadOnlyCuts DEF TempThread, mainVars, motorVars
  <2>37. CASE FanThread
    BY <2>37 DEF FanThread, mainVars, heatingVars, motorVars
  <2>38. CASE ButtonIsr
    BY <2>38 DEF ButtonIsr, mainVars, heatingVars, motorVars
  <2>39. CASE BeamIsr
    BY <2>39 DEF BeamIsr, mainVars, heatingVars, motorVars
  <2>40. CASE UNCHANGED vars
    BY <2>40 DEF vars, mainVars, heatingVars, motorVars
  <2>41. QED
    BY <2>1, <2>2, <2>3, <2>4, <2>5, <2>6, <2>7, <2>8, <2>9, <2>10, <2>11,
       <2>12, <2>13, <2>14, <2>15, <2>16, <2>17, <2>18, <2>19, <2>20, <2>21,
       <2>22, <2>23, <2>24, <2>25, <2>26, <2>27, <2>28, <2>29, <2>30, <2>31,
       <2>32, <2>33, <2>34, <2>35, <2>36, <2>37, <2>38, <2>39, <2>40 DEF Next,
       Main, Environment
<1>3. ConfinedInv => HeaterConfined
  BY DEF ConfinedInv
<1>4. QED
  BY <1>1, <1>2, <1>3, HomeInvariant, PTL DEF Spec

\* The heater that main turned on between the cut of the pin and the raising of the
\* flag: until the thread is done, which main has cut short once, main waits.
RearmInv ==
    /\ HeaterRearmWindow
    /\ temp_pc = "flag" /\ heating_pin =>
          current = "WAX_DISPENSE" /\ pc = "loop" /\ preempted

\* If its pin can be written, a heater is on with the flag up for one reason only:
\* main ran HEATING inside the thread's step, and it will find the flag the next
\* time it looks (heating.c:82-83, stateMachine.c:168, 256).
THEOREM RearmIsOneWindow ==
  ASSUME "heating_gpio" \notin Faults
  PROVE  Spec => []HeaterRearmWindow
<1>1. Init => RearmInv
  BY DEF Init, HeatingInit, StateMachineInit, RearmInv, HeaterRearmWindow
<1>2. RearmInv /\ [Next]_vars => RearmInv'
  <2> SUFFICES ASSUME RearmInv, [Next]_vars PROVE RearmInv'
    OBVIOUS
  <2>0. Outcome("heating_gpio") = {TRUE}
    BY NoFailure
  <2> USE DEF RearmInv, HeaterRearmWindow
  <2>1. CASE Boot
    BY <2>1 DEF Boot, MainAt, heating_init, motorVars, MainRuns, MovingPcs
  <2>2. CASE MotorInit
    BY <2>2 DEF MotorInit, InitDevice, MainAt, heatingVars,
       motorVars, MainRuns, MovingPcs
  <2>3. CASE DoorLockInit
    BY <2>3 DEF DoorLockInit, InitDevice, MainAt, heatingVars,
       motorVars, MainRuns, MovingPcs
  <2>4. CASE SensorsStart
    BY <2>4 DEF SensorsStart, InitDevice, MainAt, heatingVars,
       motorVars, MainRuns, MovingPcs
  <2>5. CASE IdleEnter
    BY <2>5 DEF IdleEnter, At, heatingVars, motorVars, MainAt, Dispatched,
       MainRuns, MovingPcs
  <2>6. CASE IdlePressed
    BY <2>6 DEF IdlePressed, MainAt, heatingVars, motorVars, MainRuns,
       MovingPcs
  <2>7. CASE IdleRead
    BY <2>7 DEF IdleRead, MainAt, GoTo, StayIn, heatingVars, motorVars,
       MainRuns, MovingPcs
  <2>8. CASE IdleReread
    BY <2>8 DEF IdleReread, MainAt, GoTo, heatingVars, motorVars, MainRuns,
       MovingPcs
  <2>9. CASE WashEnter
    BY <2>9 DEF WashEnter, At, heatingVars, motorVars, MainAt, Dispatched,
       MainRuns, MovingPcs
  <2>10. CASE WashPressed
    BY <2>10 DEF WashPressed, MainAt, motor_move, heatingVars, StayIn,
       MainRuns, MovingPcs
  <2>11. CASE WashDone
    BY <2>11 DEF WashDone, GoTo, Returned, heatingVars, MainAt, MainRuns,
       MovingPcs
  <2>12. CASE InitCheck
    BY <2>12 DEF InitCheck, At, LockDoor, StayIn, heatingVars, motorVars,
       MainAt, Dispatched, GoTo, MainRuns, MovingPcs
  <2>13. CASE DoorPoll
    BY <2>13 DEF DoorPoll, MainAt, LockDoor, GoTo, heatingVars, motorVars,
       StayIn, MainRuns, MovingPcs
  <2>14. CASE LockSettled
    BY <2>14 DEF LockSettled, MainAt, GoTo, heatingVars, motorVars, MainRuns,
       MovingPcs
  <2>15. CASE StartHeating
    BY <2>0, <2>15 DEF StartHeating, At, set_heating, GoTo, motorVars, MainAt,
       Dispatched, MainRuns, MovingPcs
  <2>16. CASE WaxDispense
    BY <2>16 DEF WaxDispense, At, motor_move, heatingVars, MainAt, Dispatched,
       StayIn, MainRuns, MovingPcs
  <2>17. CASE WaxDone
    BY <2>17 DEF WaxDone, GoTo, Returned, heatingVars, MainAt, MainRuns,
       MovingPcs
  <2>18. CASE WaitForTemp
    BY <2>0, <2>18 DEF WaitForTemp, At, set_heating, GoTo, motorVars, MainAt,
       Dispatched, MainRuns, MovingPcs
  <2>19. CASE ScentDispense
    BY <2>19 DEF ScentDispense, At, motor_move, heatingVars, MainAt,
       Dispatched, StayIn, MainRuns, MovingPcs
  <2>20. CASE ScentDone
    BY <2>20 DEF ScentDone, GoTo, Returned, heatingVars, MainAt, MainRuns,
       MovingPcs
  <2>21. CASE StirLower
    BY <2>21 DEF StirLower, At, motor_move, heatingVars, MainAt, Dispatched,
       StayIn, MainRuns, MovingPcs
  <2>22. CASE Stir
    BY <2>22 DEF Stir, motor_move, Returned, heatingVars, MainAt, StayIn,
       MainRuns, MovingPcs
  <2>23. CASE StirRaise
    BY <2>23 DEF StirRaise, motor_move, Returned, heatingVars, MainAt, StayIn,
       MainRuns, MovingPcs
  <2>24. CASE StirDone
    BY <2>24 DEF StirDone, GoTo, Returned, heatingVars, MainAt, MainRuns,
       MovingPcs
  <2>25. CASE WickInsert
    BY <2>0, <2>25 DEF WickInsert, At, set_heating, GoTo, StayIn, motorVars,
       MainAt, Dispatched, MainRuns, MovingPcs
  <2>26. CASE WickStart
    BY <2>26 DEF WickStart, MainAt, GoTo, StayIn, heatingVars, motorVars,
       MainRuns, MovingPcs
  <2>27. CASE WickDropped
    BY <2>27 DEF WickDropped, MainAt, StayIn, heatingVars, motorVars,
       MainRuns, MovingPcs
  <2>28. CASE WickDone
    BY <2>28 DEF WickDone, MainAt, GoTo, heatingVars, motorVars, MainRuns,
       MovingPcs
  <2>29. CASE CoolingEnter
    BY <2>29 DEF CoolingEnter, At, heatingVars, motorVars, MainAt, Dispatched,
       MainRuns, MovingPcs
  <2>30. CASE CoolingDone
    BY <2>30 DEF CoolingDone, MainAt, GoTo, heatingVars, motorVars, MainRuns,
       MovingPcs
  <2>31. CASE EndState
    BY <2>31 DEF EndState, At, StayIn, CycleOver, heatingVars, motorVars,
       MainAt, Dispatched, GoTo, MainRuns, MovingPcs
  <2>32. CASE UnlockSettled
    BY <2>32 DEF UnlockSettled, MainAt, CycleOver, heatingVars, motorVars,
       GoTo, MainRuns, MovingPcs
  <2>33. CASE Estop
    BY <2>0, <2>33 DEF Estop, At, set_heating, StayIn, motorVars, MainAt,
       Dispatched, MainRuns, MovingPcs
  <2>34. CASE EstopReset
    BY <2>34 DEF EstopReset, MainAt, CycleOver, clear_estop_flag, motorVars,
       GoTo, MainRuns, MovingPcs
  <2>35. CASE MotorThread
    BY <2>35 DEF MotorThread, mainVars, heatingVars
  <2>36. CASE TempThread
    <3>1. CASE TempCutoff
      BY <2>0, <2>36, <3>1 DEF TempThread, TempCutoff, set_heating, mainVars
    <3>2. CASE TempNotReady \/ TempSample
      <4>1. UNCHANGED <<pc, current, heating_pin, estop_flag>>
        BY <2>36, <3>2 DEF TempThread, TempNotReady, TempSample, heatingVars, mainVars
      <4>2. temp_pc' = "flag" => temp_pc = "flag"
        BY <3>2 DEF TempNotReady, TempSample, heatingVars
      <4>3. temp_pc' = "flag" /\ preempted => preempted'
        BY <2>36 DEF TempThread
      <4>4. QED
        BY <4>1, <4>2, <4>3
    <3>3. CASE TempFlag
      BY <2>36, <3>3 DEF TempThread, TempFlag, mainVars
    <3>4. QED
      BY <2>36, <3>1, <3>2, <3>3 DEF TempThread, TempSafetyThread
  <2>37. CASE FanThread
    BY <2>37 DEF FanThread, MainRuns, mainVars, heatingVars, motorVars
  <2>38. CASE ButtonIsr
    BY <2>38 DEF ButtonIsr, mainVars, heatingVars, motorVars
  <2>39. CASE BeamIsr
    BY <2>39 DEF BeamIsr, mainVars, heatingVars, motorVars
  <2>40. CASE UNCHANGED vars
    BY <2>40 DEF vars, mainVars, heatingVars
  <2>41. QED
    BY <2>1, <2>2, <2>3, <2>4, <2>5, <2>6, <2>7, <2>8, <2>9, <2>10, <2>11,
       <2>12, <2>13, <2>14, <2>15, <2>16, <2>17, <2>18, <2>19, <2>20, <2>21,
       <2>22, <2>23, <2>24, <2>25, <2>26, <2>27, <2>28, <2>29, <2>30, <2>31,
       <2>32, <2>33, <2>34, <2>35, <2>36, <2>37, <2>38, <2>39, <2>40 DEF Next,
       Main, Environment
<1>3. RearmInv => HeaterRearmWindow
  BY DEF RearmInv
<1>4. QED
  BY <1>1, <1>2, <1>3, PTL DEF Spec

-----------------------------------------------------------------------------
(* Fans and motors. *)

\* The tach thread is outside its monitoring loop, and the semaphore is down.
Unmonitored == cooling_sem = 0 /\ tach_pc \in {"take", "pend", "test"}

\* The fan control loop is never entered, whatever drivers fail: main gives the one
\* unit when the thread waits for it, and the thread has taken it when it tests for
\* it (cooling.c:158-173, 256-259).
THEOREM NeverMonitored == Spec => []Unmonitored
<1>1. Init => Unmonitored
  BY DEF Init, CoolingInit, Unmonitored
<1>2. Unmonitored /\ [Next]_vars => Unmonitored'
  <2> SUFFICES ASSUME Unmonitored, [Next]_vars PROVE Unmonitored'
    OBVIOUS
  <2> USE DEF Unmonitored
  <2>1. CASE Boot
    BY <2>1 DEF Boot, MainAt, heating_init, cooling_init
  <2>2. CASE MotorInit
    BY <2>2 DEF MotorInit, InitDevice, coolingVars
  <2>3. CASE DoorLockInit
    BY <2>3 DEF DoorLockInit, InitDevice, coolingVars
  <2>4. CASE SensorsStart
    BY <2>4 DEF SensorsStart, InitDevice, coolingVars
  <2>5. CASE IdleEnter
    BY <2>5 DEF IdleEnter, coolingVars
  <2>6. CASE IdlePressed
    BY <2>6 DEF IdlePressed, coolingVars
  <2>7. CASE IdleRead
    BY <2>7 DEF IdleRead, coolingVars
  <2>8. CASE IdleReread
    BY <2>8 DEF IdleReread, coolingVars
  <2>9. CASE WashEnter
    BY <2>9 DEF WashEnter, coolingVars
  <2>10. CASE WashPressed
    BY <2>10 DEF WashPressed, coolingVars
  <2>11. CASE WashDone
    BY <2>11 DEF WashDone, coolingVars
  <2>12. CASE InitCheck
    BY <2>12 DEF InitCheck, coolingVars
  <2>13. CASE DoorPoll
    BY <2>13 DEF DoorPoll, coolingVars
  <2>14. CASE LockSettled
    BY <2>14 DEF LockSettled, coolingVars
  <2>15. CASE StartHeating
    BY <2>15 DEF StartHeating, coolingVars
  <2>16. CASE WaxDispense
    BY <2>16 DEF WaxDispense, coolingVars
  <2>17. CASE WaxDone
    BY <2>17 DEF WaxDone, coolingVars
  <2>18. CASE WaitForTemp
    BY <2>18 DEF WaitForTemp, coolingVars
  <2>19. CASE ScentDispense
    BY <2>19 DEF ScentDispense, coolingVars
  <2>20. CASE ScentDone
    BY <2>20 DEF ScentDone, coolingVars
  <2>21. CASE StirLower
    BY <2>21 DEF StirLower, coolingVars
  <2>22. CASE Stir
    BY <2>22 DEF Stir, coolingVars
  <2>23. CASE StirRaise
    BY <2>23 DEF StirRaise, coolingVars
  <2>24. CASE StirDone
    BY <2>24 DEF StirDone, coolingVars
  <2>25. CASE WickInsert
    BY <2>25 DEF WickInsert, At, start_cooling, coolingVars, MainAt,
       k_sem_give, MainRuns, MovingPcs
  <2>26. CASE WickStart
    BY <2>26 DEF WickStart, coolingVars
  <2>27. CASE WickDropped
    BY <2>27 DEF WickDropped, coolingVars
  <2>28. CASE WickDone
    BY <2>28 DEF WickDone, coolingVars
  <2>29. CASE CoolingEnter
    BY <2>29 DEF CoolingEnter, coolingVars
  <2>30. CASE CoolingDone
    BY <2>30 DEF CoolingDone, stop_cooling, k_sem_reset
  <2>31. CASE EndState
    BY <2>31 DEF EndState, coolingVars
  <2>32. CASE UnlockSettled
    BY <2>32 DEF UnlockSettled, coolingVars
  <2>33. CASE Estop
    BY <2>33 DEF Estop, stop_cooling, k_sem_reset
  <2>34. CASE EstopReset
    BY <2>34 DEF EstopReset, coolingVars
  <2>35. CASE MotorThread
    BY <2>35 DEF MotorThread, coolingVars
  <2>36. CASE TempThread
    BY <2>36 DEF TempThread, coolingVars
  <2>37. CASE FanThread
    BY <2>37 DEF FanThread, TachThread, TachTake, TachTest, TachRead, TachAdjust,
       TachPwm, TachKeep, TachPause
  <2>38. CASE ButtonIsr
    BY <2>38 DEF ButtonIsr, coolingVars
  <2>39. CASE BeamIsr
    BY <2>39 DEF BeamIsr, coolingVars
  <2>40. CASE UNCHANGED vars
    BY <2>40 DEF vars, coolingVars
  <2>41. QED
    BY <2>1, <2>2, <2>3, <2>4, <2>5, <2>6, <2>7, <2>8, <2>9, <2>10, <2>11,
       <2>12, <2>13, <2>14, <2>15, <2>16, <2>17, <2>18, <2>19, <2>20, <2>21,
       <2>22, <2>23, <2>24, <2>25, <2>26, <2>27, <2>28, <2>29, <2>30, <2>31,
       <2>32, <2>33, <2>34, <2>35, <2>36, <2>37, <2>38, <2>39, <2>40 DEF Next,
       Main, Environment
<1>3. QED
  BY <1>1, <1>2, PTL DEF Spec

\* When main comes to WICK_INSERT the fans are off: a heater that cannot be cut there
\* sends it to ESTOP with the fans as they are.
FansInv ==
    (\E f \in Fans : fan_pwm[f] > 0) =>
        current = "COOLING" \/ (current = "WICK_INSERT" /\ pc # "loop")

\* If the PWM of fans and wick works, the fans turn only while the wick is inserted
\* and while the candle cools, whatever other drivers fail (stateMachine.c:336, 357,
\* 386).
THEOREM FansAreConfined ==
  ASSUME "fan_pwm" \notin Faults, "wick_pwm" \notin Faults
  PROVE  Spec => []FansConfined
<1>1. Init => FansInv
  BY DEF Init, CoolingInit, FansInv
<1>2. TypeOK /\ HomeInv /\ Unmonitored /\ FansInv /\ [Next]_vars => FansInv'
  <2> SUFFICES ASSUME TypeOK, HomeInv, Unmonitored, FansInv, [Next]_vars
               PROVE  FansInv'
    OBVIOUS
  <2>0. /\ Outcome("wick_pwm") = {TRUE}
        /\ \A oks \in FanOutcomes : \A f \in Fans : oks[f] = TRUE
    BY NoFailure, FansAccept
  <2> USE DEF FansInv
  <2>1. CASE Boot
    BY <2>0, <2>1 DEF Boot, MainAt, heating_init, cooling_init, stop_fans
  <2>2. CASE MotorInit
    BY <2>2 DEF MotorInit, InitDevice, MainAt, coolingVars
  <2>3. CASE DoorLockInit
    BY <2>3 DEF DoorLockInit, InitDevice, MainAt, coolingVars
  <2>4. CASE SensorsStart
    BY <2>4 DEF SensorsStart, InitDevice, MainAt, HomeInv, Home, coolingVars
  <2>5. CASE IdleEnter
    BY <2>5 DEF IdleEnter, At, coolingVars, MainAt, Dispatched
  <2>6. CASE IdlePressed
    BY <2>6 DEF IdlePressed, MainAt, coolingVars, HomeInv, Home
  <2>7. CASE IdleRead
    BY <2>7 DEF IdleRead, MainAt, GoTo, StayIn, coolingVars, HomeInv, Home
  <2>8. CASE IdleReread
    BY <2>8 DEF IdleReread, MainAt, GoTo, coolingVars, HomeInv, Home
  <2>9. CASE WashEnter
    BY <2>9 DEF WashEnter, At, coolingVars, MainAt, Dispatched
  <2>10. CASE WashPressed
    BY <2>10 DEF WashPressed, MainAt, motor_move, coolingVars, StayIn,
       HomeInv, Home
  <2>11. CASE WashDone
    BY <2>11 DEF WashDone, GoTo, Returned, coolingVars, MainAt, HomeInv, Home
  <2>12. CASE InitCheck
    BY <2>12 DEF InitCheck, At, LockDoor, StayIn, coolingVars, MainAt,
       Dispatched, GoTo
  <2>13. CASE DoorPoll
    BY <2>13 DEF DoorPoll, MainAt, LockDoor, GoTo, coolingVars, StayIn,
       HomeInv, Home
  <2>14. CASE LockSettled
    BY <2>14 DEF LockSettled, MainAt, GoTo, coolingVars, HomeInv, Home
  <2>15. CASE StartHeating
    BY <2>15 DEF StartHeating, At, GoTo, coolingVars, MainAt, Dispatched
  <2>16. CASE WaxDispense
    BY <2>16 DEF WaxDispense, At, motor_move, coolingVars, MainAt, Dispatched,
       StayIn
  <2>17. CASE WaxDone
    BY <2>17 DEF WaxDone, GoTo, Returned, coolingVars, MainAt, HomeInv, Home
  <2>18. CASE WaitForTemp
    BY <2>18 DEF WaitForTemp, At, GoTo, coolingVars, MainAt, Dispatched
  <2>19. CASE ScentDispense
    BY <2>19 DEF ScentDispense, At, motor_move, coolingVars, MainAt,
       Dispatched, StayIn
  <2>20. CASE ScentDone
    BY <2>20 DEF ScentDone, GoTo, Returned, coolingVars, MainAt, HomeInv, Home
  <2>21. CASE StirLower
    BY <2>21 DEF StirLower, At, motor_move, coolingVars, MainAt, Dispatched,
       StayIn
  <2>22. CASE Stir
    BY <2>22 DEF Stir, motor_move, Returned, coolingVars, MainAt, StayIn,
       HomeInv, Home
  <2>23. CASE StirRaise
    BY <2>23 DEF StirRaise, motor_move, Returned, coolingVars, MainAt, StayIn,
       HomeInv, Home
  <2>24. CASE StirDone
    BY <2>24 DEF StirDone, GoTo, Returned, coolingVars, MainAt, HomeInv, Home
  <2>25. CASE WickInsert
    BY <2>0, <2>25 DEF WickInsert, At, GoTo, StayIn, start_cooling,
       coolingVars, MainAt, Dispatched
  <2>26. CASE WickStart
    BY <2>0, <2>26 DEF WickStart, MainAt, GoTo, StayIn, coolingVars, HomeInv,
       Home
  <2>27. CASE WickDropped
    BY <2>27 DEF WickDropped, MainAt, StayIn, coolingVars, HomeInv, Home
  <2>28. CASE WickDone
    BY <2>28 DEF WickDone, MainAt, GoTo, coolingVars, HomeInv, Home
  <2>29. CASE CoolingEnter
    BY <2>29 DEF CoolingEnter, At, coolingVars, MainAt, Dispatched
  <2>30. CASE CoolingDone
    BY <2>0, <2>30 DEF CoolingDone, MainAt, GoTo, stop_cooling, stop_fans
  <2>31. CASE EndState
    BY <2>31 DEF EndState, At, StayIn, CycleOver, coolingVars, MainAt,
       Dispatched, GoTo
  <2>32. CASE UnlockSettled
    BY <2>32 DEF UnlockSettled, MainAt, CycleOver, coolingVars, GoTo, HomeInv,
       Home
  <2>33. CASE Estop
    BY <2>0, <2>33 DEF Estop, At, StayIn, stop_cooling, MainAt, Dispatched,
       stop_fans
  <2>34. CASE EstopReset
    BY <2>34 DEF EstopReset, MainAt, CycleOver, coolingVars, GoTo, HomeInv,
       Home
  <2>35. CASE MotorThread
    BY <2>35 DEF MotorThread, mainVars, coolingVars
  <2>36. CASE TempThread
    BY <2>36 DEF TempThread, mainVars, coolingVars
  <2>37. CASE FanThread
    BY <2>37 DEF FanThread, TachThread, TachTake, TachTest, TachRead, TachAdjust,
       TachPwm, TachKeep, TachPause, Unmonitored, mainVars
  <2>38. CASE ButtonIsr
    BY <2>38 DEF ButtonIsr, mainVars, coolingVars
  <2>39. CASE BeamIsr
    BY <2>39 DEF BeamIsr, mainVars, coolingVars
  <2>40. CASE UNCHANGED vars
    BY <2>40 DEF vars, mainVars, coolingVars
  <2>41. QED
    BY <2>1, <2>2, <2>3, <2>4, <2>5, <2>6, <2>7, <2>8, <2>9, <2>10, <2>11,
       <2>12, <2>13, <2>14, <2>15, <2>16, <2>17, <2>18, <2>19, <2>20, <2>21,
       <2>22, <2>23, <2>24, <2>25, <2>26, <2>27, <2>28, <2>29, <2>30, <2>31,
       <2>32, <2>33, <2>34, <2>35, <2>36, <2>37, <2>38, <2>39, <2>40 DEF Next,
       Main, Environment
<1>3. FansInv => FansConfined
  BY DEF FansInv, FansConfined
<1>4. QED
  BY <1>1, <1>2, <1>3, TypeCorrect, HomeInvariant, NeverMonitored, PTL DEF Spec

=============================================================================
