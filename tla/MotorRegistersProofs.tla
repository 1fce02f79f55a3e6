------------------------ MODULE MotorRegistersProofs ------------------------
(***************************************************************************)
(* Theorems about the CTRL3 registers of MotorRegisters: what the drivers  *)
(* hold while the motor thread steps, though motor_init_for_spi_stepping   *)
(* writes the same registers from other threads.                           *)
(***************************************************************************)
EXTENDS MotorRegisters, MotorsProofs

\* The registers add nothing to what motors.c does: each behaviour of
\* MotorRegisters is one of Motors, so what Motors keeps at every step holds
\* with the registers too (motors.c:115-161).
LEMMA RegistersAddNothing == RegistersSpec => Init /\ [][Next]_vars
<1>1. RegistersInit => Init
  BY DEF RegistersInit
<1>2. [RegistersNext]_registerVars => [Next]_vars
  <2>1. RegisterWrite => Next
    BY DEF RegisterWrite, Next, Proceed, motor_thread_entry
  <2>2. NoWrite => Next
    BY DEF NoWrite
  <2>3. UNCHANGED registerVars => UNCHANGED vars
    BY DEF registerVars
  <2>4. QED
    BY <2>1, <2>2, <2>3 DEF RegistersNext
<1>3. QED
  BY <1>1, <1>2, PTL DEF RegistersSpec

\* While the thread steps a motor, its register has the direction of the steps
\* left and neither bit of the SPI stepping mode.
SteppingRegister ==
    m_pc = "step" =>
       /\ ctrl3[slot] \subseteq {"DIR"}
       /\ todo # 0 => ("DIR" \in ctrl3[slot] <=> todo > 0)

RegisterInv == ctrl3 \in [Motors -> SUBSET {"DIR", "STEP", "SPI_DIR", "SPI_STEP"}]
               /\ SteppingRegister

\* What a write of the direction, or of the direction and STEP, leaves in a
\* register when it arrives (motors.c:115-161, 366-383).
LEMMA DirectionWritten ==
  ASSUME "spi" \notin Faults, NEW m \in Motors, todo \in Int,
         ctrl3 \in [Motors -> SUBSET {"DIR", "STEP", "SPI_DIR", "SPI_STEP"}],
         \/ drv8434s_write_reg(m, Direction)
         \/ drv8434s_write_reg(m, Direction \union {"STEP"})
  PROVE  /\ ctrl3' \in [Motors -> SUBSET {"DIR", "STEP", "SPI_DIR", "SPI_STEP"}]
         /\ ctrl3'[m] \subseteq {"DIR"}
         /\ "DIR" \in ctrl3'[m] <=> todo >= 0
<1>1. Outcome("spi") = {TRUE}
  BY DEF Outcome
<1>2. Direction \ {"STEP"} = Direction /\ (Direction \union {"STEP"}) \ {"STEP"} = Direction
  BY DEF Direction
<1>3. ctrl3' = [ctrl3 EXCEPT ![m] = Direction]
  BY <1>1, <1>2 DEF drv8434s_write_reg
<1>4. QED
  BY <1>3 DEF Direction

\* On a bus that does not fail, the direction that a driver holds while its steps
\* are made is that of the move, although any thread may set that driver up in the
\* meantime (motors.c:249-272, 361-387): the bus is the thread's for the whole
\* move, so no 0x30 comes in between to turn the motor round.
THEOREM DirectionHolds ==
  ASSUME "spi" \notin Faults PROVE RegistersSpec => []SteppingRegister
<1>1. RegistersInit => RegisterInv
  BY DEF RegistersInit, Init, RegisterInv, SteppingRegister
<1>2. TypeOK /\ MutexInv /\ RegisterInv /\ [RegistersNext]_registerVars => RegisterInv'
  <2> SUFFICES ASSUME TypeOK, MutexInv, RegisterInv, [RegistersNext]_registerVars
               PROVE  RegisterInv'
    OBVIOUS
  <2>0. todo \in Int /\ slot \in Motors
    BY DEF TypeOK
  <2>1. ASSUME NEW c \in Callers, InitConfigure(c),
               drv8434s_write_reg(req[c].id, {"SPI_DIR", "SPI_STEP"})
        PROVE  RegisterInv'
    <3>1. m_pc # "step" /\ m_pc' = m_pc
      BY <2>1, Names DEF InitConfigure, MutexInv, threadVars
    <3>2. req[c].id \in Motors
      BY <2>1 DEF TypeOK, InitConfigure
    <3>3. QED
      BY <2>1, <3>1, <3>2 DEF RegisterInv, SteppingRegister, drv8434s_write_reg
  <2>2. CASE ThreadDir /\ drv8434s_write_reg(slot, Direction)
    <3>1. slot' = slot /\ todo' = todo
      BY <2>2 DEF ThreadDir
    <3>2. QED
      BY <2>0, <2>2, <3>1, DirectionWritten DEF RegisterInv, SteppingRegister
  <2>3. CASE ThreadStep /\ drv8434s_write_reg(slot, Direction \union {"STEP"})
    <3>1. slot' = slot /\ todo # 0 /\ todo' = IF todo > 0 THEN todo - 1 ELSE todo + 1
      BY <2>3 DEF ThreadStep
    <3>2. todo' # 0 => (todo' > 0 <=> todo >= 0)
      BY <2>0, <3>1
    <3>3. QED
      BY <2>0, <2>3, <3>1, <3>2, DirectionWritten DEF RegisterInv, SteppingRegister
  <2>4. CASE NoWrite
    <3>1. m_pc' = "step" => m_pc = "step" /\ slot' = slot /\ todo' = todo
      <4>1. ~ThreadDir /\ ~ThreadStep
        BY <2>4 DEF NoWrite
      <4>2. ASSUME NEW c \in Callers, Call(c) \/ Proceed(c)
            PROVE  m_pc' = m_pc /\ slot' = slot /\ todo' = todo
        BY <4>2 DEF Call, Proceed, threadVars, MoveStart, InitStart, StopStart,
                    MoveLock, MoveCheck, MoveBusy, MovePublish, MoveWait, MoveReturn,
                    InitLock, InitConfigure, StopLock, StopClear
      <4>3. ASSUME motor_thread_entry PROVE m_pc' # "step"
        BY <4>1, <4>3 DEF motor_thread_entry, ThreadTake, ThreadLock, ThreadLook,
                          ThreadStepped, ThreadDoneLock, ThreadClear, ThreadGive,
                          ThreadAt, NextSlot
      <4>4. QED
        BY <2>4, <4>2, <4>3 DEF NoWrite, Next
    <3>2. QED
      BY <2>4, <3>1 DEF NoWrite, RegisterInv, SteppingRegister
  <2>5. CASE UNCHANGED registerVars
    BY <2>5 DEF registerVars, vars, threadVars, RegisterInv, SteppingRegister
  <2>6. QED
    BY <2>1, <2>2, <2>3, <2>4, <2>5 DEF RegistersNext, RegisterWrite
<1>3. QED
  BY <1>1, <1>2, RegistersAddNothing, TypeAlways, MutexAlways, PTL DEF RegistersSpec, RegisterInv

\* On a bus that does not fail no step is ever made in the SPI stepping mode: what
\* spi_mode finds once is so in every move of every motor (motors.c:263-270,
\* 366-383).
THEOREM NoStepInSpiMode ==
  ASSUME "spi" \notin Faults
  PROVE  RegistersSpec =>
           [][ThreadStep => {"SPI_DIR", "SPI_STEP"} \cap ctrl3[slot] = {}]_registerVars
<1>1. SteppingRegister =>
        [ThreadStep => {"SPI_DIR", "SPI_STEP"} \cap ctrl3[slot] = {}]_registerVars
  BY DEF SteppingRegister, ThreadStep, ThreadAt
<1>2. QED
  BY <1>1, DirectionHolds, PTL

=============================================================================
