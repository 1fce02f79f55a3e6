--------------------------- MODULE MotorRegisters ---------------------------
(***************************************************************************)
(* src/src/motors.c, the register writes: Motors with the CTRL3 register   *)
(* of each driver chip, as the set of its bits that are 1.  The chip       *)
(* clears STEP itself (motors.c:3-5).                                      *)
(***************************************************************************)
EXTENDS Motors

VARIABLE ctrl3

registerVars == <<vars, ctrl3>>

RegistersInit == Init /\ ctrl3 = [m \in Motors |-> {}]

\* drv8434s_write_reg of CTRL3 of driver m: a failing write has no effect, and
\* its result is not looked at.
drv8434s_write_reg(m, bits) ==
    \E ok \in Outcome("spi") :
       ctrl3' = [ctrl3 EXCEPT ![m] = IF ok THEN bits \ {"STEP"} ELSE @]

\* 0x80 or 0x00.
Direction == IF todo >= 0 THEN {"DIR"} ELSE {}

\* motor_init_for_spi_stepping writes 0x30; the thread the direction, and with
\* each step the direction and STEP, then the direction.
RegisterWrite ==
    \/ \E c \in Callers :
          InitConfigure(c) /\ drv8434s_write_reg(req[c].id, {"SPI_DIR", "SPI_STEP"})
    \/ ThreadDir /\ drv8434s_write_reg(slot, Direction)
    \/ ThreadStep /\ drv8434s_write_reg(slot, Direction \union {"STEP"})

\* Every other step of Motors leaves the registers alone.
NoWrite ==
    /\ Next
    /\ ~(ThreadDir \/ ThreadStep \/ \E c \in Callers : InitConfigure(c))
    /\ UNCHANGED ctrl3

RegistersNext == RegisterWrite \/ NoWrite

RegistersSpec == RegistersInit /\ [][RegistersNext]_registerVars

\* motors.c:263 "Configure CTRL3: SPI stepping mode": a driver that was set up for
\* SPI stepping stays so.
StaysInSpiMode ==
    [][\A m \in Motors : {"SPI_DIR", "SPI_STEP"} \subseteq ctrl3[m]
                        => {"SPI_DIR", "SPI_STEP"} \subseteq ctrl3'[m]]_registerVars

=============================================================================
