-------------------------- MODULE MCMotorRegisters --------------------------
(* Values of the constants of MotorRegisters for TLC: those of Motors. *)
EXTENDS MotorRegisters, MCMotors

=============================================================================
