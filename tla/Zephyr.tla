------------------------------- MODULE Zephyr -------------------------------
(***************************************************************************)
(* What the firmware takes from the Zephyr RTOS, modelled from the way the *)
(* code under src/ calls it.                                               *)
(*                                                                         *)
(* A driver call either succeeds or returns a negative error.  `Faults`    *)
(* names the drivers that may fail; a driver that is not in it always      *)
(* succeeds.                                                               *)
(*                                                                         *)
(* Threads are preemptive with fixed priorities: main 0, the temperature   *)
(* and tach threads 2, the motor thread 5 (a smaller number runs first).   *)
(* While main runs no other thread does, only interrupt handlers; main     *)
(* gives way where it sleeps or waits, and takes over from any other       *)
(* thread at whatever point that thread has reached.                       *)
(***************************************************************************)

CONSTANT Faults

Drivers == {"init", "heating_gpio", "adc", "door_pwm", "wick_pwm", "fan_pwm",
            "spi"}

ASSUME FaultsAssumption == Faults \subseteq Drivers

\* The possible results of a call of driver d: TRUE for 0, FALSE for an error.
Outcome(d) == IF d \in Faults THEN BOOLEAN ELSE {TRUE}

=============================================================================
