------------------------------ MODULE Heating -------------------------------
(***************************************************************************)
(* src/src/heating.c: the heater pin, the e-stop flag and the temperature  *)
(* safety thread.                                                          *)
(*                                                                         *)
(* The thread samples the thermistor every 100 ms.  A sample above         *)
(* MAX_SAFE_TEMP makes it first cut the heater pin and then raise the      *)
(* flag; main, of higher priority, may run between those two steps.        *)
(***************************************************************************)
EXTENDS Integers, Zephyr

\* What a good sample of the thermistor may be.  The code as committed returns 25
\* for each (a placeholder); the instances also take values that a real conversion
\* would return.
CONSTANT Readings

ASSUME ReadingsAssumption == Readings \subseteq Int

VARIABLES
    adc_ready,      \* adc_is_ready_dt: settled by the board, never changes
    heating_pin,    \* the level of the heater output
    current_temp,   \* last sample
    estop_flag,
    temp_pc         \* where temp_safety_thread is

heatingVars == <<adc_ready, heating_pin, current_temp, estop_flag, temp_pc>>

MAX_SAFE_TEMP == 120
TARGET_TEMP   == 80

HeatingTypeOK ==
    /\ adc_ready \in BOOLEAN
    /\ heating_pin \in BOOLEAN
    /\ current_temp \in Int
    /\ estop_flag \in BOOLEAN
    /\ temp_pc \in {"sample", "cutoff", "flag"}

HeatingInit ==
    /\ adc_ready \in Outcome("init")
    /\ heating_pin = FALSE
    /\ current_temp = 0
    /\ estop_flag = FALSE
    /\ temp_pc = "sample"

-----------------------------------------------------------------------------
(* Called by main. *)

\* set_heating(stat); ok is whether the GPIO driver accepted the write.
set_heating(stat, ok) == heating_pin' = IF ok THEN stat ELSE heating_pin

clear_estop_flag == estop_flag' = FALSE

\* heating_init up to its last step; ok is the result of the driver calls.
heating_init(ok) ==
    /\ heating_pin' = FALSE
    /\ IF ok THEN clear_estop_flag ELSE UNCHANGED estop_flag
    /\ UNCHANGED <<adc_ready, current_temp, temp_pc>>

-----------------------------------------------------------------------------
(* temp_safety_thread. *)

\* Any of its three driver calls may fail; the error is a temperature to the caller.
read_thermistor_temp(ok, t) == IF ok THEN t ELSE -1

\* As long as the ADC is not ready the thread only sleeps and looks again.
TempNotReady ==
    /\ ~adc_ready
    /\ UNCHANGED heatingVars

\* Stores one sample and compares it with the limit.
TempSample ==
    /\ temp_pc = "sample"
    /\ adc_ready
    /\ \E ok \in Outcome("adc"), t \in Readings :
          current_temp' = read_thermistor_temp(ok, t)
    /\ temp_pc' = IF current_temp' > MAX_SAFE_TEMP THEN "cutoff" ELSE "sample"
    /\ UNCHANGED <<adc_ready, heating_pin, estop_flag>>

\* Mutant: the pin is left as it is.
TempCutoff_PinKept ==
    /\ temp_pc = "cutoff"
    /\ temp_pc' = "flag"
    /\ UNCHANGED <<adc_ready, heating_pin, current_temp, estop_flag>>

\* Drives the heater pin low.  The result of the driver call is not looked at.
TempCutoff ==
    /\ temp_pc = "cutoff"
    /\ \E ok \in Outcome("heating_gpio") : set_heating(FALSE, ok)
    /\ temp_pc' = "flag"
    /\ UNCHANGED <<adc_ready, current_temp, estop_flag>>

\* set_estop_flag, then back to sleep.
TempFlag ==
    /\ temp_pc = "flag"
    /\ estop_flag' = TRUE
    /\ temp_pc' = "sample"
    /\ UNCHANGED <<adc_ready, heating_pin, current_temp>>

TempSafetyThread == TempNotReady \/ TempSample \/ TempCutoff \/ TempFlag

=============================================================================
