---------------------------- MODULE MCCoolingUse ----------------------------
(* Values of the constants of CoolingUse for TLC. *)
EXTENDS CoolingUse

NoFaults == {}
\* A fan too weak for the band even at full duty, one that meets it a little below,
\* one between, and a strong one: one step of duty (5% of 80 rpm per percent) is
\* just as wide as the band of 400 rpm.
MCGains == {15, 20, 30, 80}
FanFaults == {"fan_pwm"}
OneGain == {30}

=============================================================================
