--------------------------- MODULE MCCandleMaker ----------------------------
(* Values of the constants of CandleMaker for TLC. *)
EXTENDS CandleMaker

\* Room temperature, the target, the limit, and one more.
MCReadings == {25, 80, 120, 121}
\* Below the target, the target, above the limit.
FewReadings == {25, 80, 121}
\* What the code as committed returns of a good sample: the placeholder.
PlaceholderReadings == {25}
\* The longest press that starts a candle, the shortest that washes.
MCPressLengths == {2000, 2001}
MCGains == {40}
NoFaults == {}
AllFaults == Drivers
\* Those that leave the heater, the fans, the wick and the start-up alone.
SomeFaults == {"adc", "door_pwm"}

=============================================================================
